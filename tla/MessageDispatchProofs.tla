------------------------ MODULE MessageDispatchProofs ------------------------
(***************************************************************************)
(* Proofs about MessageDispatch and the MiddlewareChain it runs, for       *)
(* chains of any length and any behaviour, any number of requests and of   *)
(* connections.                                                            *)
(***************************************************************************)
EXTENDS MessageDispatch, SequenceTheorems, TLAPS

USE ChainAssumption, ConnectionAssumption

-----------------------------------------------------------------------------
(* What a handler has written, as far as it has come.  An answer that came *)
(* out of a chain has the status of the chain's outcome; one to a request  *)
(* without a route has the status of the error thrown for it.              *)
Unstarted(r) == \A p \in Path : call[r][p] = NoCall

AnswerStatus(out, on) ==
  IF out = "empty" /\ on # Http THEN ErrorStatus["InternalServerError"]
  ELSE IF out \in Response THEN Responses[out]
  ELSE ErrorStatus[Normalized(out)]

Handled(r) ==
  /\ msg[r].on # Http => msg[r].body # "bad"
  /\ phase[r] \in {"idle", "ignored"} => sent[r] = <<>> /\ Unstarted(r)
  /\ phase[r] = "chain" => sent[r] = <<>> /\ msg[r].kind = "route"
  /\ phase[r] = "answered" =>
       \E status \in Status :
         /\ sent[r] = <<[status |-> status, to |-> msg[r].on]>>
         /\ \/ /\ msg[r].kind = "route"
               /\ call[r][Root].at = "done"
               /\ status = AnswerStatus(call[r][Root].out, msg[r].on)
            \/ /\ msg[r].kind # "route"
               /\ Unstarted(r)
               /\ msg[r].kind = "noRoute" => status = 404
               /\ msg[r].kind = "noMethod" => status = 405
  /\ phase[r] = "rejected" =>
       /\ sent[r] = <<>>
       /\ \/ msg[r].kind = "null" /\ Unstarted(r)
          \/ /\ msg[r].kind = "route"
             /\ call[r][Root].at = "done"
             /\ call[r][Root].out = BaseError

HandlerInv == \A r \in Request : Handled(r)

(* Where the res of a middleware comes from: it is null, or the body that  *)
(* a parseJsonBody in front of it passed on; behind a validateSchemas it   *)
(* is one the schema accepts.                                              *)
DataOK(r, p) ==
  /\ \/ call[r][p].res = "null"
     \/ /\ call[r][p].res = msg[r].body
        /\ \E i \in 1 .. Len(p) : chain[i] = "json"
  /\ (\E i \in 1 .. Len(p) : chain[i] = "schema") => call[r][p].res = "good"

DataInv ==
  \A r \in Request, p \in Path : call[r][p].at # "none" => DataOK(r, p)

(* Every call above one that runs waits for the branch it is in.           *)
Above(p, q) == Len(p) < Len(q) /\ \A i \in 1 .. Len(p) : p[i] = q[i]

AllAwait == \A i \in 1 .. Len(chain) : chain[i] \notin Unawaited

WaitInv ==
  AllAwait =>
    \A r \in Request, p, q \in Path :
      Above(p, q) /\ call[r][q].at \notin {"none", "done"} =>
        \/ call[r][p].at = "awaiting" /\ q[Len(p) + 1] = 1
        \/ call[r][p].at = "again" /\ q[Len(p) + 1] = 2

(* In a Portable chain next is called once at most, so that its calls lie  *)
(* on one path, and a body that was read was read by its one parseJsonBody.*)
OncePath(p) == \A i \in 1 .. Len(p) : p[i] = 1

OnceInv ==
  Portable =>
    \A r \in Request :
      /\ \A p \in Path : call[r][p].at # "none" => OncePath(p)
      /\ \A p \in Path : /\ call[r][p].at # "again"
                         /\ Len(p) + 1 < Len(chain) =>
                              \/ call[r][Append(p, 1)].at = "none"
                              \/ call[r][p].at \in {"awaiting", "done"}
      /\ consumed[r] => \E q \in Path : /\ Len(q) < Len(chain)
                                        /\ Middleware(q) = "json"
                                        /\ call[r][q].at \in {"awaiting", "done"}

(* What settles a call is a function of its middleware, its res, the       *)
(* message and what settled its next, and so is the res it passes on: of   *)
(* the transport only if the body cannot be read.                          *)
Comparable(r) == msg[r].type = "json" => msg[r].body \in {"unfit", "good"}

PassedOn(r, p) == IF Middleware(p) = "json" /\ msg[r].type = "json"
                  THEN msg[r].body ELSE call[r][p].res

Refused(r, p) ==
  \/ Middleware(p) \notin Forwarding \ Unawaited
  \/ Middleware(p) = "json" /\ msg[r].type = "other"
  \/ Middleware(p) = "schema" /\ call[r][p].res # "good"
  \/ IsLast(p)

Refusal(r, p) ==
  IF Middleware(p) \in Response \cup ErrorClass THEN Middleware(p)
  ELSE IF Middleware(p) = "json" /\ msg[r].type = "other"
       THEN "UnsupportedMediaTypeError"
  ELSE IF Middleware(p) = "schema" /\ call[r][p].res # "good"
       THEN "UnprocessableContentError"
  ELSE IF Middleware(p) = "beside" /\ ~IsLast(p) THEN "stopgap"
  ELSE "TypeError"

Relayed(p, out) ==
  IF Middleware(p) = "rescue" /\ out \notin Response THEN "stopgap" ELSE out

Explained(r, p) ==
  \/ Refused(r, p) /\ call[r][p].out = Refusal(r, p)
  \/ /\ ~Refused(r, p)
     /\ call[r][Append(p, 1)].at = "done"
     /\ call[r][p].out = Relayed(p, call[r][Append(p, 1)].out)

RootOK(r) ==
  /\ call[r][Root].res = "null"
  /\ chain = <<>> /\ call[r][Root].at = "done" =>
       call[r][Root].out = "RangeError"

ResultOK(r, p) ==
  /\ call[r][p].at = "done" => call[r][p].out \notin {"empty", BaseError}
  /\ Len(p) < Len(chain) /\ call[r][p].at = "done" => Explained(r, p)
  /\ Len(p) + 1 < Len(chain) /\ call[r][Append(p, 1)].at # "none" =>
       call[r][Append(p, 1)].res = PassedOn(r, p)

ResultInv ==
  Portable =>
    \A r \in Request : Comparable(r) =>
      RootOK(r) /\ \A p \in Path : ResultOK(r, p)

(* Two requests with the same content type and body run alike through a    *)
(* Portable chain: what both have reached has the same res, and what both  *)
(* have settled the same outcome, however their steps interleave.          *)
Alike(r, s) == /\ Comparable(r)
               /\ msg[r].type = msg[s].type
               /\ msg[r].body = msg[s].body

Agree(r, s, p) ==
  /\ call[r][p].at # "none" /\ call[s][p].at # "none" =>
       call[r][p].res = call[s][p].res
  /\ call[r][p].at = "done" /\ call[s][p].at = "done" =>
       call[r][p].out = call[s][p].out

AlikeInv ==
  Portable =>
    \A r, s \in Request : Alike(r, s) => \A p \in Path : Agree(r, s, p)

(* A call that waits has called its next, and is not the last.             *)
ShapeInv ==
  \A r \in Request, p \in Path :
    /\ call[r][p].at \in {"awaiting", "again"} =>
         Len(p) + 1 < Len(chain) /\ ~Refused(r, p)
    /\ call[r][p].at = "again" => Middleware(p) = "twice"

(* The invariant that every step preserves.                                *)
DispatchInv ==
  /\ TypeOK
  /\ ShapeInv
  /\ HandlerInv
  /\ DataInv
  /\ WaitInv
  /\ OnceInv
  /\ ResultInv
  /\ AlikeInv

-----------------------------------------------------------------------------
(* A path is a sequence of ones and twos shorter than the longest chain.   *)
LEMMA PathIsSeq ==
    ASSUME NEW p \in Path
    PROVE  p \in Seq({1, 2}) /\ Len(p) \in 0 .. MaxLength - 1
BY DEF Path

(* The root is a path.                                                     *)
LEMMA RootIsPath == Root \in Path /\ Len(Root) = 0
<1>1. Root \in [1 .. 0 -> {1, 2}]
  BY DEF Root
<1> QED BY <1>1 DEF Path, Root

(* A path that can grow grows to a path.                                   *)
LEMMA AppendIsPath ==
    ASSUME NEW p \in Path, NEW k \in {1, 2}, Len(p) + 1 < MaxLength
    PROVE  /\ Append(p, k) \in Path
           /\ Len(Append(p, k)) = Len(p) + 1
           /\ Append(p, k)[Len(p) + 1] = k
           /\ \A i \in 1 .. Len(p) : Append(p, k)[i] = p[i]
           /\ Append(p, k) # p
           /\ Append(p, k) # Root
<1>1. p \in Seq({1, 2}) /\ Len(p) \in 0 .. MaxLength - 1
  BY PathIsSeq
<1>2. /\ Append(p, k) \in Seq({1, 2})
      /\ Len(Append(p, k)) = Len(p) + 1
      /\ Append(p, k)[Len(p) + 1] = k
      /\ \A i \in 1 .. Len(p) : Append(p, k)[i] = p[i]
  BY <1>1, AppendProperties
<1>3. Append(p, k) \in Path
  <2>1. Append(p, k) \in [1 .. Len(p) + 1 -> {1, 2}]
    BY <1>1, <1>2, LenProperties
  <2> QED BY <1>1, <2>1 DEF Path
<1> QED BY <1>1, <1>2, <1>3 DEF Root

(* Paths of the same length with the same elements are the same.           *)
LEMMA SamePath ==
    ASSUME NEW p \in Path, NEW q \in Path, Len(p) = Len(q),
           \A i \in 1 .. Len(p) : p[i] = q[i]
    PROVE  p = q
<1>1. p \in Seq({1, 2}) /\ q \in Seq({1, 2})
  BY PathIsSeq
<1> QED BY <1>1, SeqEqual

(* A chain is a sequence of behaviours, no longer than the longest.        *)
LEMMA ChainIsSeq ==
    ASSUME chain \in Chains
    PROVE  chain \in Seq(Behaviour) /\ Len(chain) \in 0 .. MaxLength
<1>1. PICK n \in 0 .. MaxLength : chain \in [1 .. n -> Behaviour]
  BY Zenon
<1>2. Len(chain) = n /\ chain \in Seq(Behaviour)
  BY <1>1, SeqDef
<1> QED BY <1>2

-----------------------------------------------------------------------------
(* Only the calls of r at the paths in P change.                           *)
OnlyAt(r, P) ==
  \A s \in Request, q \in Path :
    s # r \/ q \notin P => call'[s][q] = call[s][q]

(* Settling a call changes that call alone, and keeps its res.             *)
LEMMA SettleEffect ==
    ASSUME TypeOK, NEW r \in Request, NEW p \in Path, NEW out \in Outcome,
           Settle(r, p, out)
    PROVE  /\ call' \in [Request -> [Path -> Call]]
           /\ call'[r][p] = [at |-> "done", res |-> call[r][p].res, out |-> out]
           /\ OnlyAt(r, {p})
<1>1. call \in [Request -> [Path -> Call]]
  BY DEF TypeOK, ChainTypeOK
<1> DEFINE c == [call[r] EXCEPT ![p].at = "done", ![p].out = out]
<1>2. call' = [call EXCEPT ![r] = c]
  BY <1>1 DEF Settle, Settled
<1>3. call[r] \in [Path -> Call] /\ call[r][p] \in Call
  BY <1>1
<1>4. /\ c[p] = [at |-> "done", res |-> call[r][p].res, out |-> out]
      /\ c \in [Path -> Call]
      /\ \A q \in Path : q # p => c[q] = call[r][q]
  BY <1>3 DEF Call
<1> HIDE DEF c
<1> QED BY <1>1, <1>2, <1>4 DEF OnlyAt

(* Calling next enters the call below and sets how far the caller is.      *)
Advance(r, p, at, q, data) ==
  call' = [call EXCEPT ![r] = [@ EXCEPT ![p].at = at, ![q] = Entered(data)]]

(* No other call changes.                                                  *)
LEMMA CallEffect ==
    ASSUME TypeOK, NEW r \in Request, NEW p \in Path, NEW q \in Path, p # q,
           NEW data \in Data, NEW at \in {"awaiting", "again"},
           Advance(r, p, at, q, data)
    PROVE  /\ call' \in [Request -> [Path -> Call]]
           /\ call'[r][p] = [at |-> at, res |-> call[r][p].res,
                             out |-> call[r][p].out]
           /\ call'[r][q] = Entered(data)
           /\ OnlyAt(r, {p, q})
<1>1. call \in [Request -> [Path -> Call]]
  BY DEF TypeOK, ChainTypeOK
<1> DEFINE c == [call[r] EXCEPT ![p].at = at, ![q] = Entered(data)]
<1>2. call' = [call EXCEPT ![r] = c]
  BY <1>1 DEF Advance
<1>3. call[r] \in [Path -> Call] /\ call[r][p] \in Call
  BY <1>1
<1>4. Entered(data) \in Call
  BY DEF Entered, Call, Outcome
<1>5. /\ c[p] = [at |-> at, res |-> call[r][p].res, out |-> call[r][p].out]
      /\ c[q] = Entered(data)
      /\ c \in [Path -> Call]
      /\ \A o \in Path : o # p /\ o # q => c[o] = call[r][o]
  BY <1>3, <1>4 DEF Call
<1> HIDE DEF c
<1> QED BY <1>1, <1>2, <1>5 DEF OnlyAt

(* So does calling it without waiting, which settles the caller.           *)
LEMMA BesideEffect ==
    ASSUME TypeOK, NEW r \in Request, NEW p \in Path, NEW q \in Path, p # q,
           NEW data \in Data, NEW out \in Outcome,
           call' = [call EXCEPT ![r] =
                      [Settled(@, p, out) EXCEPT ![q] = Entered(data)]]
    PROVE  /\ call' \in [Request -> [Path -> Call]]
           /\ call'[r][p] = [at |-> "done", res |-> call[r][p].res, out |-> out]
           /\ call'[r][q] = Entered(data)
           /\ OnlyAt(r, {p, q})
<1>1. call \in [Request -> [Path -> Call]]
  BY DEF TypeOK, ChainTypeOK
<1> DEFINE d == [call[r] EXCEPT ![p].at = "done", ![p].out = out]
           c == [d EXCEPT ![q] = Entered(data)]
<1>2. call' = [call EXCEPT ![r] = c]
  BY <1>1 DEF Settled
<1>3. call[r] \in [Path -> Call] /\ call[r][p] \in Call
  BY <1>1
<1>4. Entered(data) \in Call
  BY DEF Entered, Call, Outcome
<1>5. /\ d[p] = [at |-> "done", res |-> call[r][p].res, out |-> out]
      /\ d \in [Path -> Call]
      /\ \A o \in Path : o # p => d[o] = call[r][o]
  BY <1>3 DEF Call
<1>6. /\ c[p] = [at |-> "done", res |-> call[r][p].res, out |-> out]
      /\ c[q] = Entered(data)
      /\ c \in [Path -> Call]
      /\ \A o \in Path : o # p /\ o # q => c[o] = call[r][o]
  <2> HIDE DEF d
  <2> QED BY <1>4, <1>5
<1> HIDE DEF c
<1> QED BY <1>1, <1>2, <1>6 DEF OnlyAt

-----------------------------------------------------------------------------
(* The call at p settles with out: refused or ended by its own middleware, *)
(* for a body that cannot be read, or the way its next settled.            *)
Ends(r, p, out) ==
  LET next == Append(p, IF call[r][p].at = "again" THEN 2 ELSE 1) IN
  /\ call'[r][p] = [at |-> "done", res |-> call[r][p].res, out |-> out]
  /\ OnlyAt(r, {p})
  /\ \/ /\ call[r][p].at = "entered"
        /\ Refused(r, p)
        /\ out = Refusal(r, p)
     \/ /\ call[r][p].at = "entered"
        /\ Middleware(p) = "json" /\ msg[r].type = "json"
        /\ ~Readable(r, Via(r), msg[r].body)
        /\ out = "BadRequestError"
     \/ /\ call[r][p].at \in {"awaiting", "again"}
        /\ next \in Path
        /\ call[r][next].at = "done"
        /\ out = Relayed(p, call[r][next].out)

(* The call at p calls next for the k-th time: for the first time, waiting *)
(* or not, or once more.                                                   *)
Calls(r, p, k) ==
  LET next == Append(p, k) IN
  /\ Len(p) + 1 < Len(chain)
  /\ call'[r][next] = Entered(PassedOn(r, p))
  /\ call'[r][p].res = call[r][p].res
  /\ OnlyAt(r, {p, next})
  /\ Middleware(p) = "schema" => call[r][p].res = "good"
  /\ \/ /\ k = 1
        /\ call[r][p].at = "entered" /\ call'[r][p].at = "awaiting"
        /\ ~Refused(r, p)
     \/ /\ k = 1
        /\ call[r][p].at = "entered" /\ call'[r][p].at = "done"
        /\ call'[r][p].out = Refusal(r, p)
        /\ Middleware(p) \in Unawaited
     \/ /\ k = 2
        /\ call[r][p].at = "awaiting" /\ call'[r][p].at = "again"
        /\ call[r][Append(p, 1)].at = "done"
        /\ Middleware(p) = "twice"

(* What a step of the chain does to the calls and to the body's state.     *)
ChainEffect(r, p) ==
  /\ call' \in [Request -> [Path -> Call]]
  /\ consumed' \in [Request -> BOOLEAN]
  /\ \A s \in Request : consumed'[s] =>
       consumed[s] \/ (s = r /\ Middleware(p) = "json")
  /\ \/ \E out \in Outcome : Ends(r, p, out)
     \/ \E k \in {1, 2} : Calls(r, p, k)

(* The call at p is one of the chain's.                                    *)
LEMMA CallFacts ==
    ASSUME TypeOK, NEW r \in Request, NEW p \in Path, Len(p) < Len(chain)
    PROVE  /\ Len(p) \in Nat /\ Len(chain) \in Nat
           /\ Len(chain) <= MaxLength
           /\ Middleware(p) \in Behaviour
           /\ call[r][p] \in Call
           /\ msg[r] \in Message
           /\ PassedOn(r, p) \in Data
           /\ IsLast(p) \/ Len(p) + 1 < Len(chain)
<1>1. chain \in Seq(Behaviour) /\ Len(chain) \in 0 .. MaxLength
  BY ChainIsSeq DEF TypeOK, ChainTypeOK
<1>2. p \in Seq({1, 2}) /\ Len(p) \in 0 .. MaxLength - 1
  BY PathIsSeq
<1>3. Middleware(p) \in Behaviour
  <2>1. Len(p) + 1 \in 1 .. Len(chain)
    BY <1>1, <1>2
  <2> QED BY <1>1, <2>1, ElementOfSeq DEF Middleware
<1>4. call[r][p] \in Call /\ msg[r] \in Message
  BY DEF TypeOK, ChainTypeOK
<1>5. PassedOn(r, p) \in Data
  BY <1>4 DEF PassedOn, Call, Message, Data
<1> QED BY <1>1, <1>2, <1>3, <1>4, <1>5 DEF IsLast

(* Calling next, with nothing to refuse: the last middleware has none.     *)
LEMMA CallNextEffect ==
    ASSUME TypeOK, NEW r \in Request, NEW p \in Path, Len(p) < Len(chain),
           NEW k \in {1, 2}, NEW at \in {"awaiting", "again"},
           CallNext(r, p, k, PassedOn(r, p), at)
    PROVE  /\ call' \in [Request -> [Path -> Call]]
           /\ \/ /\ IsLast(p)
                 /\ call'[r][p] = [at |-> "done", res |-> call[r][p].res,
                                   out |-> "TypeError"]
                 /\ OnlyAt(r, {p})
              \/ /\ ~IsLast(p) /\ Len(p) + 1 < Len(chain)
                 /\ call'[r][p] = [at |-> at, res |-> call[r][p].res,
                                   out |-> call[r][p].out]
                 /\ call'[r][Append(p, k)] = Entered(PassedOn(r, p))
                 /\ OnlyAt(r, {p, Append(p, k)})
<1>1. /\ Len(p) \in Nat /\ Len(chain) \in Nat
      /\ Len(chain) <= MaxLength
      /\ PassedOn(r, p) \in Data
      /\ IsLast(p) \/ Len(p) + 1 < Len(chain)
  BY CallFacts
<1>2. CASE IsLast(p)
  <2>1. Settle(r, p, "TypeError")
    BY <1>2 DEF CallNext
  <2>2. "TypeError" \in Outcome
    BY DEF Outcome, ErrorClass, GenericErrors
  <2>3. /\ call' \in [Request -> [Path -> Call]]
        /\ call'[r][p] = [at |-> "done", res |-> call[r][p].res,
                          out |-> "TypeError"]
        /\ OnlyAt(r, {p})
    BY <2>1, <2>2, SettleEffect
  <2> QED BY <1>2, <2>3
<1>3. CASE ~IsLast(p)
  <2>1. Len(p) + 1 < MaxLength
    BY <1>1, <1>3
  <2>2. Append(p, k) \in Path /\ Append(p, k) # p
    BY <2>1, AppendIsPath
  <2>3. Advance(r, p, at, Append(p, k), PassedOn(r, p))
    BY <1>3 DEF CallNext, Advance
  <2>4. /\ call' \in [Request -> [Path -> Call]]
        /\ call'[r][p] = [at |-> at, res |-> call[r][p].res,
                          out |-> call[r][p].out]
        /\ call'[r][Append(p, k)] = Entered(PassedOn(r, p))
        /\ OnlyAt(r, {p, Append(p, k)})
    BY <1>1, <2>2, <2>3, CallEffect
  <2> QED BY <1>1, <1>3, <2>4
<1> QED BY <1>2, <1>3

(* Every step of a chain, of the package or of the application, has the    *)
(* effect named above, and no other.                                       *)
LEMMA ChainStepEffect ==
    ASSUME TypeOK, ShapeInv, NEW r \in Request, NEW p \in Path, ChainStep(r, p)
    PROVE  /\ Len(p) < Len(chain)
           /\ ChainEffect(r, p)
           /\ UNCHANGED <<chain, msg, phase, sent, current>>
<1>1. /\ Len(p) < Len(chain)
      /\ UNCHANGED <<msg, phase, sent, current>>
  BY DEF ChainStep
<1>2. /\ Len(p) \in Nat /\ Len(chain) \in Nat
      /\ Len(chain) <= MaxLength
      /\ Middleware(p) \in Behaviour
      /\ call[r][p] \in Call
      /\ msg[r] \in Message
      /\ PassedOn(r, p) \in Data
      /\ IsLast(p) \/ Len(p) + 1 < Len(chain)
  BY <1>1, CallFacts
<1>3. consumed \in [Request -> BOOLEAN]
  BY DEF TypeOK, ChainTypeOK
<1> DEFINE Kept == UNCHANGED <<chain, consumed>>
<1>4. ASSUME Kept PROVE /\ consumed' \in [Request -> BOOLEAN]
                        /\ \A s \in Request : consumed'[s] =>
                             consumed[s] \/ (s = r /\ Middleware(p) = "json")
                        /\ UNCHANGED chain
  BY <1>3, <1>4
<1>5. ASSUME call[r][p].at = "entered",
             Middleware(p) \in Forwarding \ Unawaited,
             Middleware(p) = "json" => msg[r].type # "other",
             Middleware(p) = "schema" => call[r][p].res = "good",
             CallNext(r, p, 1, PassedOn(r, p), "awaiting")
      PROVE  /\ call' \in [Request -> [Path -> Call]]
             /\ \/ \E out \in Outcome : Ends(r, p, out)
                \/ \E k \in {1, 2} : Calls(r, p, k)
  <2>1. CASE IsLast(p)
    <3>1. /\ call' \in [Request -> [Path -> Call]]
          /\ call'[r][p] = [at |-> "done", res |-> call[r][p].res,
                            out |-> "TypeError"]
          /\ OnlyAt(r, {p})
      BY <1>1, <1>5, <2>1, CallNextEffect
    <3>2. Refused(r, p)
      BY <2>1 DEF Refused
    <3>3. Refusal(r, p) = "TypeError"
      <4>1. Middleware(p) \notin Response \cup ErrorClass
        BY <1>5 DEF Forwarding, Unawaited, Response, Responses, ErrorClass,
                    StatusErrors, ClientErrors, ServerErrors, GenericErrors,
                    BaseError
      <4> QED BY <1>5, <2>1, <4>1 DEF Refusal, Unawaited
    <3>4. "TypeError" \in Outcome
      BY DEF Outcome, ErrorClass, GenericErrors
    <3>5. Ends(r, p, "TypeError")
      BY <1>5, <3>1, <3>2, <3>3 DEF Ends
    <3> QED BY <3>1, <3>4, <3>5
  <2>2. CASE ~IsLast(p)
    <3>1. /\ call' \in [Request -> [Path -> Call]]
          /\ call'[r][p] = [at |-> "awaiting", res |-> call[r][p].res,
                            out |-> call[r][p].out]
          /\ call'[r][Append(p, 1)] = Entered(PassedOn(r, p))
          /\ OnlyAt(r, {p, Append(p, 1)})
      BY <1>1, <1>5, <2>2, CallNextEffect
    <3>2. ~Refused(r, p)
      BY <1>5, <2>2 DEF Refused
    <3>3. Calls(r, p, 1)
      BY <1>2, <1>5, <2>2, <3>1, <3>2 DEF Calls
    <3> QED BY <3>1, <3>3
  <2> QED BY <2>1, <2>2
<1>6. ASSUME call[r][p].at = "entered", Refused(r, p),
             Refusal(r, p) \in Outcome, Settle(r, p, Refusal(r, p))
      PROVE  /\ call' \in [Request -> [Path -> Call]]
             /\ \E out \in Outcome : Ends(r, p, out)
  <2>1. /\ call' \in [Request -> [Path -> Call]]
        /\ call'[r][p] = [at |-> "done", res |-> call[r][p].res,
                          out |-> Refusal(r, p)]
        /\ OnlyAt(r, {p})
    BY <1>6, SettleEffect
  <2>2. Ends(r, p, Refusal(r, p))
    BY <1>6, <2>1 DEF Ends
  <2> QED BY <1>6, <2>1, <2>2
<1>7. CASE Forward(r, p)
  <2>1. /\ call[r][p].at = "entered"
        /\ Middleware(p) \in {"pass", "twice", "rescue"}
        /\ CallNext(r, p, 1, call[r][p].res, "awaiting")
        /\ Kept
    BY <1>7 DEF Forward, Running
  <2>2. /\ Middleware(p) \in Forwarding \ Unawaited
        /\ Middleware(p) # "json" /\ Middleware(p) # "schema"
    BY <2>1 DEF Forwarding, Unawaited
  <2>3. PassedOn(r, p) = call[r][p].res
    BY <2>2 DEF PassedOn
  <2> QED BY <1>1, <1>4, <1>5, <2>1, <2>2, <2>3 DEF ChainEffect
<1>8. CASE ForwardBeside(r, p)
  <2>1. /\ call[r][p].at = "entered"
        /\ Middleware(p) \in {"beside", "forget"}
        /\ Kept
    BY <1>8 DEF ForwardBeside, Running, Unawaited
  <2>2. /\ PassedOn(r, p) = call[r][p].res
        /\ Middleware(p) # "schema"
    BY <2>1 DEF PassedOn
  <2>3. Middleware(p) \notin Response \cup ErrorClass
    BY <2>1 DEF Response, Responses, ErrorClass, StatusErrors, ClientErrors,
                ServerErrors, GenericErrors, BaseError
  <2>4. Refusal(r, p) = IF Middleware(p) = "beside" /\ ~IsLast(p)
                        THEN "stopgap" ELSE "TypeError"
    BY <2>1, <2>3 DEF Refusal
  <2>5. Refused(r, p)
    BY <2>1 DEF Refused, Unawaited
  <2>6. Refusal(r, p) \in Outcome
    BY <2>4 DEF Outcome, Response, Responses, ErrorClass, GenericErrors
  <2>7. CASE IsLast(p)
    <3>1. Settle(r, p, Refusal(r, p))
      BY <1>8, <2>4, <2>7 DEF ForwardBeside
    <3> QED BY <1>1, <1>4, <1>6, <2>1, <2>5, <2>6, <3>1 DEF ChainEffect
  <2>8. CASE ~IsLast(p)
    <3>1. Len(p) + 1 < MaxLength
      BY <1>2, <2>8
    <3>2. Append(p, 1) \in Path /\ Append(p, 1) # p
      BY <3>1, AppendIsPath
    <3>3. call' = [call EXCEPT ![r] =
                     [Settled(@, p, Refusal(r, p))
                        EXCEPT ![Append(p, 1)] = Entered(PassedOn(r, p))]]
      BY <1>8, <2>2, <2>4, <2>8 DEF ForwardBeside
    <3>4. /\ call' \in [Request -> [Path -> Call]]
          /\ call'[r][p] = [at |-> "done", res |-> call[r][p].res,
                            out |-> Refusal(r, p)]
          /\ call'[r][Append(p, 1)] = Entered(PassedOn(r, p))
          /\ OnlyAt(r, {p, Append(p, 1)})
      BY <1>2, <2>6, <3>2, <3>3, BesideEffect
    <3>5. Calls(r, p, 1)
      BY <1>2, <2>1, <2>2, <2>8, <3>4 DEF Calls, Unawaited
    <3> QED BY <1>1, <1>4, <2>1, <3>4, <3>5 DEF ChainEffect
  <2> QED BY <2>7, <2>8
<1>9. CASE ParseJsonBody(r, p, Via(r), msg[r].type, msg[r].body)
  <2>1. /\ call[r][p].at = "entered"
        /\ Middleware(p) = "json"
        /\ UNCHANGED chain
    BY <1>9 DEF ParseJsonBody, Running
  <2>2. /\ Middleware(p) \in Forwarding \ Unawaited
        /\ Middleware(p) # "schema"
        /\ Middleware(p) \notin Response \cup ErrorClass
    BY <2>1 DEF Forwarding, Unawaited, Response, Responses, ErrorClass,
                StatusErrors, ClientErrors, ServerErrors, GenericErrors,
                BaseError
  <2>3. /\ consumed' \in [Request -> BOOLEAN]
        /\ \A s \in Request : consumed'[s] =>
             consumed[s] \/ (s = r /\ Middleware(p) = "json")
    BY <1>3, <1>9, <2>1 DEF ParseJsonBody
  <2>4. CASE msg[r].type = "other"
    <3>1. Refused(r, p) /\ Refusal(r, p) = "UnsupportedMediaTypeError"
      BY <2>1, <2>2, <2>4 DEF Refused, Refusal
    <3>2. "UnsupportedMediaTypeError" \in Outcome
      BY DEF Outcome, ErrorClass, StatusErrors, ClientErrors
    <3>3. Settle(r, p, "UnsupportedMediaTypeError")
      BY <1>9, <2>4 DEF ParseJsonBody
    <3> QED BY <1>1, <1>6, <2>1, <2>3, <3>1, <3>2, <3>3 DEF ChainEffect
  <2>5. CASE msg[r].type = "json" /\ ~Readable(r, Via(r), msg[r].body)
    <3>1. "BadRequestError" \in Outcome
      BY DEF Outcome, ErrorClass, StatusErrors, ClientErrors
    <3>2. Settle(r, p, "BadRequestError")
      BY <1>9, <2>5 DEF ParseJsonBody
    <3>3. /\ call' \in [Request -> [Path -> Call]]
          /\ call'[r][p] = [at |-> "done", res |-> call[r][p].res,
                            out |-> "BadRequestError"]
          /\ OnlyAt(r, {p})
      BY <3>1, <3>2, SettleEffect
    <3>4. Ends(r, p, "BadRequestError")
      BY <2>1, <2>5, <3>3 DEF Ends
    <3> QED BY <1>1, <2>1, <2>3, <3>1, <3>3, <3>4 DEF ChainEffect
  <2>6. CASE msg[r].type = "none" \/
             (msg[r].type = "json" /\ Readable(r, Via(r), msg[r].body))
    <3>1. CallNext(r, p, 1, PassedOn(r, p), "awaiting")
      BY <1>9, <2>1, <2>6 DEF ParseJsonBody, PassedOn
    <3>2. msg[r].type # "other"
      BY <2>6
    <3> QED BY <1>1, <1>5, <2>1, <2>2, <2>3, <3>1, <3>2 DEF ChainEffect
  <2>7. msg[r].type \in {"none", "json", "other"}
    BY <1>2 DEF Message, ContentType
  <2> QED BY <2>4, <2>5, <2>6, <2>7
<1>10. CASE ValidateSchemas(r, p)
  <2>1. /\ call[r][p].at = "entered"
        /\ Middleware(p) = "schema"
        /\ Kept
    BY <1>10 DEF ValidateSchemas, Running
  <2>2. /\ Middleware(p) \in Forwarding \ Unawaited
        /\ Middleware(p) # "json"
        /\ Middleware(p) \notin Response \cup ErrorClass
    BY <2>1 DEF Forwarding, Unawaited, Response, Responses, ErrorClass,
                StatusErrors, ClientErrors, ServerErrors, GenericErrors,
                BaseError
  <2>3. CASE call[r][p].res = "good"
    <3>1. CallNext(r, p, 1, PassedOn(r, p), "awaiting")
      BY <1>10, <2>2, <2>3 DEF ValidateSchemas, PassedOn
    <3> QED BY <1>1, <1>4, <1>5, <2>1, <2>2, <2>3, <3>1 DEF ChainEffect
  <2>4. CASE call[r][p].res # "good"
    <3>1. Refused(r, p) /\ Refusal(r, p) = "UnprocessableContentError"
      BY <2>1, <2>2, <2>4 DEF Refused, Refusal
    <3>2. "UnprocessableContentError" \in Outcome
      BY DEF Outcome, ErrorClass, StatusErrors, ClientErrors
    <3>3. Settle(r, p, "UnprocessableContentError")
      BY <1>10, <2>4 DEF ValidateSchemas
    <3> QED BY <1>1, <1>4, <1>6, <2>1, <3>1, <3>2, <3>3 DEF ChainEffect
  <2> QED BY <2>3, <2>4
<1>11. CASE EndChain(r, p)
  <2>1. /\ call[r][p].at = "entered"
        /\ Middleware(p) \in Behaviour \ Forwarding
        /\ Kept
    BY <1>11 DEF EndChain, Running
  <2>2. Refused(r, p)
    BY <2>1 DEF Refused
  <2>3. Refusal(r, p) = IF Middleware(p) = "other" THEN "TypeError"
                                                   ELSE Middleware(p)
    <3>1. CASE Middleware(p) = "other"
      <4>1. "other" \notin Response \cup ErrorClass
        BY DEF Response, Responses, ErrorClass, StatusErrors, ClientErrors,
               ServerErrors, GenericErrors, BaseError
      <4> QED BY <3>1, <4>1 DEF Refusal
    <3>2. CASE Middleware(p) # "other"
      <4>1. Middleware(p) \in Response \cup ErrorClass
        BY <2>1, <3>2 DEF Behaviour
      <4> QED BY <3>2, <4>1 DEF Refusal
    <3> QED BY <3>1, <3>2
  <2>4. Refusal(r, p) \in Outcome
    <3>1. "TypeError" \in Outcome
      BY DEF Outcome, ErrorClass, GenericErrors
    <3>2. Middleware(p) # "other" => Middleware(p) \in Outcome
      BY <2>1 DEF Behaviour, Outcome
    <3> QED BY <2>3, <3>1, <3>2
  <2>5. Settle(r, p, Refusal(r, p))
    BY <1>11, <2>3 DEF EndChain
  <2> QED BY <1>1, <1>4, <1>6, <2>1, <2>2, <2>4, <2>5 DEF ChainEffect
<1>12. CASE Return(r, p)
  <2> DEFINE next == Append(p, IF call[r][p].at = "again" THEN 2 ELSE 1)
             out == call[r][next].out
  <2>1. /\ call[r][p].at \in {"awaiting", "again"}
        /\ call[r][next].at = "done"
        /\ Kept
    BY <1>12 DEF Return
  <2>2. Len(p) + 1 < Len(chain) /\ ~Refused(r, p)
    BY <2>1 DEF ShapeInv
  <2>3. Len(p) + 1 < MaxLength
    BY <1>2, <2>2
  <2>4. next \in Path
    BY <2>3, AppendIsPath
  <2>5. call[r][next] \in Call
    BY <2>4 DEF TypeOK, ChainTypeOK
  <2>6. out \in Outcome
    BY <2>5 DEF Call
  <2>7. CASE /\ Middleware(p) = "twice"
             /\ call[r][p].at = "awaiting"
             /\ CallNext(r, p, 2, call[r][p].res, "again")
    <3>1. PassedOn(r, p) = call[r][p].res
      BY <2>7 DEF PassedOn
    <3>2. ~IsLast(p)
      BY <1>2, <2>2 DEF IsLast
    <3>3. /\ call' \in [Request -> [Path -> Call]]
          /\ call'[r][p] = [at |-> "again", res |-> call[r][p].res,
                            out |-> call[r][p].out]
          /\ call'[r][Append(p, 2)] = Entered(PassedOn(r, p))
          /\ OnlyAt(r, {p, Append(p, 2)})
      BY <1>1, <2>7, <3>1, <3>2, CallNextEffect
    <3>4. Calls(r, p, 2)
      BY <2>1, <2>2, <2>7, <3>3 DEF Calls
    <3> QED BY <1>1, <1>4, <2>1, <3>3, <3>4 DEF ChainEffect
  <2>8. ASSUME Settle(r, p, Relayed(p, out)), Relayed(p, out) \in Outcome
        PROVE  ChainEffect(r, p)
    <3>1. /\ call' \in [Request -> [Path -> Call]]
          /\ call'[r][p] = [at |-> "done", res |-> call[r][p].res,
                            out |-> Relayed(p, out)]
          /\ OnlyAt(r, {p})
      BY <2>8, SettleEffect
    <3>2. Ends(r, p, Relayed(p, out))
      BY <2>1, <2>4, <3>1 DEF Ends
    <3> QED BY <1>4, <2>1, <2>8, <3>1, <3>2 DEF ChainEffect
  <2>9. CASE /\ Middleware(p) = "rescue"
             /\ out \notin Response
             /\ Settle(r, p, "stopgap")
    <3>1. Relayed(p, out) = "stopgap"
      BY <2>9 DEF Relayed
    <3>2. "stopgap" \in Outcome
      BY DEF Outcome, Response, Responses
    <3> QED BY <1>1, <1>4, <2>1, <2>8, <2>9, <3>1, <3>2
  <2>10. CASE /\ Middleware(p) = "rescue" => out \in Response
              /\ Settle(r, p, out)
    <3>1. Relayed(p, out) = out
      BY <2>10 DEF Relayed
    <3> QED BY <1>1, <1>4, <2>1, <2>6, <2>8, <2>10, <3>1
  <2> QED BY <1>12, <2>7, <2>9, <2>10 DEF Return
<1> QED
  BY <1>7, <1>8, <1>9, <1>10, <1>11, <1>12 DEF ChainStep, PackageStep, AppStep

-----------------------------------------------------------------------------
(* The errors the package throws by name have the statuses of errors.ts,   *)
(* and the base class is none of them.                                     *)
LEMMA NamedErrors ==
    /\ ErrorStatus["NotFoundError"] = 404
    /\ ErrorStatus["MethodNotAllowedError"] = 405
    /\ {"NotFoundError", "MethodNotAllowedError", "UnprocessableContentError",
        "InternalServerError"} \subseteq StatusErrors
    /\ BaseError \notin StatusErrors
    /\ "SyntaxError" \notin StatusErrors \cup {BaseError}
    /\ "TypeError" \notin StatusErrors \cup {BaseError}
BY DEF ErrorStatus, StatusErrors, ClientErrors, ServerErrors, BaseError

(* Whatever an error is, what it is answered as has a status, unless it is *)
(* of the base class.                                                      *)
LEMMA NormalizedHasStatus ==
    ASSUME NEW e
    PROVE  /\ Normalized(e) = BaseError <=> e = BaseError
           /\ e # BaseError => ErrorStatus[Normalized(e)] \in Status
<1>1. Normalized(e) = BaseError <=> e = BaseError
  BY NamedErrors DEF Normalized
<1>2. e # BaseError => Normalized(e) \in StatusErrors
  BY NamedErrors DEF Normalized
<1> QED BY <1>1, <1>2 DEF Status

(* The requests other than r keep what arrived and what was written.       *)
OthersKept(r) ==
  \A s \in Request \ {r} :
    msg'[s] = msg[s] /\ phase'[s] = phase[s] /\ sent'[s] = sent[s]

(* r is answered with a status, without one, or left open.                 *)
Writes(r, status) ==
  /\ phase'[r] = "answered"
  /\ sent'[r] = Append(sent[r], [status |-> status, to |-> msg'[r].on])

Keeps(r, ph) == phase'[r] = ph /\ sent'[r] = sent[r]

(* What a message does when it arrives, with a route and without, and what *)
(* a handler does whose chain has settled.                                 *)
Accepts(r) ==
  /\ phase[r] = "idle"
  /\ msg'[r].kind = "route"
  /\ msg'[r].on # Http => msg'[r].body # "bad"
  /\ Keeps(r, "chain")
  /\ call'[r][Root] = IF chain = <<>>
                      THEN [at |-> "done", res |-> "null", out |-> "RangeError"]
                      ELSE Entered("null")
  /\ OnlyAt(r, {Root})
  /\ UNCHANGED <<chain, consumed>>

Dismisses(r) ==
  /\ phase[r] = "idle"
  /\ msg'[r].kind # "route"
  /\ msg'[r].on # Http => msg'[r].body # "bad"
  /\ \/ Keeps(r, "ignored")
     \/ Keeps(r, "rejected") /\ msg'[r].kind = "null"
     \/ \E status \in Status :
          /\ Writes(r, status)
          /\ msg'[r].kind = "noRoute" => status = 404
          /\ msg'[r].kind = "noMethod" => status = 405
  /\ UNCHANGED <<chain, call, consumed>>

Concludes(r) ==
  LET out == call[r][Root].out IN
  /\ phase[r] = "chain"
  /\ call[r][Root].at = "done"
  /\ \/ Keeps(r, "rejected") /\ out = BaseError
     \/ /\ Writes(r, AnswerStatus(out, msg[r].on))
        /\ AnswerStatus(out, msg[r].on) \in Status
  /\ UNCHANGED <<chain, call, consumed, msg>>

(* Types of what the handlers write.                                       *)
HandlerTypeOK ==
  /\ msg \in [Request -> Message]
  /\ phase \in [Request -> Phase]
  /\ sent \in [Request -> Seq(Answer)]

(* Setting the phase of r alone.                                           *)
LEMMA PhaseEffect ==
    ASSUME TypeOK, NEW r \in Request, NEW ph \in Phase,
           phase' = [phase EXCEPT ![r] = ph], sent' = sent
    PROVE  /\ phase' \in [Request -> Phase] /\ sent' \in [Request -> Seq(Answer)]
           /\ Keeps(r, ph)
           /\ \A s \in Request \ {r} : phase'[s] = phase[s] /\ sent'[s] = sent[s]
BY DEF TypeOK, Keeps

(* Writing an answer for r alone.                                          *)
LEMMA WriteEffect ==
    ASSUME TypeOK, NEW r \in Request, NEW status \in Status,
           NEW on \in Connection \cup {Http}, msg'[r].on = on,
           Write(r, status, on)
    PROVE  /\ phase' \in [Request -> Phase] /\ sent' \in [Request -> Seq(Answer)]
           /\ Writes(r, status)
           /\ \A s \in Request \ {r} : phase'[s] = phase[s] /\ sent'[s] = sent[s]
<1>1. phase \in [Request -> Phase] /\ sent \in [Request -> Seq(Answer)]
  BY DEF TypeOK
<1> DEFINE answer == [status |-> status, to |-> on]
<1>2. answer \in Answer
  BY DEF Answer
<1>3. sent' = [sent EXCEPT ![r] = Append(@, answer)]
  BY DEF Write
<1>4. phase' = [phase EXCEPT ![r] = "answered"] /\ "answered" \in Phase
  BY DEF Write, Phase
<1>5. sent[r] \in Seq(Answer)
  BY <1>1
<1> HIDE DEF answer
<1>6. Append(sent[r], answer) \in Seq(Answer)
  BY <1>2, <1>5, AppendProperties
<1>7. /\ sent' \in [Request -> Seq(Answer)]
      /\ sent'[r] = Append(sent[r], answer)
      /\ \A s \in Request \ {r} : sent'[s] = sent[s]
  BY <1>1, <1>3, <1>6
<1> QED BY <1>1, <1>4, <1>7 DEF Writes, answer

(* Answering an error writes its status, or rejects it.                    *)
LEMMA ErrorEffect ==
    ASSUME TypeOK, NEW r \in Request, NEW e,
           NEW on \in Connection \cup {Http}, msg'[r].on = on,
           AnswerError(r, e, on)
    PROVE  /\ phase' \in [Request -> Phase] /\ sent' \in [Request -> Seq(Answer)]
           /\ \/ e = BaseError /\ Keeps(r, "rejected")
              \/ /\ e # BaseError
                 /\ ErrorStatus[Normalized(e)] \in Status
                 /\ Writes(r, ErrorStatus[Normalized(e)])
           /\ \A s \in Request \ {r} : phase'[s] = phase[s] /\ sent'[s] = sent[s]
<1>1. CASE e = BaseError
  <2>1. Normalized(e) = BaseError
    BY <1>1, NormalizedHasStatus
  <2>2. phase' = [phase EXCEPT ![r] = "rejected"] /\ sent' = sent
    BY <2>1 DEF AnswerError
  <2>3. "rejected" \in Phase
    BY DEF Phase
  <2> QED BY <1>1, <2>2, <2>3, PhaseEffect
<1>2. CASE e # BaseError
  <2>1. Normalized(e) # BaseError /\ ErrorStatus[Normalized(e)] \in Status
    BY <1>2, NormalizedHasStatus
  <2>2. Write(r, ErrorStatus[Normalized(e)], on)
    BY <2>1 DEF AnswerError
  <2> QED BY <1>2, <2>1, <2>2, WriteEffect
<1> QED BY <1>1, <1>2

(* A message arrives for r alone.                                          *)
LEMMA ArrivesEffect ==
    ASSUME TypeOK, NEW r \in Request, NEW kind \in MessageKind,
           NEW on \in Connection \cup {Http}, NEW type \in ContentType,
           NEW body \in Body, Arrives(r, kind, on, type, body)
    PROVE  /\ phase[r] = "idle"
           /\ msg' \in [Request -> Message]
           /\ msg'[r] = [kind |-> kind, on |-> on, type |-> type, body |-> body]
           /\ \A s \in Request \ {r} : msg'[s] = msg[s]
           /\ UNCHANGED <<chain, consumed, current>>
<1> DEFINE m == [kind |-> kind, on |-> on, type |-> type, body |-> body]
<1>1. m \in Message
  BY DEF Message
<1>2. msg \in [Request -> Message] /\ msg' = [msg EXCEPT ![r] = m]
  BY DEF TypeOK, Arrives
<1> HIDE DEF m
<1>3. /\ msg' \in [Request -> Message]
      /\ msg'[r] = m
      /\ \A s \in Request \ {r} : msg'[s] = msg[s]
  BY <1>1, <1>2
<1> QED BY <1>3 DEF Arrives, m

(* A chain starts at its root; an empty one fails there.                   *)
LEMMA StartEffect ==
    ASSUME TypeOK, NEW r \in Request, StartChain(r)
    PROVE  /\ call' \in [Request -> [Path -> Call]]
           /\ call'[r][Root] =
                IF chain = <<>>
                THEN [at |-> "done", res |-> "null", out |-> "RangeError"]
                ELSE Entered("null")
           /\ OnlyAt(r, {Root})
<1> DEFINE c == IF chain = <<>>
                THEN [at |-> "done", res |-> "null", out |-> "RangeError"]
                ELSE Entered("null")
<1>1. call \in [Request -> [Path -> Call]]
  BY DEF TypeOK, ChainTypeOK
<1>2. c \in Call
  BY DEF Call, Entered, Data, Outcome, ErrorClass, GenericErrors
<1>3. [NoCall EXCEPT !.at = "done", !.out = "RangeError"]
        = [at |-> "done", res |-> "null", out |-> "RangeError"]
  <2>1. [NoCall EXCEPT !.at = "done"]
          = [at |-> "done", res |-> "null", out |-> "none"]
    BY DEF NoCall
  <2>2. [[NoCall EXCEPT !.at = "done"] EXCEPT !.out = "RangeError"]
          = [at |-> "done", res |-> "null", out |-> "RangeError"]
    <3>1. [[at |-> "done", res |-> "null", out |-> "none"]
             EXCEPT !.out = "RangeError"]
            = [at |-> "done", res |-> "null", out |-> "RangeError"]
      OBVIOUS
    <3> QED BY Zenon, <2>1, <3>1
  <2>3. [NoCall EXCEPT !.at = "done", !.out = "RangeError"]
          = [[NoCall EXCEPT !.at = "done"] EXCEPT !.out = "RangeError"]
    OBVIOUS
  <2> QED BY <2>2, <2>3
<1>4. call' = [call EXCEPT ![r] = [@ EXCEPT ![Root] = c]]
  BY <1>3 DEF StartChain
<1>5. Root \in Path /\ call[r] \in [Path -> Call]
  BY <1>1, RootIsPath
<1> HIDE DEF c
<1> DEFINE d == [call[r] EXCEPT ![Root] = c]
<1>6. /\ d \in [Path -> Call]
      /\ d[Root] = c
      /\ \A q \in Path : q # Root => d[q] = call[r][q]
  BY <1>2, <1>5
<1>7. call' = [call EXCEPT ![r] = d]
  BY <1>4
<1> HIDE DEF d
<1> QED BY <1>1, <1>6, <1>7 DEF OnlyAt, c

(* Every action of r's handler is one of the three.                        *)
HandlerStep(r) == HttpRequest(r) \/ SocketRequest(r) \/ Unrouted(r)
                  \/ OtherMessage(r) \/ Finish(r)

(* Its step changes r alone, and is of one of the three kinds.             *)
LEMMA HandlerStepEffect ==
    ASSUME TypeOK, NEW r \in Request, HandlerStep(r)
    PROVE  /\ HandlerTypeOK' /\ call' \in [Request -> [Path -> Call]]
           /\ OthersKept(r)
           /\ Accepts(r) \/ Dismisses(r) \/ Concludes(r)
           /\ UNCHANGED <<chain, consumed, current>>
<1>1. /\ call \in [Request -> [Path -> Call]]
      /\ msg \in [Request -> Message]
      /\ current \in Connection
  BY DEF TypeOK, ChainTypeOK
<1>2. ASSUME NEW on \in Connection \cup {Http}, NEW type \in ContentType,
             NEW body \in Body, on # Http => body # "bad",
             Arrives(r, "route", on, type, body), Begin(r)
      PROVE  /\ HandlerTypeOK' /\ call' \in [Request -> [Path -> Call]]
             /\ OthersKept(r)
             /\ Accepts(r)
             /\ UNCHANGED <<chain, consumed, current>>
  <2>1. /\ phase[r] = "idle"
        /\ msg' \in [Request -> Message]
        /\ msg'[r] = [kind |-> "route", on |-> on, type |-> type, body |-> body]
        /\ \A s \in Request \ {r} : msg'[s] = msg[s]
        /\ UNCHANGED <<chain, consumed, current>>
    <3>1. "route" \in MessageKind
      BY DEF MessageKind, RequestKind
    <3> QED BY <1>2, <3>1, ArrivesEffect
  <2>2. /\ phase' \in [Request -> Phase] /\ sent' \in [Request -> Seq(Answer)]
        /\ Keeps(r, "chain")
        /\ \A s \in Request \ {r} : phase'[s] = phase[s] /\ sent'[s] = sent[s]
    <3>1. "chain" \in Phase
      BY DEF Phase
    <3>2. phase' = [phase EXCEPT ![r] = "chain"] /\ sent' = sent
      BY <1>2 DEF Begin
    <3> QED BY <3>1, <3>2, PhaseEffect
  <2>3. /\ call' \in [Request -> [Path -> Call]]
        /\ call'[r][Root] =
                IF chain = <<>>
                THEN [at |-> "done", res |-> "null", out |-> "RangeError"]
                ELSE Entered("null")
        /\ OnlyAt(r, {Root})
    BY <1>2, StartEffect DEF Begin
  <2>4. Accepts(r)
    BY <1>2, <2>1, <2>2, <2>3 DEF Accepts
  <2> QED BY <2>1, <2>2, <2>3, <2>4 DEF HandlerTypeOK, OthersKept
<1>3. ASSUME NEW kind \in MessageKind, kind # "route",
             NEW on \in Connection \cup {Http},
             Arrives(r, kind, on, "none", "none"), UNCHANGED call,
             phase' \in [Request -> Phase], sent' \in [Request -> Seq(Answer)],
             \A s \in Request \ {r} : phase'[s] = phase[s] /\ sent'[s] = sent[s],
             \/ Keeps(r, "ignored")
             \/ Keeps(r, "rejected") /\ kind = "null"
             \/ \E status \in Status :
                  /\ Writes(r, status)
                  /\ kind = "noRoute" => status = 404
                  /\ kind = "noMethod" => status = 405
      PROVE  /\ HandlerTypeOK' /\ call' \in [Request -> [Path -> Call]]
             /\ OthersKept(r)
             /\ Dismisses(r)
             /\ UNCHANGED <<chain, consumed, current>>
  <2>1. /\ phase[r] = "idle"
        /\ msg' \in [Request -> Message]
        /\ msg'[r] = [kind |-> kind, on |-> on, type |-> "none", body |-> "none"]
        /\ \A s \in Request \ {r} : msg'[s] = msg[s]
        /\ UNCHANGED <<chain, consumed, current>>
    <3>1. "none" \in ContentType /\ "none" \in Body
      BY DEF ContentType, Body
    <3> QED BY <1>3, <3>1, ArrivesEffect
  <2>2. Dismisses(r)
    BY <1>3, <2>1 DEF Dismisses
  <2> QED BY <1>1, <1>3, <2>1, <2>2 DEF HandlerTypeOK, OthersKept
<1>4. ASSUME NEW kind \in MessageKind, kind # "route", kind # "null",
             NEW on \in Connection \cup {Http}, NEW e, e # BaseError,
             Arrives(r, kind, on, "none", "none"), AnswerError(r, e, on),
             UNCHANGED call,
             kind = "noRoute" => ErrorStatus[Normalized(e)] = 404,
             kind = "noMethod" => ErrorStatus[Normalized(e)] = 405
      PROVE  /\ HandlerTypeOK' /\ call' \in [Request -> [Path -> Call]]
             /\ OthersKept(r)
             /\ Dismisses(r)
             /\ UNCHANGED <<chain, consumed, current>>
  <2>1. msg'[r].on = on
    BY <1>1, <1>4 DEF Arrives
  <2>2. AnswerError(r, e, on) /\ e # BaseError
    BY <1>4
  <2>3. /\ phase' \in [Request -> Phase] /\ sent' \in [Request -> Seq(Answer)]
        /\ ErrorStatus[Normalized(e)] \in Status
        /\ Writes(r, ErrorStatus[Normalized(e)])
        /\ \A s \in Request \ {r} : phase'[s] = phase[s] /\ sent'[s] = sent[s]
    BY <2>1, <2>2, ErrorEffect
  <2> QED BY <1>3, <1>4, <2>3
<1>5. CASE HttpRequest(r)
  <2>1. PICK type \in ContentType, body \in Body :
          Arrives(r, "route", Http, type, body) /\ Begin(r)
    BY <1>5 DEF HttpRequest
  <2> QED BY <1>2, <2>1
<1>6. CASE SocketRequest(r)
  <2>1. PICK type \in ContentType, body \in Body \ {"bad"} :
          Arrives(r, "route", current, type, body) /\ Begin(r)
    BY <1>6 DEF SocketRequest
  <2> QED BY <1>1, <1>2, <2>1
<1>7. CASE Unrouted(r)
  <2>1. PICK kind \in {"noRoute", "noMethod"}, on \in {Http, current} :
          /\ Arrives(r, kind, on, "none", "none")
          /\ AnswerError(r, IF kind = "noRoute" THEN "NotFoundError"
                                          ELSE "MethodNotAllowedError", on)
          /\ UNCHANGED call
    BY <1>7 DEF Unrouted
  <2>2. kind \in MessageKind /\ kind # "route" /\ kind # "null"
    BY DEF MessageKind, RequestKind
  <2> DEFINE e == IF kind = "noRoute" THEN "NotFoundError"
                                      ELSE "MethodNotAllowedError"
  <2>3. /\ e # BaseError
        /\ kind = "noRoute" => ErrorStatus[Normalized(e)] = 404
        /\ kind = "noMethod" => ErrorStatus[Normalized(e)] = 405
    BY NamedErrors DEF Normalized
  <2>4. on \in Connection \cup {Http}
    BY <1>1
  <2> HIDE DEF e
  <2>5. AnswerError(r, e, on)
    BY <2>1 DEF e
  <2> QED BY <1>4, <2>1, <2>2, <2>3, <2>4, <2>5
<1>8. CASE OtherMessage(r)
  <2>1. PICK kind \in MessageKind \ RequestKind :
          /\ Arrives(r, kind, current, "none", "none")
          /\ \/ /\ kind = "garbage"
                /\ phase' = [phase EXCEPT ![r] = "ignored"]
                /\ UNCHANGED sent
             \/ /\ kind = "null"
                /\ phase' = [phase EXCEPT ![r] = "rejected"]
                /\ UNCHANGED sent
             \/ /\ kind = "invalid"
                /\ AnswerError(r, "UnprocessableContentError", current)
             \/ /\ kind = "badHeaders"
                /\ AnswerError(r, "TypeError", current)
             \/ kind = "heartbeat" /\ Write(r, 0, current)
          /\ UNCHANGED call
    BY <1>8 DEF OtherMessage
  <2>2. /\ kind \in MessageKind /\ kind # "route"
        /\ kind # "noRoute" /\ kind # "noMethod"
    BY DEF RequestKind
  <2>3. current \in Connection \cup {Http}
    BY <1>1
  <2>4. CASE kind = "garbage" /\ phase' = [phase EXCEPT ![r] = "ignored"]
             /\ UNCHANGED sent
    <3>1. "ignored" \in Phase
      BY DEF Phase
    <3>2. /\ phase' \in [Request -> Phase] /\ sent' \in [Request -> Seq(Answer)]
          /\ Keeps(r, "ignored")
          /\ \A s \in Request \ {r} : phase'[s] = phase[s] /\ sent'[s] = sent[s]
      BY <2>4, <3>1, PhaseEffect
    <3> QED BY <1>3, <2>1, <2>2, <2>3, <3>2
  <2>5. CASE kind = "null" /\ phase' = [phase EXCEPT ![r] = "rejected"]
             /\ UNCHANGED sent
    <3>1. "rejected" \in Phase
      BY DEF Phase
    <3>2. /\ phase' \in [Request -> Phase] /\ sent' \in [Request -> Seq(Answer)]
          /\ Keeps(r, "rejected")
          /\ \A s \in Request \ {r} : phase'[s] = phase[s] /\ sent'[s] = sent[s]
      BY <2>5, <3>1, PhaseEffect
    <3> QED BY <1>3, <2>1, <2>2, <2>3, <2>5, <3>2
  <2>6. CASE kind = "invalid" /\ AnswerError(r, "UnprocessableContentError", current)
    <3>1. "UnprocessableContentError" # BaseError /\ kind # "null"
      BY <2>6, NamedErrors
    <3> QED BY <1>4, <2>1, <2>2, <2>3, <2>6, <3>1
  <2>7. CASE kind = "badHeaders" /\ AnswerError(r, "TypeError", current)
    <3>1. "TypeError" # BaseError /\ kind # "null"
      BY <2>7, NamedErrors
    <3> QED BY <1>4, <2>1, <2>2, <2>3, <2>7, <3>1
  <2>8. CASE kind = "heartbeat" /\ Write(r, 0, current)
    <3>1. 0 \in Status
      BY DEF Status
    <3>2. msg'[r].on = current
      BY <1>1, <2>1 DEF Arrives
    <3>3. /\ phase' \in [Request -> Phase] /\ sent' \in [Request -> Seq(Answer)]
          /\ Writes(r, 0)
          /\ \A s \in Request \ {r} : phase'[s] = phase[s] /\ sent'[s] = sent[s]
      BY <2>3, <2>8, <3>1, <3>2, WriteEffect
    <3> QED BY <1>3, <2>1, <2>2, <2>3, <3>1, <3>3
  <2> QED BY <2>1, <2>4, <2>5, <2>6, <2>7, <2>8
<1>9. CASE Finish(r)
  <2> DEFINE out == call[r][Root].out
             on == msg[r].on
  <2>1. /\ phase[r] = "chain"
        /\ call[r][Root].at = "done"
        /\ AnswerOutcome(r, out, on)
        /\ UNCHANGED <<chain, call, consumed, msg, current>>
    BY <1>9 DEF Finish
  <2>2. on \in Connection \cup {Http} /\ msg'[r].on = on
    BY <1>1, <2>1 DEF Message
  <2>3. BaseError \notin Response
    BY DEF BaseError, Response, Responses
  <2>4. /\ phase' \in [Request -> Phase] /\ sent' \in [Request -> Seq(Answer)]
        /\ \/ Keeps(r, "rejected") /\ out = BaseError
           \/ /\ Writes(r, AnswerStatus(out, on))
              /\ AnswerStatus(out, on) \in Status
        /\ \A s \in Request \ {r} : phase'[s] = phase[s] /\ sent'[s] = sent[s]
    <3> HIDE DEF out, on
    <3>1. CASE out = "empty" /\ on # Http
      <4>1. AnswerError(r, "SyntaxError", on)
        BY <2>1, <3>1 DEF AnswerOutcome
      <4>2. "SyntaxError" # BaseError
        BY NamedErrors
      <4>3. AnswerStatus(out, on) = ErrorStatus[Normalized("SyntaxError")]
        BY <3>1, NamedErrors DEF AnswerStatus, Normalized
      <4> QED BY <2>2, <4>1, <4>2, <4>3, ErrorEffect
    <3>2. CASE ~(out = "empty" /\ on # Http) /\ out \in Response
      <4>1. Write(r, Responses[out], on)
        BY <2>1, <3>2 DEF AnswerOutcome
      <4>2. Responses[out] \in Status /\ AnswerStatus(out, on) = Responses[out]
        BY <3>2 DEF AnswerStatus, Status
      <4> QED BY <2>2, <4>1, <4>2, WriteEffect
    <3>3. CASE ~(out = "empty" /\ on # Http) /\ out \notin Response
      <4>1. AnswerError(r, out, on)
        BY <2>1, <3>3 DEF AnswerOutcome
      <4>2. AnswerStatus(out, on) = ErrorStatus[Normalized(out)]
        BY <3>3 DEF AnswerStatus
      <4> QED BY <2>2, <4>1, <4>2, ErrorEffect
    <3> QED BY <3>1, <3>2, <3>3
  <2>5. Concludes(r)
    BY <2>1, <2>4 DEF Concludes
  <2> QED BY <1>1, <2>1, <2>4, <2>5 DEF HandlerTypeOK, OthersKept
<1> QED BY <1>5, <1>6, <1>7, <1>8, <1>9 DEF HandlerStep

-----------------------------------------------------------------------------
(* A step is a handler's, a chain's, or leaves both alone.                 *)
Handles(r) ==
  /\ OthersKept(r)
  /\ Accepts(r) \/ Dismisses(r) \/ Concludes(r)

Moves(r, p) ==
  /\ Len(p) < Len(chain)
  /\ ChainEffect(r, p)
  /\ UNCHANGED <<msg, phase, sent>>

(* Every step of the specification is of one of these kinds.               *)
LEMMA StepCases ==
    ASSUME TypeOK, ShapeInv, [Next]_vars
    PROVE  /\ TypeOK'
           /\ UNCHANGED chain
           /\ \/ \E r \in Request : Handles(r)
              \/ \E r \in Request, p \in Path : Moves(r, p)
              \/ UNCHANGED <<call, consumed, msg, phase, sent>>
<1>1. CASE \E r \in Request : HandlerStep(r)
  <2>1. PICK r \in Request : HandlerStep(r)
    BY <1>1
  <2>2. /\ HandlerTypeOK' /\ call' \in [Request -> [Path -> Call]]
        /\ OthersKept(r)
        /\ Accepts(r) \/ Dismisses(r) \/ Concludes(r)
        /\ UNCHANGED <<chain, consumed, current>>
    BY <2>1, HandlerStepEffect
  <2>3. TypeOK'
    BY <2>2 DEF TypeOK, ChainTypeOK, HandlerTypeOK
  <2> QED BY <2>2, <2>3 DEF Handles
<1>2. CASE \E r \in Request, p \in Path : ChainStep(r, p)
  <2>1. PICK r \in Request, p \in Path : ChainStep(r, p)
    BY <1>2
  <2>2. /\ Len(p) < Len(chain)
        /\ ChainEffect(r, p)
        /\ UNCHANGED <<chain, msg, phase, sent, current>>
    BY <2>1, ChainStepEffect
  <2>3. TypeOK'
    BY <2>2 DEF TypeOK, ChainTypeOK, ChainEffect
  <2> QED BY <2>2, <2>3 DEF Moves
<1>3. CASE Reconnect \/ UNCHANGED vars
  <2>1. UNCHANGED <<chain, call, consumed, msg, phase, sent>>
    BY <1>3 DEF Reconnect, vars
  <2>2. current' \in Connection
    BY <1>3 DEF Reconnect, vars, TypeOK, Connection
  <2> QED BY <2>1, <2>2 DEF TypeOK, ChainTypeOK
<1> QED BY <1>1, <1>2, <1>3 DEF Next, HandlerStep

(* A move makes a change where a call is under way, and enters at most one *)
(* call: the one below it.                                                 *)
Grows(r, p, k) ==
  /\ Calls(r, p, k)
  /\ Append(p, k) \in Path
  /\ Append(p, k) # p /\ Append(p, k) # Root
  /\ Len(Append(p, k)) = Len(p) + 1
  /\ OnlyAt(r, {p, Append(p, k)})

Settles(r, p) == OnlyAt(r, {p}) /\ \E out \in Outcome : Ends(r, p, out)

(* A move is of one of the two kinds.                                      *)
LEMMA MovesFacts ==
    ASSUME TypeOK, NEW r \in Request, NEW p \in Path, Moves(r, p)
    PROVE  /\ call[r][p].at \in {"entered", "awaiting", "again"}
           /\ call'[r][p].at \in {"awaiting", "again", "done"}
           /\ call'[r][p].res = call[r][p].res
           /\ Settles(r, p) \/ Grows(r, p, 1) \/ Grows(r, p, 2)
<1>1. Len(p) < Len(chain) /\ ChainEffect(r, p)
  BY DEF Moves
<1>2. CASE \E out \in Outcome : Ends(r, p, out)
  <2>1. PICK out \in Outcome : Ends(r, p, out)
    BY <1>2
  <2>2. /\ call[r][p].at \in {"entered", "awaiting", "again"}
        /\ call'[r][p] = [at |-> "done", res |-> call[r][p].res, out |-> out]
        /\ OnlyAt(r, {p})
    BY <2>1 DEF Ends
  <2> QED BY <1>2, <2>2 DEF Settles
<1>3. ASSUME NEW k \in {1, 2}, Calls(r, p, k)
      PROVE  /\ Append(p, k) \in Path
             /\ Append(p, k) # p /\ Append(p, k) # Root
             /\ Len(Append(p, k)) = Len(p) + 1
  <2>1. Len(p) + 1 < Len(chain)
    BY <1>3 DEF Calls
  <2>2. Len(p) \in Nat /\ Len(chain) \in Nat /\ Len(chain) <= MaxLength
    BY <1>1, CallFacts
  <2>3. Len(p) + 1 < MaxLength
    BY <2>1, <2>2
  <2> QED BY <2>3, AppendIsPath
<1>4. ASSUME NEW k \in {1, 2}, Calls(r, p, k)
      PROVE  /\ call[r][p].at \in {"entered", "awaiting", "again"}
             /\ call'[r][p].at \in {"awaiting", "again", "done"}
             /\ call'[r][p].res = call[r][p].res
             /\ OnlyAt(r, {p, Append(p, k)})
  BY <1>4 DEF Calls
<1> QED BY <1>1, <1>2, <1>3, <1>4 DEF ChainEffect, Grows

-----------------------------------------------------------------------------
(* A handler none of whose state changes stays as it was.                  *)
LEMMA HandledKept ==
    ASSUME NEW s \in Request, Handled(s), msg'[s] = msg[s],
           phase'[s] = phase[s], sent'[s] = sent[s],
           \/ \A q \in Path : call'[s][q] = call[s][q]
           \/ ~Unstarted(s) /\ call'[s][Root] = call[s][Root]
    PROVE  Handled(s)'
<1>1. Unstarted(s) => Unstarted(s)'
  BY DEF Unstarted
<1>2. call'[s][Root] = call[s][Root]
  BY RootIsPath
<1>3. CASE phase[s] = "answered"
  <2>1. PICK status \in Status :
          /\ sent[s] = <<[status |-> status, to |-> msg[s].on]>>
          /\ \/ /\ msg[s].kind = "route"
                /\ call[s][Root].at = "done"
                /\ status = AnswerStatus(call[s][Root].out, msg[s].on)
             \/ /\ msg[s].kind # "route"
                /\ Unstarted(s)
                /\ msg[s].kind = "noRoute" => status = 404
                /\ msg[s].kind = "noMethod" => status = 405
    BY <1>3 DEF Handled
  <2> QED BY <1>1, <1>2, <1>3, <2>1 DEF Handled
<1>4. CASE phase[s] # "answered"
  BY <1>1, <1>2, <1>4 DEF Handled
<1> QED BY <1>3, <1>4

(* No step writes a second answer or one of another status.                *)
LEMMA HandlerStepInv ==
    ASSUME DispatchInv, [Next]_vars
    PROVE  HandlerInv'
<1>1. TypeOK /\ ShapeInv /\ HandlerInv
  BY DEF DispatchInv
<1>2. SUFFICES ASSUME NEW s \in Request PROVE Handled(s)'
  BY DEF HandlerInv
<1>3. Handled(s)
  BY <1>1 DEF HandlerInv
<1>4. ASSUME NEW r \in Request, Handles(r), s # r
      PROVE  Handled(s)'
  <2>1. \A q \in Path : call'[s][q] = call[s][q]
    BY <1>4 DEF Handles, Accepts, Dismisses, Concludes, OnlyAt
  <2>2. msg'[s] = msg[s] /\ phase'[s] = phase[s] /\ sent'[s] = sent[s]
    BY <1>4 DEF Handles, OthersKept
  <2> QED BY <1>3, <2>1, <2>2, HandledKept
<1>5. CASE Accepts(s)
  BY <1>3, <1>5 DEF Handled, Accepts, Keeps
<1>6. CASE Dismisses(s)
  <2>1. sent[s] = <<>> /\ Unstarted(s)'
    BY <1>3, <1>6 DEF Handled, Dismisses, Unstarted
  <2>2. CASE Keeps(s, "ignored") \/ (Keeps(s, "rejected") /\ msg'[s].kind = "null")
    BY <1>6, <2>1, <2>2 DEF Handled, Dismisses, Keeps
  <2>3. CASE \E status \in Status :
               /\ Writes(s, status)
               /\ msg'[s].kind = "noRoute" => status = 404
               /\ msg'[s].kind = "noMethod" => status = 405
    <3>1. PICK status \in Status :
               /\ Writes(s, status)
               /\ msg'[s].kind = "noRoute" => status = 404
               /\ msg'[s].kind = "noMethod" => status = 405
      BY <2>3
    <3>2. sent'[s] = <<[status |-> status, to |-> msg'[s].on]>>
      BY <2>1, <3>1 DEF Writes
    <3>3. phase'[s] = "answered"
      BY <3>1 DEF Writes
    <3> QED BY <1>6, <2>1, <3>1, <3>2, <3>3 DEF Handled, Dismisses
  <2> QED BY <1>6, <2>2, <2>3 DEF Dismisses
<1>7. CASE Concludes(s)
  <2>1. sent[s] = <<>> /\ msg[s].kind = "route"
    BY <1>3, <1>7 DEF Handled, Concludes
  <2>2. msg'[s] = msg[s] /\ call'[s] = call[s] /\ call[s][Root].at = "done"
    BY <1>7 DEF Concludes
  <2> QED BY <1>3, <1>7, <2>1, <2>2 DEF Handled, Concludes, Keeps, Writes
<1>8. ASSUME NEW r \in Request, NEW p \in Path, Moves(r, p)
      PROVE  Handled(s)'
  <2>1. msg' = msg /\ phase' = phase /\ sent' = sent
    BY <1>8 DEF Moves
  <2>2. CASE s # r
    <3>1. \A q \in Path : call'[s][q] = call[s][q]
      BY <1>1, <1>8, <2>2, MovesFacts DEF OnlyAt, Settles, Grows
    <3> QED BY <1>3, <2>1, <3>1, HandledKept
  <2>3. CASE s = r
    <3>1. call[s][p].at \in {"entered", "awaiting", "again"}
      BY <1>1, <1>8, <2>3, MovesFacts
    <3>2. ~Unstarted(s)
      BY <3>1 DEF Unstarted, NoCall
    <3>3. CASE p # Root
      <4>1. call'[s][Root] = call[s][Root]
        BY <1>1, <1>8, <2>3, <3>3, MovesFacts, RootIsPath DEF OnlyAt, Settles, Grows
      <4> QED BY <1>3, <2>1, <3>2, <4>1, HandledKept
    <3>4. CASE p = Root
      BY <1>3, <2>1, <3>1, <3>2, <3>4 DEF Handled
    <3> QED BY <3>3, <3>4
  <2> QED BY <2>2, <2>3
<1>9. CASE UNCHANGED <<call, consumed, msg, phase, sent>>
  BY <1>3, <1>9, HandledKept
<1> QED
  <2>1. \/ \E r \in Request : Handles(r)
        \/ \E r \in Request, p \in Path : Moves(r, p)
        \/ UNCHANGED <<call, consumed, msg, phase, sent>>
    BY <1>1, StepCases
  <2>2. ASSUME NEW r \in Request, Handles(r) PROVE Handled(s)'
    BY <1>4, <1>5, <1>6, <1>7, <2>2 DEF Handles
  <2> QED BY <1>8, <1>9, <2>1, <2>2

-----------------------------------------------------------------------------
(* What a step of a handler leaves in the calls: those of its request that *)
(* are not none are the root's, if the chain starts, or stay as they were. *)
LEMMA HandlesCalls ==
    ASSUME TypeOK, HandlerInv, NEW r \in Request, Handles(r), UNCHANGED chain
    PROVE  /\ \A s \in Request, q \in Path :
                \/ s # r /\ call'[s][q] = call[s][q] /\ msg'[s] = msg[s]
                \/ s = r /\ call'[s][q] = call[s][q] /\ msg'[s] = msg[s]
                \/ s = r /\ q # Root /\ call'[s][q] = NoCall
                \/ /\ s = r /\ q = Root
                   /\ \/ call'[s][q] = NoCall
                      \/ /\ chain # <<>>
                         /\ call'[s][q] = Entered("null")
                      \/ /\ chain = <<>>
                         /\ call'[s][q] = [at |-> "done", res |-> "null",
                                           out |-> "RangeError"]
           /\ consumed' = consumed
<1>1. phase[r] = "idle" => Unstarted(r)
  BY DEF HandlerInv, Handled
<1>2. CASE Accepts(r)
  <2>1. \A q \in Path : q # Root => call'[r][q] = NoCall
    BY <1>1, <1>2 DEF Accepts, Unstarted, OnlyAt
  <2>2. \A s \in Request \ {r}, q \in Path : call'[s][q] = call[s][q]
    BY <1>2 DEF Accepts, OnlyAt
  <2>3. \A s \in Request \ {r} : msg'[s] = msg[s]
    BY DEF Handles, OthersKept
  <2> QED BY <1>2, <2>1, <2>2, <2>3 DEF Accepts
<1>3. CASE Dismisses(r)
  <2>1. \A q \in Path : call'[r][q] = NoCall
    BY <1>1, <1>3 DEF Dismisses, Unstarted
  <2>2. call' = call /\ consumed' = consumed
    BY <1>3 DEF Dismisses
  <2>3. \A s \in Request \ {r} : msg'[s] = msg[s]
    BY DEF Handles, OthersKept
  <2> QED BY <2>1, <2>2, <2>3
<1>4. CASE Concludes(r)
  BY <1>4 DEF Concludes
<1> QED BY <1>2, <1>3, <1>4 DEF Handles

(* The res of a call never comes from elsewhere.                           *)
LEMMA DataStepInv ==
    ASSUME DispatchInv, [Next]_vars
    PROVE  DataInv'
<1>1. TypeOK /\ ShapeInv /\ HandlerInv /\ DataInv
  BY DEF DispatchInv
<1>2. UNCHANGED chain
  BY <1>1, StepCases
<1>3. SUFFICES ASSUME NEW s \in Request, NEW q \in Path,
                      call'[s][q].at # "none"
               PROVE  DataOK(s, q)'
  BY DEF DataInv
<1>4. ASSUME call[s][q].at # "none", call'[s][q].res = call[s][q].res,
             msg'[s] = msg[s]
      PROVE  DataOK(s, q)'
  BY <1>1, <1>2, <1>4 DEF DataInv, DataOK
<1>5. ASSUME NEW r \in Request, Handles(r)
      PROVE  DataOK(s, q)'
  <2>1. \/ call'[s][q] = call[s][q] /\ msg'[s] = msg[s]
        \/ q = Root /\ call'[s][q].res = "null"
    BY <1>1, <1>2, <1>3, <1>5, HandlesCalls DEF Entered, NoCall
  <2>2. q = Root => 1 .. Len(q) = {}
    BY RootIsPath
  <2> QED BY <1>3, <1>4, <2>1, <2>2 DEF DataOK
<1>6. ASSUME NEW r \in Request, NEW p \in Path, Moves(r, p)
      PROVE  DataOK(s, q)'
  <2>1. /\ call[r][p].at \in {"entered", "awaiting", "again"}
        /\ call'[r][p].res = call[r][p].res
        /\ Settles(r, p) \/ Grows(r, p, 1) \/ Grows(r, p, 2)
    BY <1>1, <1>6, MovesFacts
  <2>2. msg' = msg /\ Len(p) < Len(chain)
    BY <1>6 DEF Moves
  <2>3. CASE s = r /\ q = p
    BY <1>4, <2>1, <2>2, <2>3
  <2>4. CASE call'[s][q] = call[s][q]
    BY <1>3, <1>4, <2>2, <2>4
  <2>5. ASSUME NEW k \in {1, 2}, Calls(r, p, k), Len(Append(p, k)) = Len(p) + 1,
               s = r, q = Append(p, k)
        PROVE  DataOK(s, q)'
    <3>1. DataOK(r, p)
      BY <1>1, <2>1 DEF DataInv
    <3>2. /\ Len(p) \in Nat
          /\ call[r][p] \in Call
          /\ msg[r] \in Message
      BY <1>1, <2>2, CallFacts
    <3>3. /\ call'[s][q].res = PassedOn(r, p)
          /\ Middleware(p) = "schema" => call[r][p].res = "good"
      BY <2>5 DEF Calls, Entered
    <3>4. /\ 1 .. Len(q) = (1 .. Len(p)) \cup {Len(p) + 1}
          /\ chain[Len(p) + 1] = Middleware(p)
      BY <2>5, <3>2 DEF Middleware
    <3>5. CASE Middleware(p) = "json" /\ msg[r].type = "json"
      <4>1. call'[s][q].res = msg[r].body
        BY <3>3, <3>5 DEF PassedOn
      <4>2. (\E i \in 1 .. Len(q) : chain[i] = "schema") => msg[r].body = "good"
        BY <3>1, <3>4, <3>5 DEF DataOK
      <4> QED BY <1>2, <2>2, <2>5, <3>4, <3>5, <4>1, <4>2 DEF DataOK
    <3>6. CASE ~(Middleware(p) = "json" /\ msg[r].type = "json")
      <4>1. call'[s][q].res = call[r][p].res
        BY <3>3, <3>6 DEF PassedOn
      <4>2. (\E i \in 1 .. Len(q) : chain[i] = "schema") => call[r][p].res = "good"
        BY <3>1, <3>3, <3>4 DEF DataOK
      <4> QED BY <1>2, <2>2, <2>5, <3>1, <3>4, <4>1, <4>2 DEF DataOK
    <3> QED BY <3>5, <3>6
  <2> QED BY <2>1, <2>3, <2>4, <2>5 DEF OnlyAt, Settles, Grows
<1>7. CASE UNCHANGED <<call, consumed, msg, phase, sent>>
  BY <1>3, <1>4, <1>7
<1> QED BY <1>1, <1>5, <1>6, <1>7, StepCases

(* A call that waits has a next, and still is not refused.                 *)
LEMMA ShapeStepInv ==
    ASSUME DispatchInv, [Next]_vars
    PROVE  ShapeInv'
<1>1. TypeOK /\ ShapeInv /\ HandlerInv
  BY DEF DispatchInv
<1>2. UNCHANGED chain
  BY <1>1, StepCases
<1> DEFINE Shaped(s, q) ==
      /\ call[s][q].at \in {"awaiting", "again"} =>
           Len(q) + 1 < Len(chain) /\ ~Refused(s, q)
      /\ call[s][q].at = "again" => Middleware(q) = "twice"
<1>3. SUFFICES ASSUME NEW s \in Request, NEW q \in Path
               PROVE  Shaped(s, q)'
  BY DEF ShapeInv
<1>4. Shaped(s, q)
  BY <1>1 DEF ShapeInv
<1>5. ASSUME call'[s][q].res = call[s][q].res, msg'[s] = msg[s]
      PROVE  Refused(s, q)' <=> Refused(s, q)
  BY <1>2, <1>5 DEF Refused, Middleware, IsLast
<1>6. ASSUME call'[s][q] = call[s][q], msg'[s] = msg[s]
      PROVE  Shaped(s, q)'
  BY <1>2, <1>4, <1>5, <1>6 DEF Middleware
<1>7. ASSUME call'[s][q].at \notin {"awaiting", "again"}
      PROVE  Shaped(s, q)'
  BY <1>7
<1>8. ASSUME NEW r \in Request, Handles(r)
      PROVE  Shaped(s, q)'
  <2>1. \/ call'[s][q] = call[s][q] /\ msg'[s] = msg[s]
        \/ call'[s][q].at \notin {"awaiting", "again"}
    BY <1>1, <1>2, <1>8, HandlesCalls DEF Entered, NoCall
  <2> HIDE DEF Shaped
  <2> QED BY <1>6, <1>7, <2>1
<1>9. ASSUME NEW r \in Request, NEW p \in Path, Moves(r, p)
      PROVE  Shaped(s, q)'
  <2>1. /\ call'[r][p].res = call[r][p].res
        /\ Settles(r, p) \/ Grows(r, p, 1) \/ Grows(r, p, 2)
    BY <1>1, <1>9, MovesFacts
  <2>2. msg' = msg
    BY <1>9 DEF Moves
  <2>3. CASE s = r /\ q = p
    <3>1. CASE \E out \in Outcome : Ends(r, p, out)
      <4>1. call'[s][q].at = "done"
        BY <2>3, <3>1 DEF Ends
      <4> HIDE DEF Shaped
      <4> QED BY <1>7, <4>1
    <3>2. ASSUME NEW k \in {1, 2}, Calls(r, p, k) PROVE Shaped(s, q)'
      <4>1. CASE call'[r][p].at = "done"
        <5> HIDE DEF Shaped
        <5> QED BY <1>7, <2>3, <4>1
      <4>2. CASE k = 1 /\ call'[r][p].at = "awaiting" /\ ~Refused(r, p)
        <5>1. Len(p) + 1 < Len(chain)
          BY <3>2 DEF Calls
        <5> QED BY <1>2, <1>5, <2>1, <2>2, <2>3, <4>2, <5>1
      <4>3. CASE /\ k = 2 /\ call'[r][p].at = "again"
                 /\ call[r][p].at = "awaiting" /\ Middleware(p) = "twice"
        BY <1>2, <1>4, <1>5, <2>1, <2>2, <2>3, <4>3 DEF Middleware
      <4> HIDE DEF Shaped
      <4> QED BY <3>2, <4>1, <4>2, <4>3 DEF Calls
    <3> HIDE DEF Shaped
    <3> QED BY <2>1, <3>1, <3>2 DEF Settles, Grows
  <2>4. CASE call'[s][q] = call[s][q]
    <3> HIDE DEF Shaped
    <3> QED BY <1>6, <2>2, <2>4
  <2>5. ASSUME NEW k \in {1, 2}, Calls(r, p, k), s = r, q = Append(p, k)
        PROVE  Shaped(s, q)'
    <3>1. call'[s][q].at = "entered"
      BY <2>5 DEF Calls, Entered
    <3> HIDE DEF Shaped
    <3> QED BY <1>7, <3>1
  <2> HIDE DEF Shaped
  <2> QED BY <2>1, <2>3, <2>4, <2>5 DEF OnlyAt, Settles, Grows
<1>10. CASE UNCHANGED <<call, consumed, msg, phase, sent>>
  <2> HIDE DEF Shaped
  <2> QED BY <1>6, <1>10
<1> HIDE DEF Shaped
<1> QED BY <1>1, <1>8, <1>9, <1>10, StepCases

-----------------------------------------------------------------------------
(* Below the k-th call of next at p lie the calls whose paths pass there.  *)
Extends(n, p, k) ==
  /\ n \in Path
  /\ Len(n) = Len(p) + 1
  /\ n[Len(p) + 1] = k
  /\ \A i \in 1 .. Len(p) : n[i] = p[i]

(* Append makes such a path.                                               *)
LEMMA AppendExtends ==
    ASSUME NEW p \in Path, NEW k \in {1, 2}, Append(p, k) \in Path
    PROVE  Extends(Append(p, k), p, k)
<1>1. p \in Seq({1, 2})
  BY PathIsSeq
<1> QED BY <1>1, AppendProperties DEF Extends

(* A path is above another if the other goes through one of its two.       *)
LEMMA AboveFacts ==
    ASSUME NEW p \in Path, NEW q \in Path, NEW k \in {1, 2}, NEW n \in Path,
           Extends(n, p, k)
    PROVE  /\ Above(n, q) => Above(p, q) /\ q[Len(p) + 1] = k
           /\ Above(p, q) /\ q[Len(p) + 1] = k => q = n \/ Above(n, q)
           /\ Above(q, n) =>
                q = p \/ (Above(q, p) /\ n[Len(q) + 1] = p[Len(q) + 1])
<1>1. Len(p) \in Nat /\ Len(q) \in Nat
  BY PathIsSeq
<1>2. Above(n, q) => Above(p, q) /\ q[Len(p) + 1] = k
  BY <1>1 DEF Above, Extends
<1>3. ASSUME Above(p, q), q[Len(p) + 1] = k
      PROVE  q = n \/ Above(n, q)
  <2>1. \A i \in 1 .. Len(n) : n[i] = q[i]
    BY <1>1, <1>3 DEF Above, Extends
  <2>2. CASE Len(q) = Len(n)
    BY <2>1, <2>2, SamePath DEF Extends
  <2>3. CASE Len(q) # Len(n)
    BY <1>1, <1>3, <2>1, <2>3 DEF Above, Extends
  <2> QED BY <2>2, <2>3
<1>4. ASSUME Above(q, n)
      PROVE  q = p \/ (Above(q, p) /\ n[Len(q) + 1] = p[Len(q) + 1])
  <2>1. /\ Len(q) <= Len(p)
        /\ \A i \in 1 .. Len(q) : q[i] = p[i]
    BY <1>1, <1>4 DEF Above, Extends
  <2>2. CASE Len(q) = Len(p)
    BY <2>1, <2>2, SamePath
  <2>3. CASE Len(q) # Len(p)
    BY <1>1, <2>1, <2>3 DEF Above, Extends
  <2> QED BY <2>2, <2>3
<1> QED BY <1>2, <1>3, <1>4

(* Calls go on waiting for what runs below them.                           *)
LEMMA WaitStepInv ==
    ASSUME DispatchInv, [Next]_vars
    PROVE  WaitInv'
<1>1. TypeOK /\ ShapeInv /\ HandlerInv /\ WaitInv
  BY DEF DispatchInv
<1>2. UNCHANGED chain
  BY <1>1, StepCases
<1> DEFINE Waits(s, a, q) ==
      \/ call[s][a].at = "awaiting" /\ q[Len(a) + 1] = 1
      \/ call[s][a].at = "again" /\ q[Len(a) + 1] = 2
<1>3. SUFFICES ASSUME AllAwait, NEW s \in Request, NEW a \in Path, NEW q \in Path,
                      Above(a, q), call'[s][q].at \notin {"none", "done"}
               PROVE  Waits(s, a, q)'
  BY <1>2 DEF WaitInv, AllAwait
<1>4. \A b, c \in Path : Above(b, c) /\ call[s][c].at \notin {"none", "done"}
                           => Waits(s, b, c)
  BY <1>1, <1>3 DEF WaitInv
<1>5. ASSUME call'[s][q] = call[s][q], call'[s][a] = call[s][a]
      PROVE  Waits(s, a, q)'
  BY <1>3, <1>4, <1>5
<1>6. a \in Path /\ a # q /\ Len(a) \in Nat /\ Len(q) \in Nat
  BY <1>3, PathIsSeq DEF Above
<1>7. ASSUME NEW r \in Request, Handles(r)
      PROVE  Waits(s, a, q)'
  <2>1. q # Root
    BY <1>3, <1>6, RootIsPath DEF Above
  <2>2. call'[s][q] = call[s][q]
    BY <1>1, <1>2, <1>3, <1>7, <2>1, HandlesCalls DEF NoCall
  <2>3. Waits(s, a, q)
    BY <1>3, <1>4, <2>2
  <2>4. CASE call'[s][a] = call[s][a]
    BY <1>5, <2>2, <2>4
  <2>5. CASE s = r /\ phase[r] = "idle"
    BY <1>1, <1>3, <2>2, <2>5 DEF HandlerInv, Handled, Unstarted, NoCall
  <2>6. CASE Concludes(r) \/ s # r
    BY <1>7, <2>4, <2>6 DEF Handles, Concludes, Accepts, Dismisses, OnlyAt
  <2> QED BY <1>7, <2>5, <2>6 DEF Handles, Accepts, Dismisses
<1>8. ASSUME NEW r \in Request, NEW p \in Path, Moves(r, p)
      PROVE  Waits(s, a, q)'
  <2>1. /\ call[r][p].at \in {"entered", "awaiting", "again"}
        /\ call'[r][p].at \in {"awaiting", "again", "done"}
        /\ call'[r][p].res = call[r][p].res
        /\ Settles(r, p) \/ Grows(r, p, 1) \/ Grows(r, p, 2)
    BY <1>1, <1>8, MovesFacts
  <2>2. Len(p) < Len(chain) /\ Middleware(p) \notin Unawaited
    <3>1. Len(p) < Len(chain)
      BY <1>8 DEF Moves
    <3>2. Len(p) \in Nat /\ Len(chain) \in Nat
      BY <1>1, <3>1, CallFacts
    <3>3. Len(p) + 1 \in 1 .. Len(chain)
      BY <3>1, <3>2
    <3> QED BY <1>3, <3>1, <3>3 DEF AllAwait, Middleware
  <2>3. CASE s # r
    BY <1>5, <2>1, <2>3 DEF OnlyAt, Settles, Grows
  <2>4. CASE Settles(r, p)
    <3>1. PICK out \in Outcome : Ends(r, p, out)
      BY <2>4 DEF Settles
    <3>2. call'[r][p].at = "done" /\ OnlyAt(r, {p})
      BY <3>1 DEF Ends
    <3>3. CASE s = r /\ a # p
      BY <1>3, <1>5, <3>2, <3>3 DEF OnlyAt
    <3>4. CASE s = r /\ a = p
      <4>1. call'[s][q] = call[s][q]
        BY <1>6, <3>2, <3>4 DEF OnlyAt
      <4>2. Waits(s, p, q)
        BY <1>3, <1>4, <3>4, <4>1
      <4> DEFINE k == IF call[r][p].at = "again" THEN 2 ELSE 1
      <4>3. /\ call[r][p].at \in {"awaiting", "again"}
            /\ Append(p, k) \in Path
            /\ call[r][Append(p, k)].at = "done"
        BY <3>1, <3>4, <4>2 DEF Ends
      <4>4. q[Len(p) + 1] = k /\ k \in {1, 2}
        BY <3>4, <4>2
      <4> HIDE DEF k
      <4>5. Extends(Append(p, k), p, k)
        BY <4>3, <4>4, AppendExtends
      <4>6. q = Append(p, k) \/ Above(Append(p, k), q)
        BY <1>3, <3>4, <4>3, <4>4, <4>5, AboveFacts
      <4>7. CASE q = Append(p, k)
        BY <1>3, <3>4, <4>1, <4>3, <4>7
      <4>8. CASE Above(Append(p, k), q)
        <5>1. Waits(s, Append(p, k), q)
          BY <1>3, <1>4, <4>1, <4>3, <4>8
        <5> QED BY <3>4, <4>3, <5>1
      <4> QED BY <4>6, <4>7, <4>8
    <3> QED BY <2>3, <3>3, <3>4
  <2>5. ASSUME NEW k \in {1, 2}, Grows(r, p, k), s = r
        PROVE  Waits(s, a, q)'
    <3> DEFINE n == Append(p, k)
    <3>1. /\ n \in Path /\ n # p
          /\ Len(n) = Len(p) + 1
          /\ Calls(r, p, k)
          /\ OnlyAt(r, {p, n})
      BY <2>5 DEF Grows
    <3>2. Extends(n, p, k)
      BY <3>1, AppendExtends
    <3>3. \/ k = 1 /\ call[r][p].at = "entered" /\ call'[r][p].at = "awaiting"
          \/ /\ k = 2 /\ call[r][p].at = "awaiting" /\ call'[r][p].at = "again"
             /\ call[r][Append(p, 1)].at = "done"
      BY <2>2, <3>1 DEF Calls
    <3>4. Len(p) \in Nat
      BY PathIsSeq
    <3>5. CASE q = n
      <4>1. a = p \/ (Above(a, p) /\ n[Len(a) + 1] = p[Len(a) + 1])
        <5> HIDE DEF n
        <5>1. Above(a, n)
          BY <1>3, <3>5
        <5> QED BY <3>1, <3>2, <5>1, AboveFacts
      <4>2. CASE a = p
        BY <2>5, <3>2, <3>3, <3>5, <4>2 DEF Extends
      <4>3. CASE Above(a, p) /\ n[Len(a) + 1] = p[Len(a) + 1]
        <5>1. Waits(s, a, p)
          BY <1>4, <2>5, <3>3, <4>3
        <5>2. a # p /\ a # n
          BY <3>1, <3>4, <4>3, <1>6 DEF Above
        <5>3. call'[s][a] = call[s][a]
          BY <2>5, <3>1, <5>2 DEF OnlyAt
        <5> QED BY <3>5, <4>3, <5>1, <5>3
      <4> QED BY <4>1, <4>2, <4>3
    <3>6. CASE q = p
      <4>1. a # p /\ a # n
        BY <1>3, <1>6, <3>1, <3>4, <3>6 DEF Above
      <4>2. call'[s][a] = call[s][a]
        BY <2>5, <3>1, <4>1 DEF OnlyAt
      <4>3. Waits(s, a, q)
        BY <1>3, <1>4, <2>5, <3>3, <3>6
      <4> QED BY <4>2, <4>3
    <3>7. CASE q # n /\ q # p
      <4>1. call'[s][q] = call[s][q]
        BY <2>5, <3>1, <3>7 DEF OnlyAt
      <4>2. \A b \in Path : Above(b, q) => Waits(s, b, q)
        BY <1>3, <1>4, <4>1
      <4>3. CASE a # p /\ a # n
        <5>1. call'[s][a] = call[s][a]
          BY <2>5, <3>1, <4>3 DEF OnlyAt
        <5> QED BY <1>5, <4>1, <5>1
      <4>4. ASSUME Above(p, q) PROVE q[Len(p) + 1] # k
        BY <2>5, <3>3, <4>2, <4>4
      <4>5. a # n
        <5> HIDE DEF n
        <5> QED BY <1>3, <3>1, <3>2, <4>4, AboveFacts
      <4>6. CASE a = p
        <5>1. Waits(s, p, q)
          BY <1>3, <4>2, <4>6
        <5>2. /\ k = 2 /\ call[r][p].at = "awaiting"
              /\ call[r][Append(p, 1)].at = "done"
              /\ q[Len(p) + 1] = 1
          BY <2>5, <3>3, <5>1
        <5>3. Append(p, 1) \in Path /\ Extends(Append(p, 1), p, 1)
          <6>1. Len(p) + 1 < MaxLength
            <7> HIDE DEF n
            <7>1. Len(n) \in 0 .. MaxLength - 1
              BY <3>1, PathIsSeq
            <7> QED BY <3>1, <3>4, <7>1
          <6> QED BY <6>1, AppendIsPath, AppendExtends
        <5>4. q = Append(p, 1) \/ Above(Append(p, 1), q)
          BY <1>3, <4>6, <5>2, <5>3, AboveFacts
        <5>5. q # Append(p, 1)
          BY <1>3, <2>5, <4>1, <5>2
        <5>6. Waits(s, Append(p, 1), q)
          BY <4>2, <5>3, <5>4, <5>5
        <5> QED BY <2>5, <5>2, <5>6
      <4> QED BY <4>3, <4>5, <4>6
    <3> QED BY <3>5, <3>6, <3>7
  <2> HIDE DEF Waits
  <2> QED BY <2>1, <2>3, <2>4, <2>5
<1>9. CASE UNCHANGED <<call, consumed, msg, phase, sent>>
  BY <1>5, <1>9
<1> HIDE DEF Waits
<1> QED BY <1>1, <1>7, <1>8, <1>9, StepCases

-----------------------------------------------------------------------------
(* Paths that grow alike are the same.                                     *)
LEMMA AppendInjective1 ==
    ASSUME NEW p \in Path, NEW q \in Path, Append(p, 1) \in Path,
           Append(p, 1) = Append(q, 1)
    PROVE  p = q
<1>1. Extends(Append(p, 1), p, 1) /\ Extends(Append(p, 1), q, 1)
  BY AppendExtends
<1>2. Len(p) \in Nat /\ Len(q) \in Nat
  BY PathIsSeq
<1>3. Len(p) = Len(q)
  BY <1>1, <1>2 DEF Extends
<1>4. \A i \in 1 .. Len(p) : p[i] = q[i]
  BY <1>1, <1>3 DEF Extends
<1> QED BY <1>3, <1>4, SamePath

(* What a Portable chain has in it.                                        *)
LEMMA PortableMiddleware ==
    ASSUME TypeOK, Portable, NEW p \in Path, Len(p) < Len(chain)
    PROVE  /\ Middleware(p) \notin {"empty", "twice", BaseError}
           /\ \A q \in Path : /\ Len(q) < Len(chain)
                              /\ Middleware(p) = "json"
                              /\ Middleware(q) = "json"
                              => Len(p) = Len(q)
<1>1. Len(chain) \in Nat /\ \A q \in Path : Len(q) \in Nat
  BY ChainIsSeq, PathIsSeq DEF TypeOK, ChainTypeOK
<1>2. \A q \in Path : Len(q) < Len(chain) => Len(q) + 1 \in 1 .. Len(chain)
  BY <1>1
<1>3. Middleware(p) \notin {"empty", "twice", BaseError}
  BY <1>2 DEF Portable, Middleware
<1>4. ASSUME NEW q \in Path, Len(q) < Len(chain),
             Middleware(p) = "json", Middleware(q) = "json"
      PROVE  Len(p) = Len(q)
  <2>1. Len(p) + 1 = Len(q) + 1
    BY <1>2, <1>4 DEF Portable, Middleware
  <2> QED BY <1>1, <2>1
<1> QED BY <1>3, <1>4

(* The calls of a Portable chain lie on one path, and so does the step.    *)
LEMMA PortableGrows ==
    ASSUME TypeOK, Portable, NEW r \in Request, NEW p \in Path,
           Moves(r, p), NEW k \in {1, 2}, Grows(r, p, k)
    PROVE  /\ k = 1
           /\ call[r][p].at = "entered"
           /\ call'[r][p].at \in {"awaiting", "done"}
           /\ Len(p) + 1 < Len(chain)
<1>1. Len(p) < Len(chain)
  BY DEF Moves
<1>2. Middleware(p) # "twice"
  BY <1>1, PortableMiddleware
<1> QED BY <1>2 DEF Grows, Calls

(* No step leaves the one path, or reads the body elsewhere.               *)
LEMMA OnceStepInv ==
    ASSUME DispatchInv, [Next]_vars
    PROVE  OnceInv'
<1>1. TypeOK /\ ShapeInv /\ HandlerInv /\ OnceInv
  BY DEF DispatchInv
<1>2. UNCHANGED chain
  BY <1>1, StepCases
<1> DEFINE Once(s, q) ==
      /\ call[s][q].at # "none" => OncePath(q)
      /\ call[s][q].at # "again"
      /\ Len(q) + 1 < Len(chain) =>
           \/ call[s][Append(q, 1)].at = "none"
           \/ call[s][q].at \in {"awaiting", "done"}
    Read(s) ==
      consumed[s] => \E q \in Path : /\ Len(q) < Len(chain)
                                     /\ Middleware(q) = "json"
                                     /\ call[s][q].at \in {"awaiting", "done"}
<1>3. SUFFICES ASSUME Portable, NEW s \in Request
               PROVE  (\A q \in Path : Once(s, q)') /\ Read(s)'
  BY <1>2 DEF OnceInv, Portable
<1>4. \A r \in Request : (\A q \in Path : Once(r, q)) /\ Read(r)
  BY <1>1, <1>3 DEF OnceInv
<1>5. \A q \in Path : Len(q) + 1 < Len(chain) =>
        /\ Append(q, 1) \in Path
        /\ Append(q, 1) # q /\ Append(q, 1) # Root
        /\ Len(Append(q, 1)) = Len(q) + 1
  <2>1. Len(chain) \in Nat /\ Len(chain) <= MaxLength
    BY <1>1, ChainIsSeq DEF TypeOK, ChainTypeOK
  <2>2. \A q \in Path : Len(q) \in Nat
    BY PathIsSeq
  <2>3. \A q \in Path : Len(q) + 1 < Len(chain) => Len(q) + 1 < MaxLength
    BY <2>1, <2>2
  <2> QED BY <2>3, AppendIsPath
<1>6. ASSUME \A q \in Path : call'[s][q] = call[s][q], consumed'[s] = consumed[s]
      PROVE  (\A q \in Path : Once(s, q)') /\ Read(s)'
  <2>1. ASSUME NEW q \in Path PROVE Once(s, q)'
    <3>1. Once(s, q) /\ call'[s][q] = call[s][q]
      BY <1>4, <1>6
    <3>2. Len(q) + 1 < Len(chain) =>
            call'[s][Append(q, 1)] = call[s][Append(q, 1)]
      BY <1>5, <1>6
    <3>3. Len(q) + 1 < Len(chain) =>
            \/ call'[s][Append(q, 1)].at = "none"
            \/ call'[s][q].at \in {"awaiting", "done"}
      BY <3>1, <3>2
    <3>4. /\ call'[s][q].at # "none" => OncePath(q)
          /\ call'[s][q].at # "again"
      BY <3>1
    <3> QED BY <1>2, <3>3, <3>4
  <2>2. Read(s)'
    BY <1>2, <1>4, <1>6 DEF Middleware
  <2> QED BY <2>1, <2>2
<1>7. ASSUME NEW r \in Request, Handles(r)
      PROVE  (\A q \in Path : Once(s, q)') /\ Read(s)'
  <2>1. consumed' = consumed
    BY <1>1, <1>2, <1>7, HandlesCalls
  <2>2. CASE s # r \/ Concludes(r)
    <3>1. \A q \in Path : call'[s][q] = call[s][q]
      BY <1>7, <2>2 DEF Handles, Accepts, Dismisses, Concludes, OnlyAt
    <3> QED BY <1>6, <2>1, <3>1
  <2>3. CASE s = r /\ (Accepts(r) \/ Dismisses(r))
    <3>1. \A q \in Path : call[s][q] = NoCall
      BY <1>1, <2>3 DEF HandlerInv, Handled, Unstarted, Accepts, Dismisses
    <3>2. ~consumed[s]
      <4>1. Read(s)
        BY <1>4
      <4>2. \A q \in Path : call[s][q].at \notin {"awaiting", "done"}
        BY <3>1 DEF NoCall
      <4> QED BY <4>1, <4>2
    <3>3. \A q \in Path : q # Root => call'[s][q].at = "none"
      BY <2>3, <3>1 DEF Accepts, Dismisses, OnlyAt, NoCall
    <3>4. call'[s][Root].at # "again"
      BY <2>3, <3>1, RootIsPath DEF Accepts, Dismisses, NoCall, Entered
    <3>5. OncePath(Root)
      BY RootIsPath DEF OncePath
    <3> QED BY <1>2, <1>5, <2>1, <3>2, <3>3, <3>4, <3>5
  <2> QED BY <1>7, <2>2, <2>3 DEF Handles
<1>8. ASSUME NEW r \in Request, NEW p \in Path, Moves(r, p)
      PROVE  (\A q \in Path : Once(s, q)') /\ Read(s)'
  <2>1. /\ call[r][p].at \in {"entered", "awaiting", "again"}
        /\ call'[r][p].at \in {"awaiting", "again", "done"}
        /\ call'[r][p].res = call[r][p].res
        /\ Settles(r, p) \/ Grows(r, p, 1) \/ Grows(r, p, 2)
    BY <1>1, <1>8, MovesFacts
  <2>2. /\ consumed'[s] => consumed[s] \/ (s = r /\ Middleware(p) = "json")
        /\ Len(p) < Len(chain)
    BY <1>8 DEF Moves, ChainEffect
  <2>3. CASE s # r
    <3>1. \A q \in Path : call'[s][q] = call[s][q]
      BY <2>1, <2>3 DEF OnlyAt, Settles, Grows
    <3>2. \A q \in Path : Once(s, q)'
      BY <1>2, <1>4, <1>5, <3>1
    <3>3. Read(s)'
      BY <1>2, <1>4, <2>2, <2>3, <3>1 DEF Middleware
    <3> QED BY <3>2, <3>3
  <2>4. CASE s = r /\ Settles(r, p)
    <3>1. OnlyAt(r, {p}) /\ call'[r][p].at = "done"
      BY <2>4 DEF Settles, Ends
    <3>2. \A q \in Path : q # p => call'[s][q] = call[s][q]
      BY <2>4, <3>1 DEF OnlyAt
    <3>3. ASSUME NEW q \in Path PROVE Once(s, q)'
      <4>1. call'[s][q].at # "none" => OncePath(q)
        BY <1>4, <2>1, <2>4, <3>2
      <4>2. call'[s][q].at # "again"
        BY <1>4, <2>4, <3>1, <3>2
      <4>3. ASSUME Len(q) + 1 < Len(chain), call'[s][Append(q, 1)].at # "none"
            PROVE  call'[s][q].at \in {"awaiting", "done"}
        <5>1. call[s][Append(q, 1)].at # "none"
          BY <1>5, <2>1, <2>4, <3>2, <4>3
        <5> QED BY <1>4, <2>4, <3>1, <3>2, <4>3, <5>1
      <4> QED BY <1>2, <4>1, <4>2, <4>3
    <3>4. Read(s)'
      <4>1. CASE Middleware(p) = "json"
        BY <1>2, <2>2, <2>4, <3>1, <4>1 DEF Middleware
      <4>2. CASE Middleware(p) # "json"
        BY <1>2, <1>4, <2>2, <3>2, <4>2 DEF Middleware
      <4> QED BY <4>1, <4>2
    <3> QED BY <3>3, <3>4
  <2>5. ASSUME NEW k \in {1, 2}, s = r, Grows(r, p, k)
        PROVE  (\A q \in Path : Once(s, q)') /\ Read(s)'
    <3> DEFINE n == Append(p, 1)
    <3>1. /\ k = 1
          /\ call[r][p].at = "entered"
          /\ call'[r][p].at \in {"awaiting", "done"}
          /\ Len(p) + 1 < Len(chain)
      BY <1>1, <1>3, <1>8, <2>5, PortableGrows
    <3>2. /\ n \in Path /\ n # p
          /\ call'[r][n].at = "entered"
          /\ OnlyAt(r, {p, n})
      BY <2>5, <3>1 DEF Grows, Calls, Entered
    <3>3. \A q \in Path : q # p /\ q # n => call'[s][q] = call[s][q]
      BY <2>5, <3>2 DEF OnlyAt
    <3>4. call[s][n].at = "none"
      BY <1>4, <2>5, <3>1
    <3>5. OncePath(p)
      BY <1>4, <2>1
    <3>6. Extends(n, p, 1) /\ Len(p) \in Nat
      BY <3>2, AppendExtends, PathIsSeq
    <3>7. OncePath(n)
      <4> HIDE DEF n
      <4> QED BY <3>5, <3>6 DEF OncePath, Extends
    <3>8. ASSUME NEW q \in Path PROVE Once(s, q)'
      <4>1. call'[s][q].at # "none" => OncePath(q)
        <5> HIDE DEF n
        <5>1. CASE q # p /\ q # n
          BY <1>4, <3>3, <5>1
        <5> QED BY <3>5, <3>7, <5>1
      <4>2. call'[s][q].at # "again"
        BY <1>4, <2>5, <3>1, <3>2, <3>3
      <4>3. ASSUME Len(q) + 1 < Len(chain), call'[s][Append(q, 1)].at # "none"
            PROVE  call'[s][q].at \in {"awaiting", "done"}
        <5>1. CASE q = p
          BY <2>5, <3>1, <5>1
        <5>2. CASE q # p
          <6>1. Append(q, 1) \in Path /\ Len(Append(q, 1)) = Len(q) + 1
            BY <1>5, <4>3
          <6>2. Append(q, 1) # n
            BY <3>2, <5>2, AppendInjective1
          <6>3. call[s][Append(q, 1)].at # "none"
            BY <2>1, <2>5, <3>3, <4>3, <6>1, <6>2
          <6>4. call[s][q].at \in {"awaiting", "done"}
            BY <1>4, <4>3, <6>3
          <6>5. q # n
            BY <3>4, <6>4
          <6> QED BY <3>3, <5>2, <6>4, <6>5
        <5> QED BY <5>1, <5>2
      <4> QED BY <1>2, <4>1, <4>2, <4>3
    <3>9. Read(s)'
      <4>1. CASE Middleware(p) = "json"
        BY <1>2, <2>2, <2>5, <3>1, <4>1 DEF Middleware
      <4>2. ASSUME Middleware(p) # "json", consumed'[s]
            PROVE  \E q \in Path : /\ Len(q) < Len(chain)
                                   /\ Middleware(q) = "json"
                                   /\ call'[s][q].at \in {"awaiting", "done"}
        <5>1. PICK q \in Path : /\ Len(q) < Len(chain)
                                /\ Middleware(q) = "json"
                                /\ call[s][q].at \in {"awaiting", "done"}
          BY <1>4, <2>2, <4>2
        <5>2. q # p /\ q # n
          BY <3>4, <4>2, <5>1
        <5> QED BY <3>3, <5>1, <5>2
      <4> QED BY <1>2, <4>1, <4>2 DEF Middleware
    <3> QED BY <3>8, <3>9
  <2> HIDE DEF Once, Read
  <2> QED BY <2>1, <2>3, <2>4, <2>5
<1>9. CASE UNCHANGED <<call, consumed, msg, phase, sent>>
  BY <1>6, <1>9
<1> HIDE DEF Once, Read
<1> QED BY <1>1, <1>7, <1>8, <1>9, StepCases

-----------------------------------------------------------------------------
(* Paths of a chain that is no longer than the longest grow to paths.      *)
LEMMA GrowingPaths ==
    ASSUME TypeOK
    PROVE  \A q \in Path : Len(q) + 1 < Len(chain) =>
             /\ Append(q, 1) \in Path
             /\ Append(q, 1) # q /\ Append(q, 1) # Root
             /\ Len(Append(q, 1)) = Len(q) + 1
<1>1. Len(chain) \in Nat /\ Len(chain) <= MaxLength
  BY ChainIsSeq DEF TypeOK, ChainTypeOK
<1>2. \A q \in Path : Len(q) \in Nat
  BY PathIsSeq
<1>3. \A q \in Path : Len(q) + 1 < Len(chain) => Len(q) + 1 < MaxLength
  BY <1>1, <1>2
<1> QED BY <1>3, AppendIsPath

(* What is refused, and what is passed on, depends on the res of the call  *)
(* and on the message only.                                                *)
LEMMA SameVerdict ==
    ASSUME UNCHANGED chain, NEW s \in Request, NEW q \in Path,
           msg'[s] = msg[s], call'[s][q].res = call[s][q].res
    PROVE  /\ Refused(s, q)' <=> Refused(s, q)
           /\ Refusal(s, q)' = Refusal(s, q)
           /\ PassedOn(s, q)' = PassedOn(s, q)
           /\ \A out : Relayed(q, out)' = Relayed(q, out)
<1>1. Middleware(q)' = Middleware(q) /\ (IsLast(q)' <=> IsLast(q))
  BY DEF Middleware, IsLast
<1>2. Refused(s, q)' <=> Refused(s, q)
  BY <1>1 DEF Refused
<1>3. Refusal(s, q)' = Refusal(s, q)
  BY <1>1 DEF Refusal
<1>4. PassedOn(s, q)' = PassedOn(s, q)
  BY <1>1 DEF PassedOn
<1>5. \A out : Relayed(q, out)' = Relayed(q, out)
  BY <1>1 DEF Relayed
<1> QED BY <1>2, <1>3, <1>4, <1>5

(* In a Portable chain nothing refuses with an error of the base class or  *)
(* an empty response.                                                      *)
LEMMA RefusalPortable ==
    ASSUME TypeOK, Portable, NEW r \in Request, NEW p \in Path,
           Len(p) < Len(chain)
    PROVE  Refusal(r, p) \notin {"empty", BaseError}
<1>1. Middleware(p) \notin {"empty", BaseError}
  BY PortableMiddleware
<1> QED BY <1>1 DEF Refusal, BaseError

(* A call that does not change stays explained, if its next has only gone  *)
(* on, keeping its res and what it settled with.                           *)
LEMMA ResultKept ==
    ASSUME TypeOK, UNCHANGED chain, NEW s \in Request, NEW q \in Path,
           msg'[s] = msg[s], call'[s][q] = call[s][q], ResultOK(s, q),
           Len(q) + 1 < Len(chain) =>
             /\ call'[s][Append(q, 1)].at # "none" =>
                  /\ call[s][Append(q, 1)].at # "none"
                  /\ call'[s][Append(q, 1)].res = call[s][Append(q, 1)].res
             /\ call[s][Append(q, 1)].at = "done" =>
                  call'[s][Append(q, 1)] = call[s][Append(q, 1)]
    PROVE  ResultOK(s, q)'
<1>1. /\ Refused(s, q)' <=> Refused(s, q)
      /\ Refusal(s, q)' = Refusal(s, q)
      /\ PassedOn(s, q)' = PassedOn(s, q)
      /\ \A out : Relayed(q, out)' = Relayed(q, out)
  BY SameVerdict
<1>2. ASSUME Len(q) < Len(chain), call'[s][q].at = "done"
      PROVE  Explained(s, q)'
  <2>1. Explained(s, q)
    BY <1>2 DEF ResultOK
  <2>2. CASE Refused(s, q)
    BY <1>1, <2>1, <2>2 DEF Explained
  <2>3. CASE ~Refused(s, q)
    <3>1. /\ call[s][Append(q, 1)].at = "done"
          /\ call[s][q].out = Relayed(q, call[s][Append(q, 1)].out)
      BY <2>1, <2>3 DEF Explained
    <3>2. Len(q) + 1 < Len(chain)
      BY <1>2, <2>3, CallFacts DEF Refused
    <3>3. call'[s][Append(q, 1)] = call[s][Append(q, 1)]
      BY <3>1, <3>2
    <3> QED BY <1>1, <2>3, <3>1, <3>3 DEF Explained
  <2> QED BY <2>2, <2>3
<1>3. ASSUME Len(q) + 1 < Len(chain), call'[s][Append(q, 1)].at # "none"
      PROVE  call'[s][Append(q, 1)].res = PassedOn(s, q)'
  BY <1>1, <1>3 DEF ResultOK
<1>4. call'[s][q].at = "done" => call'[s][q].out \notin {"empty", BaseError}
  BY DEF ResultOK
<1> QED BY <1>2, <1>3, <1>4 DEF ResultOK

(* In a Portable chain a body that can be read can be read where it is.    *)
LEMMA BodyReadable ==
    ASSUME TypeOK, OnceInv, Portable, NEW r \in Request, Comparable(r),
           NEW p \in Path, Len(p) < Len(chain), Middleware(p) = "json",
           msg[r].type = "json", call[r][p].at = "entered"
    PROVE  Readable(r, Via(r), msg[r].body)
<1>1. SUFFICES ASSUME consumed[r] PROVE FALSE
  BY DEF Readable, Comparable, Via
<1>2. PICK q \in Path : /\ Len(q) < Len(chain)
                        /\ Middleware(q) = "json"
                        /\ call[r][q].at \in {"awaiting", "done"}
  BY <1>1 DEF OnceInv
<1>3. Len(p) = Len(q)
  BY <1>2, PortableMiddleware
<1>4. OncePath(p) /\ OncePath(q)
  BY <1>2 DEF OnceInv
<1>5. \A i \in 1 .. Len(p) : p[i] = q[i]
  BY <1>3, <1>4 DEF OncePath
<1>6. p = q
  BY <1>3, <1>5, SamePath
<1> QED BY <1>2, <1>6

(* What settles in a Portable chain does so as ResultInv says.             *)
LEMMA SettlesExplained ==
    ASSUME DispatchInv, UNCHANGED chain, Portable, NEW r \in Request, Comparable(r),
           NEW p \in Path, Moves(r, p), Settles(r, p)
    PROVE  /\ call'[r][p].out \notin {"empty", BaseError}
           /\ Explained(r, p)'
<1>1. TypeOK /\ ShapeInv /\ OnceInv /\ ResultInv
  BY DEF DispatchInv
<1>2. Len(p) < Len(chain) /\ msg' = msg
  BY DEF Moves
<1>3. PICK out \in Outcome : Ends(r, p, out)
  BY DEF Settles
<1>4. /\ call'[r][p] = [at |-> "done", res |-> call[r][p].res, out |-> out]
      /\ OnlyAt(r, {p})
  BY <1>3 DEF Ends
<1>5. /\ Refused(r, p)' <=> Refused(r, p)
      /\ Refusal(r, p)' = Refusal(r, p)
      /\ \A o : Relayed(p, o)' = Relayed(p, o)
  BY <1>2, <1>4, SameVerdict
<1>6. CASE Refused(r, p) /\ out = Refusal(r, p)
  BY <1>1, <1>2, <1>4, <1>5, <1>6, RefusalPortable DEF Explained
<1>7. CASE /\ call[r][p].at = "entered"
           /\ Middleware(p) = "json" /\ msg[r].type = "json"
           /\ ~Readable(r, Via(r), msg[r].body)
  BY <1>1, <1>2, <1>7, BodyReadable
<1>8. CASE /\ call[r][p].at \in {"awaiting", "again"}
           /\ LET next == Append(p, IF call[r][p].at = "again" THEN 2 ELSE 1)
              IN  /\ next \in Path
                  /\ call[r][next].at = "done"
                  /\ out = Relayed(p, call[r][next].out)
  <2> DEFINE n == Append(p, 1)
  <2>1. call[r][p].at # "again"
    BY <1>1 DEF OnceInv
  <2>2. n \in Path /\ call[r][n].at = "done" /\ out = Relayed(p, call[r][n].out)
    BY <1>8, <2>1
  <2>3. ~Refused(r, p) /\ Len(p) + 1 < Len(chain)
    BY <1>1, <1>8 DEF ShapeInv
  <2>4. n # p
    BY <1>1, <2>3, GrowingPaths
  <2>5. call'[r][n] = call[r][n]
    BY <1>4, <2>2, <2>4 DEF OnlyAt
  <2>6. call[r][n].out \notin {"empty", BaseError}
    BY <1>1, <2>2 DEF ResultInv, ResultOK
  <2>7. out \notin {"empty", BaseError}
    BY <2>2, <2>6 DEF Relayed, BaseError
  <2> HIDE DEF n
  <2>8. Explained(r, p)'
    BY <1>4, <1>5, <2>2, <2>3, <2>5 DEF Explained, n
  <2> QED BY <1>4, <2>7, <2>8
<1> QED BY <1>3, <1>6, <1>7, <1>8 DEF Ends

(* Every step of a Portable chain goes as explained.                       *)
LEMMA ResultStepInv ==
    ASSUME DispatchInv, [Next]_vars
    PROVE  ResultInv'
<1>1. TypeOK /\ ShapeInv /\ HandlerInv /\ OnceInv /\ ResultInv
  BY DEF DispatchInv
<1>2. UNCHANGED chain
  BY <1>1, StepCases
<1> DEFINE Good(s) == RootOK(s) /\ \A q \in Path : ResultOK(s, q)
<1>3. SUFFICES ASSUME Portable, NEW s \in Request, Comparable(s)'
               PROVE  Good(s)'
  BY <1>2 DEF ResultInv, Portable
<1>4. ASSUME msg'[s] = msg[s] PROVE Comparable(s) /\ Good(s)
  <2>1. Comparable(s)
    BY <1>3, <1>4 DEF Comparable
  <2> QED BY <1>1, <1>3, <2>1 DEF ResultInv
<1>5. \A q \in Path : Len(q) + 1 < Len(chain) =>
        /\ Append(q, 1) \in Path
        /\ Append(q, 1) # q /\ Append(q, 1) # Root
        /\ Len(Append(q, 1)) = Len(q) + 1
  BY <1>1, GrowingPaths
<1>6. ASSUME \A q \in Path : call'[s][q] = call[s][q], msg'[s] = msg[s]
      PROVE  Good(s)'
  <2>1. RootOK(s)'
    BY <1>2, <1>4, <1>6, RootIsPath DEF RootOK
  <2>2. ASSUME NEW q \in Path PROVE ResultOK(s, q)'
    BY <1>1, <1>2, <1>4, <1>5, <1>6, ResultKept
  <2> QED BY <2>1, <2>2
<1>7. ASSUME NEW r \in Request, Handles(r)
      PROVE  Good(s)'
  <2>1. CASE s # r \/ Concludes(r)
    <3>1. \A q \in Path : call'[s][q] = call[s][q]
      BY <1>7, <2>1 DEF Handles, Accepts, Dismisses, Concludes, OnlyAt
    <3>2. msg'[s] = msg[s]
      BY <1>7, <2>1 DEF Handles, OthersKept, Concludes
    <3> QED BY <1>6, <3>1, <3>2
  <2>2. CASE s = r /\ (Accepts(r) \/ Dismisses(r))
    <3>1. \A q \in Path : call[s][q] = NoCall
      BY <1>1, <2>2 DEF HandlerInv, Handled, Unstarted, Accepts, Dismisses
    <3>2. \A q \in Path : q # Root => call'[s][q].at = "none"
      BY <2>2, <3>1 DEF Accepts, Dismisses, OnlyAt, NoCall
    <3>3. \/ call'[s][Root] = NoCall
          \/ call'[s][Root] = Entered("null")
          \/ /\ chain = <<>>
             /\ call'[s][Root] = [at |-> "done", res |-> "null",
                                  out |-> "RangeError"]
      BY <2>2, <3>1, RootIsPath DEF Accepts, Dismisses
    <3>4. RootOK(s)'
      BY <1>2, <3>3 DEF RootOK, NoCall, Entered
    <3>5. ASSUME NEW q \in Path PROVE ResultOK(s, q)'
      <4>1. Len(q) + 1 < Len(chain) => call'[s][Append(q, 1)].at = "none"
        BY <1>5, <3>2
      <4>2. call'[s][q].at = "done" => /\ chain = <<>> /\ q = Root
                                       /\ call'[s][q].out = "RangeError"
        BY <3>2, <3>3 DEF NoCall, Entered
      <4>3. chain = <<>> => ~(Len(Root) < Len(chain))
        BY RootIsPath
      <4> QED BY <1>2, <4>1, <4>2, <4>3 DEF ResultOK, BaseError
    <3> QED BY <3>4, <3>5
  <2> QED BY <1>7, <2>1, <2>2 DEF Handles
<1>8. ASSUME NEW r \in Request, NEW p \in Path, Moves(r, p)
      PROVE  Good(s)'
  <2>1. /\ call[r][p].at \in {"entered", "awaiting", "again"}
        /\ call'[r][p].at \in {"awaiting", "again", "done"}
        /\ call'[r][p].res = call[r][p].res
        /\ Settles(r, p) \/ Grows(r, p, 1) \/ Grows(r, p, 2)
    BY <1>1, <1>8, MovesFacts
  <2>2. Len(p) < Len(chain) /\ msg' = msg
    BY <1>8 DEF Moves
  <2>3. Comparable(s) /\ Good(s)
    BY <1>4, <2>2
  <2>4. chain # <<>>
    BY <1>1, <2>2, CallFacts
  <2>5. CASE s # r
    <3>1. \A q \in Path : call'[s][q] = call[s][q]
      BY <2>1, <2>5 DEF OnlyAt, Settles, Grows
    <3> QED BY <1>6, <2>2, <3>1
  <2>6. CASE s = r /\ Settles(r, p)
    <3>1. OnlyAt(r, {p}) /\ call'[r][p].at = "done"
      BY <2>6 DEF Settles, Ends
    <3>2. \A q \in Path : q # p => call'[s][q] = call[s][q]
      BY <2>6, <3>1 DEF OnlyAt
    <3>3. call'[s][p].out \notin {"empty", BaseError} /\ Explained(s, p)'
      BY <1>2, <1>3, <1>8, <2>3, <2>6, SettlesExplained
    <3>4. RootOK(s)'
      BY <1>2, <2>1, <2>3, <2>4, <2>6, <3>2, RootIsPath DEF RootOK
    <3>5. ASSUME NEW q \in Path PROVE ResultOK(s, q)'
      <4>1. ResultOK(s, q)
        BY <2>3
      <4>2. Len(q) + 1 < Len(chain) =>
             /\ call'[s][Append(q, 1)].at # "none" =>
                  /\ call[s][Append(q, 1)].at # "none"
                  /\ call'[s][Append(q, 1)].res = call[s][Append(q, 1)].res
             /\ call[s][Append(q, 1)].at = "done" =>
                  call'[s][Append(q, 1)] = call[s][Append(q, 1)]
        BY <1>5, <2>1, <2>6, <3>2
      <4>3. CASE q # p
        BY <1>1, <1>2, <2>2, <3>2, <4>1, <4>2, <4>3, ResultKept
      <4>4. CASE q = p
        <5>1. PassedOn(s, q)' = PassedOn(s, q)
          BY <1>2, <2>1, <2>2, <2>6, <4>4, SameVerdict
        <5>2. Len(q) + 1 < Len(chain) /\ call'[s][Append(q, 1)].at # "none" =>
                call'[s][Append(q, 1)].res = PassedOn(s, q)'
          BY <4>1, <4>2, <5>1 DEF ResultOK
        <5> QED BY <1>2, <3>3, <4>4, <5>2 DEF ResultOK
      <4> QED BY <4>3, <4>4
    <3> QED BY <3>4, <3>5
  <2>7. ASSUME NEW k \in {1, 2}, s = r, Grows(r, p, k)
        PROVE  Good(s)'
    <3> DEFINE n == Append(p, 1)
    <3>1. /\ k = 1
          /\ call[r][p].at = "entered"
          /\ call'[r][p].at \in {"awaiting", "done"}
          /\ Len(p) + 1 < Len(chain)
      BY <1>1, <1>3, <1>8, <2>7, PortableGrows
    <3>2. /\ n \in Path /\ n # p /\ n # Root
          /\ call'[r][n] = Entered(PassedOn(r, p))
          /\ OnlyAt(r, {p, n})
      BY <2>7, <3>1 DEF Grows, Calls
    <3>3. \A q \in Path : q # p /\ q # n => call'[s][q] = call[s][q]
      BY <2>7, <3>2 DEF OnlyAt
    <3>4. \A q \in Path : Len(q) + 1 < Len(chain) =>
           \/ call[s][Append(q, 1)].at = "none"
           \/ call[s][q].at \in {"awaiting", "done"}
      BY <1>1, <1>3 DEF OnceInv
    <3>5. call[s][n].at = "none"
      BY <2>7, <3>1, <3>4
    <3>6. call'[r][p].at = "done" =>
            /\ Middleware(p) \in Unawaited
            /\ call'[r][p].out = Refusal(r, p)
      BY <2>7, <3>1 DEF Grows, Calls
    <3>7. /\ Refused(s, p)' <=> Refused(s, p)
          /\ Refusal(s, p)' = Refusal(s, p)
          /\ PassedOn(s, p)' = PassedOn(s, p)
      BY <1>2, <2>1, <2>2, <2>7, SameVerdict
    <3>8. RootOK(s)'
      BY <1>2, <2>1, <2>3, <2>4, <2>7, <3>2, <3>3, RootIsPath DEF RootOK
    <3>9. ASSUME NEW q \in Path PROVE ResultOK(s, q)'
      <4>1. ResultOK(s, q)
        BY <2>3
      <4>2. CASE q = p
        <5>1. call'[s][q].at = "done" => Explained(s, q)'
          BY <2>7, <3>6, <3>7, <4>2 DEF Explained, Refused
        <5>2. call'[s][q].at = "done" =>
                call'[s][q].out \notin {"empty", BaseError}
          BY <1>1, <1>3, <2>2, <2>7, <3>6, <4>2, RefusalPortable
        <5>3. call'[s][n].res = PassedOn(s, q)'
          BY <2>7, <3>2, <3>7, <4>2 DEF Entered
        <5> QED BY <1>2, <4>2, <5>1, <5>2, <5>3 DEF ResultOK
      <4>3. CASE q = n
        <5>1. call'[s][q].at = "entered"
          BY <2>7, <3>2, <4>3 DEF Entered
        <5>2. ASSUME Len(q) + 1 < Len(chain)
              PROVE  call'[s][Append(q, 1)].at = "none"
          <6>1. call[s][Append(q, 1)].at = "none"
            BY <3>4, <3>5, <4>3, <5>2
          <6>2. Append(q, 1) # p /\ Append(q, 1) # n
            BY <2>1, <1>5, <2>7, <4>3, <5>2, <6>1
          <6> QED BY <1>5, <3>3, <5>2, <6>1, <6>2
        <5> QED BY <1>2, <5>1, <5>2 DEF ResultOK
      <4>4. CASE q # p /\ q # n
        <5>1. ASSUME Len(q) + 1 < Len(chain)
              PROVE  /\ call'[s][Append(q, 1)].at # "none" =>
                          /\ call[s][Append(q, 1)].at # "none"
                          /\ call'[s][Append(q, 1)].res = call[s][Append(q, 1)].res
                     /\ call[s][Append(q, 1)].at = "done" =>
                          call'[s][Append(q, 1)] = call[s][Append(q, 1)]
          <6>1. Append(q, 1) \in Path
            BY <1>5, <5>1
          <6>2. Append(q, 1) # n
            BY <3>2, <4>4, AppendInjective1
          <6> QED BY <2>1, <2>7, <3>3, <6>1, <6>2
        <5> QED BY <1>1, <1>2, <2>2, <3>3, <4>1, <4>4, <5>1, ResultKept
      <4> QED BY <4>2, <4>3, <4>4
    <3> QED BY <3>8, <3>9
  <2> HIDE DEF Good
  <2> QED BY <2>1, <2>5, <2>6, <2>7
<1>9. CASE UNCHANGED <<call, consumed, msg, phase, sent>>
  BY <1>6, <1>9
<1> HIDE DEF Good
<1> QED BY <1>1, <1>7, <1>8, <1>9, StepCases

-----------------------------------------------------------------------------
(* A move of one of two alike requests keeps them in agreement.            *)
LEMMA MoveAgrees ==
    ASSUME DispatchInv, [Next]_vars, Portable, NEW s \in Request, NEW t \in Request,
           s # t, Alike(s, t), NEW p \in Path, Moves(s, p), NEW q \in Path
    PROVE  Agree(s, t, q)'
<1>1. TypeOK /\ ShapeInv /\ OnceInv /\ ResultInv /\ AlikeInv
  BY DEF DispatchInv
<1>2. UNCHANGED chain
  BY <1>1, StepCases
<1>3. /\ call[s][p].at \in {"entered", "awaiting", "again"}
      /\ call'[s][p].at \in {"awaiting", "again", "done"}
      /\ call'[s][p].res = call[s][p].res
      /\ Settles(s, p) \/ Grows(s, p, 1) \/ Grows(s, p, 2)
  BY <1>1, MovesFacts
<1>4. Len(p) < Len(chain) /\ msg' = msg
  BY DEF Moves
<1>5. \A o \in Path : call'[t][o] = call[t][o]
  BY <1>3 DEF OnlyAt, Settles, Grows
<1>6. \A o \in Path : Agree(s, t, o)
  BY <1>1 DEF AlikeInv
<1>7. /\ Comparable(s) /\ Comparable(t)
      /\ msg[s].type = msg[t].type /\ msg[s].body = msg[t].body
  BY DEF Alike, Comparable
<1>8. /\ \A o \in Path : ResultOK(s, o)' /\ ResultOK(t, o)'
      /\ \A o \in Path : Len(o) + 1 < Len(chain) =>
           \/ call'[t][Append(o, 1)].at = "none"
           \/ call'[t][o].at \in {"awaiting", "done"}
  <2>1. ResultInv' /\ OnceInv'
    BY ResultStepInv, OnceStepInv
  <2>2. Portable' /\ Comparable(s)' /\ Comparable(t)'
    BY <1>2, <1>4, <1>7 DEF Portable, Comparable
  <2> QED BY <1>2, <2>1, <2>2 DEF ResultInv, OnceInv
<1>9. CASE call'[s][q] = call[s][q]
  BY <1>5, <1>6, <1>9 DEF Agree
<1>10. CASE q = p
  <2>1. call'[s][q].at # "none" /\ call'[t][q].at # "none" =>
          call'[s][q].res = call'[t][q].res
    BY <1>3, <1>5, <1>6, <1>10 DEF Agree
  <2>2. ASSUME call'[s][q].at = "done", call'[t][q].at = "done"
        PROVE  call'[s][q].out = call'[t][q].out
    <3>1. Explained(s, q)' /\ Explained(t, q)'
      BY <1>2, <1>4, <1>8, <1>10, <2>2 DEF ResultOK
    <3>2. ASSUME /\ call'[s][Append(q, 1)].at = "done"
                 /\ call'[t][Append(q, 1)].at = "done"
                 /\ ~Refused(s, q)'
          PROVE  call'[s][Append(q, 1)].out = call'[t][Append(q, 1)].out
      <4>1. ~IsLast(q)
        BY <1>2, <3>2 DEF Refused, IsLast
      <4>2. Len(q) + 1 < Len(chain)
        BY <1>1, <1>4, <1>10, <4>1, CallFacts
      <4>3. Append(q, 1) \in Path /\ Append(q, 1) # q
        BY <1>1, <4>2, GrowingPaths
      <4>4. CASE Settles(s, p)
        <5>1. call'[s][Append(q, 1)] = call[s][Append(q, 1)]
          BY <1>10, <4>3, <4>4 DEF Settles, OnlyAt
        <5> QED BY <1>5, <1>6, <3>2, <4>3, <5>1 DEF Agree
      <4>5. ASSUME NEW k \in {1, 2}, Grows(s, p, k) PROVE FALSE
        <5>1. k = 1
          BY <1>1, <4>5, PortableGrows
        <5>2. call'[s][Append(q, 1)].at = "entered"
          BY <1>10, <4>5, <5>1 DEF Grows, Calls, Entered
        <5> QED BY <3>2, <5>2
      <4> QED BY <1>3, <4>4, <4>5
    <3>3. msg'[s].type = msg'[t].type
      BY <1>4, <1>7
    <3>4. call'[s][q].res = call'[t][q].res
      BY <2>1, <2>2
    <3>5. Refused(s, q)' <=> Refused(t, q)'
      BY <3>3, <3>4 DEF Refused
    <3>6. Refusal(s, q)' = Refusal(t, q)'
      BY <3>3, <3>4 DEF Refusal
    <3> QED BY <3>1, <3>2, <3>5, <3>6 DEF Explained
  <2> QED BY <2>1, <2>2 DEF Agree
<1>11. ASSUME NEW k \in {1, 2}, Grows(s, p, k), q = Append(p, k)
       PROVE  Agree(s, t, q)'
  <2>1. /\ k = 1
        /\ call[s][p].at = "entered"
        /\ Len(p) + 1 < Len(chain)
    BY <1>1, <1>11, PortableGrows
  <2>2. call'[s][q].at = "entered"
    BY <1>11 DEF Grows, Calls, Entered
  <2>3. ASSUME call'[t][q].at # "none"
        PROVE  call'[s][q].res = call'[t][q].res
    <3>1. call'[t][p].at \in {"awaiting", "done"}
      BY <1>8, <1>11, <2>1, <2>3
    <3>2. call'[s][p].res = call'[t][p].res
      BY <1>3, <1>5, <1>6, <3>1 DEF Agree
    <3>3. /\ call'[s][q].res = PassedOn(s, p)'
          /\ call'[t][q].res = PassedOn(t, p)'
      BY <1>2, <1>8, <1>11, <2>1, <2>2, <2>3 DEF ResultOK
    <3>4. msg'[s].type = msg'[t].type /\ msg'[s].body = msg'[t].body
      BY <1>4, <1>7
    <3>5. PassedOn(s, p)' = PassedOn(t, p)'
      BY <3>2, <3>4 DEF PassedOn
    <3> QED BY <3>3, <3>5
  <2> QED BY <2>2, <2>3 DEF Agree
<1> QED BY <1>3, <1>9, <1>10, <1>11 DEF Settles, Grows, OnlyAt

(* No step brings alike requests out of agreement.                         *)
LEMMA AlikeStepInv ==
    ASSUME DispatchInv, [Next]_vars
    PROVE  AlikeInv'
<1>1. TypeOK /\ ShapeInv /\ HandlerInv /\ OnceInv /\ ResultInv /\ AlikeInv
  BY DEF DispatchInv
<1>2. UNCHANGED chain
  BY <1>1, StepCases
<1>3. SUFFICES ASSUME Portable, NEW s \in Request, NEW t \in Request, s # t,
                      Alike(s, t)', NEW q \in Path
               PROVE  Agree(s, t, q)'
  <2>1. \A s \in Request, q \in Path : Agree(s, s, q)'
    BY DEF Agree
  <2> QED BY <1>2, <2>1 DEF AlikeInv, Portable
<1>4. ASSUME msg'[s] = msg[s], msg'[t] = msg[t]
      PROVE  Alike(s, t) /\ Alike(t, s) /\ Agree(s, t, q)
  <2>1. Alike(s, t) /\ Alike(t, s)
    BY <1>3, <1>4 DEF Alike, Comparable
  <2> QED BY <1>1, <1>3, <2>1 DEF AlikeInv
<1>5. ASSUME call'[s][q] = call[s][q], call'[t][q] = call[t][q],
             msg'[s] = msg[s], msg'[t] = msg[t]
      PROVE  Agree(s, t, q)'
  BY <1>4, <1>5 DEF Agree
<1>6. ASSUME NEW r \in Request, Handles(r)
      PROVE  Agree(s, t, q)'
  <2>1. RootOK(s)' /\ RootOK(t)'
    <3>1. ResultInv'
      BY ResultStepInv
    <3>2. Portable' /\ Comparable(s)' /\ Comparable(t)'
      BY <1>2, <1>3 DEF Portable, Alike, Comparable
    <3> QED BY <3>1, <3>2 DEF ResultInv
  <2>2. ASSUME NEW o \in Request
        PROVE  \/ call'[o][q] = call[o][q] /\ msg'[o] = msg[o]
               \/ call'[o][q].at = "none"
               \/ q = Root /\ (call'[o][q].at = "done" => chain = <<>>)
    BY <1>1, <1>2, <1>6, HandlesCalls DEF NoCall, Entered
  <2>3. CASE q = Root /\ ~(call'[s][q] = call[s][q] /\ msg'[s] = msg[s])
    BY <1>2, <2>1, <2>2, <2>3 DEF RootOK, Agree
  <2>4. CASE q = Root /\ ~(call'[t][q] = call[t][q] /\ msg'[t] = msg[t])
    BY <1>2, <2>1, <2>2, <2>4 DEF RootOK, Agree
  <2>5. CASE call'[s][q].at = "none" \/ call'[t][q].at = "none"
    BY <2>5 DEF Agree
  <2> QED BY <1>3, <1>5, <2>2, <2>3, <2>4, <2>5
<1>7. ASSUME NEW r \in Request, NEW p \in Path, Moves(r, p)
      PROVE  Agree(s, t, q)'
  <2>1. msg' = msg
    BY <1>7 DEF Moves
  <2>2. Alike(s, t) /\ Alike(t, s)
    BY <1>4, <2>1
  <2>3. CASE r = s
    BY <1>3, <1>7, <2>2, <2>3, MoveAgrees
  <2>4. CASE r = t
    <3>1. Agree(t, s, q)'
      BY <1>3, <1>7, <2>2, <2>4, MoveAgrees
    <3> QED BY <3>1 DEF Agree
  <2>5. CASE r # s /\ r # t
    <3>1. call'[s][q] = call[s][q] /\ call'[t][q] = call[t][q]
      BY <1>1, <1>7, <2>5, MovesFacts DEF OnlyAt, Settles, Grows
    <3> QED BY <1>5, <2>1, <3>1
  <2> QED BY <2>3, <2>4, <2>5
<1>8. CASE UNCHANGED <<call, consumed, msg, phase, sent>>
  BY <1>5, <1>8
<1> QED BY <1>1, <1>6, <1>7, <1>8, StepCases

-----------------------------------------------------------------------------
(* Every reachable state satisfies the invariant.                          *)
LEMMA DispatchInvHolds == Spec => []DispatchInv
<1>1. Init => DispatchInv
  <2> SUFFICES ASSUME Init PROVE DispatchInv
    OBVIOUS
  <2>1. NoCall \in Call /\ NoMessage \in Message
    BY DEF NoCall, Call, Data, Outcome, NoMessage, Message, MessageKind,
           ContentType, Body
  <2>2. TypeOK
    <3>1. call \in [Request -> [Path -> Call]] /\ consumed \in [Request -> BOOLEAN]
      BY <2>1 DEF Init, ChainInit
    <3>2. phase \in [Request -> Phase] /\ msg \in [Request -> Message]
      BY <2>1 DEF Init, Phase
    <3>3. sent \in [Request -> Seq(Answer)]
      <4>1. <<>> \in Seq(Answer)
        BY EmptySeq
      <4> QED BY <4>1 DEF Init
    <3>4. chain \in Chains /\ current \in Connection
      BY DEF Init, ChainInit, Connection
    <3> QED BY <3>1, <3>2, <3>3, <3>4 DEF TypeOK, ChainTypeOK
  <2>3. /\ \A r \in Request, p \in Path : call[r][p] = NoCall
        /\ \A r \in Request : /\ ~consumed[r]
                              /\ phase[r] = "idle"
                              /\ sent[r] = <<>>
                              /\ msg[r] = NoMessage
    BY DEF Init, ChainInit
  <2>4. /\ NoCall.at = "none" /\ NoCall.res = "null"
        /\ NoMessage.on = Http
    BY DEF NoCall, NoMessage
  <2>5. HandlerInv
    BY <2>3, <2>4 DEF HandlerInv, Handled, Unstarted
  <2>6. ShapeInv /\ DataInv /\ WaitInv
    BY <2>3, <2>4 DEF ShapeInv, DataInv, WaitInv
  <2>7. OnceInv
    BY <2>2, <2>3, <2>4, GrowingPaths DEF OnceInv
  <2>8. ResultInv
    <3>1. \A r \in Request : RootOK(r)
      BY <2>3, <2>4, RootIsPath DEF RootOK
    <3>2. \A r \in Request, p \in Path : ResultOK(r, p)
      BY <2>2, <2>3, <2>4, GrowingPaths DEF ResultOK
    <3> QED BY <3>1, <3>2 DEF ResultInv
  <2>9. AlikeInv
    BY <2>3, <2>4 DEF AlikeInv, Agree
  <2> QED BY <2>2, <2>5, <2>6, <2>7, <2>8, <2>9 DEF DispatchInv
<1>2. DispatchInv /\ [Next]_vars => DispatchInv'
  <2> SUFFICES ASSUME DispatchInv, [Next]_vars PROVE DispatchInv'
    OBVIOUS
  <2>1. TypeOK'
    BY StepCases DEF DispatchInv
  <2>2. ShapeInv' /\ HandlerInv' /\ DataInv'
    BY ShapeStepInv, HandlerStepInv, DataStepInv
  <2>3. WaitInv' /\ OnceInv' /\ ResultInv' /\ AlikeInv'
    BY WaitStepInv, OnceStepInv, ResultStepInv, AlikeStepInv
  <2> QED BY <2>1, <2>2, <2>3 DEF DispatchInv
<1> QED BY <1>1, <1>2, PTL DEF Spec

(* Every variable keeps its type, for any chains: no answer has a status   *)
(* that errors.ts and the responses do not have (MessageDispatch.TypeOK).  *)
THEOREM DispatchTypeCorrect == Spec => []TypeOK
<1>1. DispatchInv => TypeOK
  BY DEF DispatchInv
<1> QED BY <1>1, DispatchInvHolds, PTL

(* One answer for a message, to the connection it came from, whatever its  *)
(* chain does; and none only for null and the base class.                  *)
THEOREM EveryAnswerOnce == Spec => []AnsweredOnce
<1>1. DispatchInv => AnsweredOnce
  <2> SUFFICES ASSUME DispatchInv, NEW r \in Request
               PROVE  /\ Len(sent[r]) = IF phase[r] = "answered" THEN 1 ELSE 0
                      /\ \A i \in DOMAIN sent[r] : sent[r][i].to = msg[r].on
                      /\ phase[r] = "rejected" =>
                           \/ msg[r].kind = "null"
                           \/ call[r][Root].out = BaseError
    BY DEF AnsweredOnce
  <2>1. Handled(r) /\ phase[r] \in Phase
    BY DEF DispatchInv, HandlerInv, TypeOK
  <2>2. CASE phase[r] = "answered"
    <3>1. PICK status \in Status :
            sent[r] = <<[status |-> status, to |-> msg[r].on]>>
      BY <2>1, <2>2 DEF Handled
    <3>2. Len(sent[r]) = 1 /\ DOMAIN sent[r] = {1} /\ sent[r][1].to = msg[r].on
      BY <3>1
    <3> QED BY <2>2, <3>2
  <2>3. CASE phase[r] # "answered"
    <3>1. sent[r] = <<>>
      BY <2>1, <2>3 DEF Handled, Phase
    <3> QED BY <2>1, <2>3, <3>1 DEF Handled
  <2> QED BY <2>2, <2>3
<1> QED BY <1>1, DispatchInvHolds, PTL

(* Behind a validateSchemas a middleware only runs with a body that was    *)
(* parsed and that the schema accepts, in every chain.                     *)
THEOREM OnlyValidBodies == Spec => []ValidatedBody
<1>1. DispatchInv => ValidatedBody
  BY DEF DispatchInv, DataInv, DataOK, ValidatedBody
<1> QED BY <1>1, DispatchInvHolds, PTL

(* Nothing of an answered request's chain still runs, in every chain whose *)
(* middleware wait for the rest: a call that runs is waited for by every   *)
(* call above it, up to the root.                                          *)
THEOREM NothingLeftRunning == Spec => []NothingRunsOn
<1>1. DispatchInv => NothingRunsOn
  <2> SUFFICES ASSUME DispatchInv, NEW r \in Request,
                      phase[r] \in {"answered", "rejected"}, AllAwait,
                      NEW p \in Path, call[r][p].at \notin {"none", "done"}
               PROVE  FALSE
    BY DEF NothingRunsOn, AllAwait
  <2>1. call[r][Root].at \in {"none", "done"}
    <3>1. Handled(r)
      BY DEF DispatchInv, HandlerInv
    <3>2. Unstarted(r) \/ call[r][Root].at = "done"
      BY <3>1 DEF Handled
    <3> QED BY <3>2, RootIsPath DEF Unstarted, NoCall
  <2>2. p # Root
    BY <2>1
  <2>3. Above(Root, p)
    <3>1. Len(p) \in Nat /\ p \in Seq({1, 2})
      BY PathIsSeq
    <3>2. Len(p) # 0
      BY <2>2, <3>1, RootIsPath, SamePath
    <3> QED BY <3>1, <3>2, RootIsPath DEF Above
  <2> QED BY <2>1, <2>3, RootIsPath DEF DispatchInv, WaitInv
<1> QED BY <1>1, DispatchInvHolds, PTL

(* A message without a route is answered with the status of its error.     *)
UnroutedAnswer(r, status) ==
  /\ sent[r] = <<[status |-> status, to |-> msg[r].on]>>
  /\ msg[r].kind = "noRoute" => status = 404
  /\ msg[r].kind = "noMethod" => status = 405

(* Every answered message has an answer like that.                         *)
LEMMA UnroutedStatus ==
    ASSUME NEW r \in Request, Handled(r), phase[r] = "answered",
           msg[r].kind # "route"
    PROVE  \E status \in Status : UnroutedAnswer(r, status)
<1>1. PICK status \in Status :
        /\ sent[r] = <<[status |-> status, to |-> msg[r].on]>>
        /\ \/ /\ msg[r].kind = "route"
              /\ call[r][Root].at = "done"
              /\ status = AnswerStatus(call[r][Root].out, msg[r].on)
           \/ /\ msg[r].kind # "route"
              /\ Unstarted(r)
              /\ msg[r].kind = "noRoute" => status = 404
              /\ msg[r].kind = "noMethod" => status = 405
  BY DEF Handled
<1>2. UnroutedAnswer(r, status)
  BY <1>1 DEF UnroutedAnswer
<1> QED BY <1>2

(* The same request has the same answer over HTTP and over a socket, in    *)
(* every Portable chain.                                                   *)
THEOREM TransportsAnswerAlike == Spec => []TransportsAgree
<1>1. DispatchInv => TransportsAgree
  <2> SUFFICES ASSUME DispatchInv, Portable, NEW r \in Request, NEW s \in Request,
                      SameMessage(r, s),
                      {phase[r], phase[s]} \subseteq {"answered", "rejected"}
               PROVE  /\ phase[r] = phase[s]
                      /\ \A i \in DOMAIN sent[r] \cap DOMAIN sent[s] :
                           sent[r][i].status = sent[s][i].status
    BY DEF TransportsAgree, AnsweredAlike
  <2>1. /\ Handled(r) /\ Handled(s)
        /\ TypeOK /\ ResultInv /\ AlikeInv
    BY DEF DispatchInv, HandlerInv
  <2>2. /\ msg[r].on = Http /\ msg[s].on # Http
        /\ msg[r].kind = msg[s].kind
        /\ msg[r].kind \in {"route", "noRoute", "noMethod"}
    BY DEF SameMessage, Via, RequestKind
  <2>3. msg[s].body # "bad"
    BY <2>1, <2>2 DEF Handled
  <2>4. Alike(r, s) /\ Comparable(s)
    <3>1. msg[s].body \in {"none", "bad", "unfit", "good"}
      BY <2>1 DEF TypeOK, Message, Body
    <3> QED BY <2>3, <3>1 DEF Alike, Comparable, SameMessage
  <2>5. CASE msg[r].kind = "route"
    <3>1. call[r][Root].at = "done" /\ call[s][Root].at = "done"
      BY <2>1, <2>2, <2>5 DEF Handled
    <3>2. call[r][Root].out = call[s][Root].out
      BY <2>1, <2>4, <3>1, RootIsPath DEF AlikeInv, Agree
    <3>3. call[r][Root].out \notin {"empty", BaseError}
      BY <2>1, <2>4, <3>1, RootIsPath DEF ResultInv, ResultOK, Alike
    <3>4. phase[r] = "answered" /\ phase[s] = "answered"
      BY <2>1, <2>2, <2>5, <3>2, <3>3 DEF Handled
    <3>5. AnswerStatus(call[r][Root].out, msg[r].on)
            = AnswerStatus(call[s][Root].out, msg[s].on)
      BY <3>2, <3>3 DEF AnswerStatus
    <3>6. /\ \E status \in Status :
               /\ sent[r] = <<[status |-> status, to |-> msg[r].on]>>
               /\ status = AnswerStatus(call[r][Root].out, msg[r].on)
          /\ \E status \in Status :
               /\ sent[s] = <<[status |-> status, to |-> msg[s].on]>>
               /\ status = AnswerStatus(call[s][Root].out, msg[s].on)
      BY <2>1, <2>2, <2>5, <3>4 DEF Handled
    <3> QED BY <3>4, <3>5, <3>6
  <2>6. CASE msg[r].kind # "route"
    <3>1. phase[r] = "answered" /\ phase[s] = "answered"
      BY <2>1, <2>2, <2>6 DEF Handled
    <3>2. PICK a \in Status : UnroutedAnswer(r, a)
      BY <2>1, <2>6, <3>1, UnroutedStatus
    <3>3. PICK b \in Status : UnroutedAnswer(s, b)
      BY <2>1, <2>2, <2>6, <3>1, UnroutedStatus
    <3>4. a = b
      BY <2>2, <2>6, <3>2, <3>3 DEF UnroutedAnswer
    <3> QED BY <3>1, <3>2, <3>3, <3>4 DEF UnroutedAnswer
  <2> QED BY <2>5, <2>6
<1> QED BY <1>1, DispatchInvHolds, PTL
=============================================================================
