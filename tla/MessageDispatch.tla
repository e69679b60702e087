--------------------------- MODULE MessageDispatch ---------------------------
(***************************************************************************)
(* Requests over both transports: the message callback of the socket       *)
(* server (socket.ts 493-529) with what it calls, and the HTTP handlers    *)
(* that buildModuleRoutes and buildServer give to Bun (index.ts 154-172,   *)
(* 379-393, 468-480).  Several requests are under way at a time, each in   *)
(* its chain, while the connection of the client that sends them is lost   *)
(* and replaced by another.                                                *)
(***************************************************************************)
EXTENDS MiddlewareChain

CONSTANT MaxConnections   \* bound: connections of the client, one after another

ASSUME ConnectionAssumption == MaxConnections \in Nat \ {0}

Http == 0                 \* where the answer to an HTTP request goes
Connection == 1 .. MaxConnections

(***************************************************************************)
(* What arrives.  Over a socket: text that is not JSON ("garbage"), JSON   *)
(* that is null, JSON that the schemas of messages.ts refuse ("invalid"),  *)
(* a heartbeat, or a request.  A request names a route that exists, one    *)
(* that does not ("noRoute") or one without that method ("noMethod");      *)
(* "badHeaders" names one that does, with headers no Headers can hold.     *)
(***************************************************************************)
RequestKind == {"route", "noRoute", "noMethod"}
MessageKind ==
  {"garbage", "null", "invalid", "heartbeat", "badHeaders"} \cup RequestKind

Message == [kind : MessageKind, on : Connection \cup {Http},
            type : ContentType, body : Body]

NoMessage == [kind |-> "garbage", on |-> Http, type |-> "none", body |-> "none"]

\* an answer: its status, and the connection it is written to.  A heartbeat's
\* acknowledgement has no status: 0 stands for it.
Status == {Responses[o] : o \in Response} \cup
          {ErrorStatus[e] : e \in StatusErrors} \cup {0}
Answer == [status : Status, to : Connection \cup {Http}]

VARIABLES
  msg,       \* msg[r]: what arrived as r
  phase,     \* phase[r]: how far its handler is
  sent,      \* sent[r]: the answers written for it
  current    \* the client's newest connection

vars == <<chain, call, consumed, msg, phase, sent, current>>

\* "ignored": returned without an answer; "rejected": the handler threw, and of
\* its own accord gives no answer (Bun answers an HTTP request itself then)
Phase == {"idle", "chain", "answered", "ignored", "rejected"}

\* Type correctness, of the chains under way as well (MiddlewareChain).
TypeOK ==
  /\ ChainTypeOK
  /\ msg \in [Request -> Message]
  /\ phase \in [Request -> Phase]
  /\ sent \in [Request -> Seq(Answer)]
  /\ current \in Connection

Init ==
  /\ ChainInit
  /\ msg = [r \in Request |-> NoMessage]
  /\ phase = [r \in Request |-> "idle"]
  /\ sent = [r \in Request |-> <<>>]
  /\ current = 1

Via(r) == IF msg[r].on = Http THEN "http" ELSE "socket"

-----------------------------------------------------------------------------
(***************************************************************************)
(* buildErrorMessage and the error handler of Bun.serve: an error of the   *)
(* package is answered with the status of its class, any other with 500.   *)
(* The base class has no status, and asking for it throws again.  (So does *)
(* the text of an UnprocessableContentError made without its list of       *)
(* errors, errors.ts 273-275, which the types do not allow.)               *)
(***************************************************************************)
Normalized(e) == IF e \in StatusErrors \cup {BaseError} THEN e
                                                        ELSE "InternalServerError"

Write(r, status, on) ==
  /\ sent' = [sent EXCEPT ![r] = Append(@, [status |-> status, to |-> on])]
  /\ phase' = [phase EXCEPT ![r] = "answered"]

AnswerError(r, e, on) ==
  IF Normalized(e) = BaseError
  THEN /\ phase' = [phase EXCEPT ![r] = "rejected"]
       /\ UNCHANGED sent
  ELSE Write(r, ErrorStatus[Normalized(e)], on)

(***************************************************************************)
(* buildOutgoingMessage: a body that is said to be JSON is parsed to go    *)
(* into the message; that of "empty" is not JSON, and the SyntaxError is   *)
(* caught like an error of the chain.                                      *)
(***************************************************************************)
AnswerOutcome(r, out, on) ==
  IF out = "empty" /\ on # Http THEN AnswerError(r, "SyntaxError", on)
  ELSE IF out \in Response THEN Write(r, Responses[out], on)
  ELSE AnswerError(r, out, on)

-----------------------------------------------------------------------------
Begin(r) ==
  /\ StartChain(r)
  /\ phase' = [phase EXCEPT ![r] = "chain"]
  /\ UNCHANGED sent

Arrives(r, kind, on, type, body) ==
  /\ phase[r] = "idle"
  /\ \A q \in 1 .. r - 1 : phase[q] # "idle"
  /\ msg' = [msg EXCEPT ![r] = [kind |-> kind, on |-> on,
                                type |-> type, body |-> body]]
  /\ UNCHANGED <<chain, consumed, current>>

\* Requests that reach an endpoint, over HTTP or over the newest socket.  The
\* body is of interest only if it is said to be JSON; what a socket carries as
\* one always is.
HttpRequest(r) ==
  \E type \in ContentType, body \in Body :
    /\ type # "json" => body = "none"
    /\ Arrives(r, "route", Http, type, body)
    /\ Begin(r)

SocketRequest(r) ==
  \E type \in ContentType, body \in Body \ {"bad"} :
    /\ type # "json" => body = "none"
    /\ Arrives(r, "route", current, type, body)
    /\ Begin(r)

FaultyUnrouted(r) ==
  \E kind \in {"noRoute", "noMethod"}, on \in {Http, current} :
    /\ Arrives(r, kind, on, "none", "none")
    /\ AnswerError(r, IF kind = "noRoute" \/ on # Http
                      THEN "NotFoundError" ELSE "MethodNotAllowedError", on)
    /\ UNCHANGED call

\* Requests that do not: the fallback of Bun.serve throws NotFoundError, the
\* default handlers of a path MethodNotAllowedError, and matchRoute does both.
Unrouted(r) ==
  \E kind \in {"noRoute", "noMethod"}, on \in {Http, current} :
    /\ Arrives(r, kind, on, "none", "none")
    /\ AnswerError(r, IF kind = "noRoute" THEN "NotFoundError"
                                          ELSE "MethodNotAllowedError", on)
    /\ UNCHANGED call

\* Messages that are not requests.
OtherMessage(r) ==
  \E kind \in MessageKind \ RequestKind :
    /\ Arrives(r, kind, current, "none", "none")
    /\ \/ /\ kind = "garbage"
          /\ phase' = [phase EXCEPT ![r] = "ignored"]
          /\ UNCHANGED sent
       \/ /\ kind = "null"         \* buildErrorMessage reads the id of null
          /\ phase' = [phase EXCEPT ![r] = "rejected"]
          /\ UNCHANGED sent
       \/ kind = "invalid" /\ AnswerError(r, "UnprocessableContentError", current)
       \/ kind = "badHeaders" /\ AnswerError(r, "TypeError", current)
       \/ kind = "heartbeat" /\ Write(r, 0, current)
    /\ UNCHANGED call

FaultyFinish(r) ==
  /\ phase[r] = "chain"
  /\ call[r][Root].at = "done"
  /\ AnswerOutcome(r, call[r][Root].out, IF msg[r].on = Http THEN Http ELSE current)
  /\ UNCHANGED <<chain, call, consumed, msg, current>>

\* The handler goes on when its chain has settled.
Finish(r) ==
  /\ phase[r] = "chain"
  /\ call[r][Root].at = "done"
  /\ AnswerOutcome(r, call[r][Root].out, msg[r].on)
  /\ UNCHANGED <<chain, call, consumed, msg, current>>

-----------------------------------------------------------------------------
(***************************************************************************)
(* The client's connection is lost or superseded, and the client connects  *)
(* again (socket.ts 434-492, see SocketServer).  Handlers under way keep   *)
(* the old one, and what they write to it is lost.                         *)
(***************************************************************************)
Reconnect ==
  /\ current < MaxConnections
  /\ current' = current + 1
  /\ UNCHANGED <<chain, call, consumed, msg, phase, sent>>

\* what runs when an application's own code does
AppBehaviour == Behaviour \ {"json", "schema"}

\* a step of the package's own code in the call at p of r's chain
PackageStep(r, p) ==
  \/ ParseJsonBody(r, p, Via(r), msg[r].type, msg[r].body)
  \/ ValidateSchemas(r, p)
  \/ Return(r, p)

\* a step of the application's
AppStep(r, p) ==
  \/ Forward(r, p)
  \/ ForwardBeside(r, p)
  \/ EndChain(r, p)

ChainStep(r, p) ==
  /\ p \in Path /\ Len(p) < Len(chain)
  /\ PackageStep(r, p) \/ AppStep(r, p)
  /\ UNCHANGED <<msg, phase, sent, current>>

Next ==
  \/ \E r \in Request : \/ HttpRequest(r)
                        \/ SocketRequest(r)
                        \/ Unrouted(r)
                        \/ OtherMessage(r)
                        \/ Finish(r)
                        \/ \E p \in Path : ChainStep(r, p)
  \/ Reconnect

(***************************************************************************)
(* Fairness of the event loop only: promises that settled are continued.   *)
(* Whether and when a middleware of the application ends is its own        *)
(* affair.                                                                 *)
(***************************************************************************)
Continue(r) ==
  \/ Finish(r)
  \/ \E p \in Path : PackageStep(r, p) /\ ChainStep(r, p)

Fairness == \A r \in Request : WF_vars(Continue(r))

Spec == Init /\ [][Next]_vars /\ Fairness

-----------------------------------------------------------------------------
\* One answer is written for a message, to the connection it came from,
\* however its chain ends and whatever parts of it or the connection do
\* afterwards; and a handler gives up without an answer in two cases only: for
\* the message null, and for an error of the base class (socket.ts 377-394 and
\* 493-529, index.ts 471-479, errors.ts 11).
AnsweredOnce ==
  \A r \in Request :
    /\ Len(sent[r]) = IF phase[r] = "answered" THEN 1 ELSE 0
    /\ \A i \in DOMAIN sent[r] : sent[r][i].to = msg[r].on
    /\ phase[r] = "rejected" =>
         msg[r].kind = "null" \/ call[r][Root].out = BaseError

\* Behind a validateSchemas a middleware only ever runs with a body that the
\* request had, that was parsed and that the schema accepts, whatever the
\* transport and however often the chain in front of it was run
\* (middleware.ts 120-209, utils.ts 175-204).
ValidatedBody ==
  \A r \in Request, p \in Path :
    /\ call[r][p].at # "none"
    /\ \E i \in 1 .. Len(p) : chain[i] = "schema"
    => /\ call[r][p].res = "good" /\ msg[r].body = "good"
       /\ \E i \in 1 .. Len(p) : chain[i] = "json"

\* Once a request is answered nothing of its chain still runs, unless one of
\* the middleware did not wait for the rest (utils.ts 194).
NothingRunsOn ==
  \A r \in Request :
    /\ phase[r] \in {"answered", "rejected"}
    /\ \A i \in 1 .. Len(chain) : chain[i] \notin Unawaited
    => \A p \in Path : call[r][p].at \in {"none", "done"}

\* The chain reads the body once at most, throws no error of the base class,
\* and no response is empty where its headers say JSON: without that the two
\* transports differ.
Portable ==
  /\ \A i \in 1 .. Len(chain) : chain[i] \notin {"empty", "twice", BaseError}
  /\ \A i, j \in 1 .. Len(chain) :
       chain[i] = "json" /\ chain[j] = "json" => i = j

SameMessage(r, s) ==
  /\ Via(r) = "http" /\ Via(s) = "socket"
  /\ msg[r].kind = msg[s].kind /\ msg[r].kind \in RequestKind
  /\ msg[r].type = msg[s].type
  /\ msg[r].body = msg[s].body
  /\ msg[r].type = "json" => msg[r].body # "none"

AnsweredAlike(r, s) ==
  {phase[r], phase[s]} \subseteq {"answered", "rejected"} =>
    /\ phase[r] = phase[s]
    /\ \A i \in DOMAIN sent[r] \cap DOMAIN sent[s] :
         sent[r][i].status = sent[s][i].status

\* The same request has the same answer over HTTP and over a socket
\* (index.ts 379-393 and 468-480, socket.ts 301-394), if the chain is Portable.
TransportsAgree ==
  Portable => \A r, s \in Request : SameMessage(r, s) => AnsweredAlike(r, s)

\* the application's own code is running for r
AppBusy(r) ==
  \E p \in Path : Len(p) < Len(chain) /\ Running(r, p, AppBehaviour)

\* A request is answered in the end, unless the application keeps it for ever
\* (socket.ts 518, index.ts 384).
HandlersEnd ==
  \A r \in Request :
    \/ <>[]AppBusy(r)
    \/ (phase[r] = "chain") ~> (phase[r] \in {"answered", "rejected"})
=============================================================================
