--------------------------- MODULE MiddlewareChain ---------------------------
(***************************************************************************)
(* The middleware chain of sleepy-serv: executeMiddlewareChain (utils.ts   *)
(* 175-204), the built-in middleware parseJsonBody and validateSchemas     *)
(* (middleware.ts) and the error classes (errors.ts).                      *)
(*                                                                         *)
(* A chain is a sequence of behaviours, one per middleware; the last one   *)
(* is the endpoint's.  Running a chain makes a tree of calls of            *)
(* executeMiddleware: a call is named by the path that leads to it, whose  *)
(* elements say for every level whether it is the first or the second time *)
(* that middleware called its next.  The middleware at path p is therefore *)
(* number Len(p) + 1 of the chain.                                         *)
(***************************************************************************)
EXTENDS Naturals, Sequences

\* Definitions named Faulty... are plausible bugs, each placed before the
\* definition it breaks.  No action uses them: they serve to confirm that every
\* property can fail.

CONSTANTS
  MaxRequests,  \* bound: requests are numbered in the order they arrive
  Chains,       \* the chains an endpoint may have
  MaxLength     \* the length of the longest of them

Request == 1 .. MaxRequests

(***************************************************************************)
(* errors.ts: the classes that extend RequestError, with their status.     *)
(* The base class, which is exported too, has none: asking for it throws.  *)
(***************************************************************************)
ClientErrors ==
  [BadRequestError |-> 400, UnauthorizedError |-> 401,
   PaymentRequiredError |-> 402, ForbiddenError |-> 403, NotFoundError |-> 404,
   MethodNotAllowedError |-> 405, NotAcceptableError |-> 406,
   ProxyAuthenticationRequiredError |-> 407, RequestTimeoutError |-> 408,
   ConflictError |-> 409, GoneError |-> 410, LengthRequiredError |-> 411,
   PreconditionFailedError |-> 412, PayloadTooLargeError |-> 413,
   UriTooLongError |-> 414, UnsupportedMediaTypeError |-> 415,
   RangeNotSatisfiableError |-> 416, ExpectationFailedError |-> 417,
   ImATeapotError |-> 418, MisdirectedRequestError |-> 421,
   UnprocessableContentError |-> 422, LockedError |-> 423,
   FailedDependencyError |-> 424, TooEarlyError |-> 425,
   UpgradeRequiredError |-> 426, PreconditionRequiredError |-> 428,
   TooManyRequestsError |-> 429, RequestHeaderFieldsTooLargeError |-> 431,
   UnavailableForLegalReasonsError |-> 451]

ServerErrors ==
  [InternalServerError |-> 500, NotImplementedError |-> 501,
   BadGatewayError |-> 502, ServiceUnavailableError |-> 503,
   GatewayTimeoutError |-> 504, HTTPVersionNotSupportedError |-> 505,
   VariantAlsoNegotiatesError |-> 506, InsufficientStorageError |-> 507,
   LoopDetectedError |-> 508, NotExtendedError |-> 510,
   NetworkAuthenticationRequiredError |-> 511]

BaseError == "RequestError"

\* errors that are not of the package: an application's own, and the runtime's
GenericErrors == {"Error", "TypeError", "RangeError", "SyntaxError"}

StatusErrors == DOMAIN ClientErrors \cup DOMAIN ServerErrors
ErrorClass == StatusErrors \cup GenericErrors \cup {BaseError}

ErrorStatus ==
  [e \in StatusErrors |->
     IF e \in DOMAIN ClientErrors THEN ClientErrors[e] ELSE ServerErrors[e]]

(***************************************************************************)
(* The responses an endpoint or a middleware returns of its own accord,    *)
(* with their status: "ok" has a body that fits its content type, "empty"  *)
(* says application/json and has none, "stopgap" comes from a middleware   *)
(* that does not wait for the rest of the chain or replaces its error.     *)
(***************************************************************************)
Responses == [ok |-> 200, empty |-> 204, stopgap |-> 202]
Response == DOMAIN Responses

Outcome == Response \cup ErrorClass \cup {"none"}

(***************************************************************************)
(* What a middleware may do.  "pass", "json" (parseJsonBody) and "schema"  *)
(* (validateSchemas, of the body) return next(...); "twice" awaits next    *)
(* and calls it again; "rescue" catches what next throws; "beside" calls   *)
(* next without waiting and returns a response; "forget" calls next and    *)
(* forgets to return it.  A response returns it, an error class throws it, *)
(* and "other" returns something that is not a Response.                   *)
(***************************************************************************)
Unawaited == {"beside", "forget"}
Forwarding == {"pass", "json", "schema", "twice", "rescue"} \cup Unawaited
Behaviour == Forwarding \cup Response \cup ErrorClass \cup {"other"}

ASSUME ChainAssumption ==
  /\ MaxRequests \in Nat
  /\ MaxLength \in Nat \ {0}
  /\ Chains \subseteq UNION {[1 .. n -> Behaviour] : n \in 0 .. MaxLength}

Path == UNION {[1 .. n -> {1, 2}] : n \in 0 .. MaxLength - 1}
Root == <<>>

\* the content type of a request, and its body: none, not JSON, JSON that the
\* schema refuses, JSON that it accepts
ContentType == {"none", "json", "other"}
Body == {"none", "bad", "unfit", "good"}

\* the `res` a middleware receives: null at the start, then what was passed on
Data == {"null"} \cup Body

Call ==
  [at : {"none", "entered", "awaiting", "again", "done"},
   res : Data, out : Outcome]

NoCall == [at |-> "none", res |-> "null", out |-> "none"]
Entered(data) == [at |-> "entered", res |-> data, out |-> "none"]

VARIABLES
  chain,     \* the chain of the endpoint asked for
  call,      \* call[r][p]: the call at path p of the chain run for r
  consumed   \* consumed[r]: the HTTP body of r was read

chainVars == <<chain, call, consumed>>

\* Type correctness of the chains under way.
ChainTypeOK ==
  /\ chain \in Chains
  /\ call \in [Request -> [Path -> Call]]
  /\ consumed \in [Request -> BOOLEAN]

ChainInit ==
  /\ chain \in Chains
  /\ call = [r \in Request |-> [p \in Path |-> NoCall]]
  /\ consumed = [r \in Request |-> FALSE]

-----------------------------------------------------------------------------
Middleware(p) == chain[Len(p) + 1]
IsLast(p) == Len(p) + 1 = Len(chain)

Running(r, p, behaviours) ==
  /\ call[r][p].at = "entered"
  /\ Middleware(p) \in behaviours

Settled(c, p, out) == [c EXCEPT ![p].at = "done", ![p].out = out]

\* the calls after the middleware at p settles with out
Settle(r, p, out) == call' = [call EXCEPT ![r] = Settled(@, p, out)]

(***************************************************************************)
(* The middleware at p calls next(data) for the k-th time and is at `at`   *)
(* then.  The last one has null for a next, and fails with a TypeError:    *)
(* requireNext's, or the runtime's.                                        *)
(***************************************************************************)
CallNext(r, p, k, data, at) ==
  IF IsLast(p)
  THEN Settle(r, p, "TypeError")
  ELSE call' = [call EXCEPT ![r] = [@ EXCEPT ![p].at = at,
                                             ![Append(p, k)] = Entered(data)]]

(***************************************************************************)
(* executeMiddlewareChain: the calls of a request whose chain starts.  An  *)
(* empty chain throws at once.                                             *)
(***************************************************************************)
StartChain(r) ==
  call' = [call EXCEPT ![r][Root] =
             IF chain = <<>> THEN [NoCall EXCEPT !.at = "done",
                                                 !.out = "RangeError"]
                             ELSE Entered("null")]

-----------------------------------------------------------------------------
FaultyForward(r, p) ==
  /\ Running(r, p, {"pass", "twice", "rescue"})
  /\ IF IsLast(p)
     THEN Settle(r, p, "TypeError")
     ELSE call' = [call EXCEPT ![r] =
            [Settled(@, p, "TypeError")
               EXCEPT ![Append(p, 1)] = Entered(call[r][p].res)]]
  /\ UNCHANGED <<chain, consumed>>

\* A middleware forwards its res, waiting for the rest of the chain.
Forward(r, p) ==
  /\ Running(r, p, {"pass", "twice", "rescue"})
  /\ CallNext(r, p, 1, call[r][p].res, "awaiting")
  /\ UNCHANGED <<chain, consumed>>

\* A middleware calls next and returns without waiting: the rest of the chain
\* runs on beside it.
ForwardBeside(r, p) ==
  /\ Running(r, p, Unawaited)
  /\ IF IsLast(p)
     THEN Settle(r, p, "TypeError")
     ELSE call' = [call EXCEPT ![r] =
            [Settled(@, p, IF Middleware(p) = "beside" THEN "stopgap"
                                                       ELSE "TypeError")
               EXCEPT ![Append(p, 1)] = Entered(call[r][p].res)]]
  /\ UNCHANGED <<chain, consumed>>

(***************************************************************************)
(* parseJsonBody.  Over HTTP json() reads the body of the request, which   *)
(* can be done once; over a socket it returns the body of the message.     *)
(***************************************************************************)
Readable(r, via, body) ==
  \/ via = "socket"
  \/ ~consumed[r] /\ body \in {"unfit", "good"}

ParseJsonBody(r, p, via, type, body) ==
  /\ Running(r, p, {"json"})
  /\ \/ /\ type = "none"
        /\ CallNext(r, p, 1, call[r][p].res, "awaiting")
        /\ UNCHANGED consumed
     \/ /\ type = "other"
        /\ Settle(r, p, "UnsupportedMediaTypeError")
        /\ UNCHANGED consumed
     \/ /\ type = "json"
        /\ IF Readable(r, via, body)
           THEN CallNext(r, p, 1, body, "awaiting")
           ELSE Settle(r, p, "BadRequestError")
        /\ consumed' = [consumed EXCEPT ![r] = TRUE]
  /\ UNCHANGED chain

FaultyValidateSchemas(r, p) ==
  /\ Running(r, p, {"schema"})
  /\ IF call[r][p].res \in {"good", "null"}
     THEN CallNext(r, p, 1, call[r][p].res, "awaiting")
     ELSE Settle(r, p, "UnprocessableContentError")
  /\ UNCHANGED <<chain, consumed>>

\* validateSchemas with a schema for the body, which it takes from res.  The
\* schema asks for a type, so null does not satisfy it.
ValidateSchemas(r, p) ==
  /\ Running(r, p, {"schema"})
  /\ IF call[r][p].res = "good"
     THEN CallNext(r, p, 1, call[r][p].res, "awaiting")
     ELSE Settle(r, p, "UnprocessableContentError")
  /\ UNCHANGED <<chain, consumed>>

FaultyEndChain(r, p) ==
  /\ Running(r, p, Behaviour \ Forwarding)
  /\ Settle(r, p, Middleware(p))
  /\ UNCHANGED <<chain, consumed>>

\* A middleware or the endpoint ends the chain: with a response of its own, by
\* throwing, or with something that executeMiddleware turns into a TypeError.
EndChain(r, p) ==
  /\ Running(r, p, Behaviour \ Forwarding)
  /\ Settle(r, p, IF Middleware(p) = "other" THEN "TypeError" ELSE Middleware(p))
  /\ UNCHANGED <<chain, consumed>>

FaultyReturn(r, p) ==
  LET next == Append(p, IF call[r][p].at = "again" THEN 2 ELSE 1)
  IN  /\ call[r][p].at \in {"awaiting", "again"}
      /\ call[r][next].at = "done"
      /\ call[r][next].out \in Response
      /\ Settle(r, p, call[r][next].out)
      /\ UNCHANGED <<chain, consumed>>

\* next's promise settled: `return next(...)` settles the same way.
Return(r, p) ==
  LET next == Append(p, IF call[r][p].at = "again" THEN 2 ELSE 1)
      out == call[r][next].out
  IN  /\ call[r][p].at \in {"awaiting", "again"}
      /\ call[r][next].at = "done"
      /\ \/ /\ Middleware(p) = "twice"
            /\ call[r][p].at = "awaiting"
            /\ out \in Response
            /\ CallNext(r, p, 2, call[r][p].res, "again")
         \/ /\ Middleware(p) = "rescue"
            /\ out \notin Response
            /\ Settle(r, p, "stopgap")
         \/ /\ Middleware(p) = "twice" =>
                 (call[r][p].at = "again" \/ out \notin Response)
            /\ Middleware(p) = "rescue" => out \in Response
            /\ Settle(r, p, out)
      /\ UNCHANGED <<chain, consumed>>
=============================================================================
