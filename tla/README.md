# A TLA+ development of sleepy-serv and sleepy-socket

`sleepy-serv` (packages/server) is a Bun HTTP and WebSocket server whose routes
are files under `/api`; `sleepy-socket` (packages/client) is its WebSocket
client. This directory holds TLA+ models of the two, the TLC configurations
that check them and TLAPS proofs about them. Line numbers are those of
`packages/server/src/socket.ts` and `packages/client/src/index.ts` unless said
otherwise; `PROJECT.json` maps every definition to its lines.

## The system

| Part | Code | State | Operations |
|---|---|---|---|
| Sessions and tickets | server `socket.ts` 396-666 | `tickets`, `activeSessions`, `inactiveSessions`; per socket `superseded`, `reaped`, `reaperHandle` | `POST /ws`, `PUT /ws/:clientId`, `GET /ws`; socket callbacks `open`, `message`, `close`; reaper timers |
| Commands | `socket.ts` 668-699 | none (reads `activeSessions`) | `send`, `broadcast` |
| Message dispatch | server `socket.ts` 241-394, 493-530, `index.ts` 379-393, 468-480, `messages.ts` | the handlers in flight | parse, validate, match route, run the chain, answer |
| Routing | server `index.ts` 120-430, `socket.ts` 287-322 | the route tables | `buildRoutes`, `matchRoute` |
| Middleware chain | server `utils.ts` 175-204, `middleware.ts` | the position of each chain in flight | `executeMiddlewareChain`, `parseJsonBody`, `validateSchemas` |
| Life cycle | server `index.ts` 454-541 | the readline interface and its listener, `Bun.serve`'s server | `createApp`, Ctrl+D, `close()`, `onClose` |
| Errors | server `errors.ts` | none | a table of error classes |
| Connection life | client `index.ts` 159-385, 455-485, 593-618 | `#ready`, `#closing`, `#socket`, `#id`, `#token`, three timers, the promise of each attempt | `connect`, `#establish`, `#openSocket`, `#scheduleReconnect`, `#handleClose`, `close` |
| Requests | client `index.ts` 409-453, 487-563 | `#dispatchedMessages` | `#sendRequest`, `#handleRequest`, `#drain` |
| Listeners, helpers | client `index.ts` 502-504, 565-591, `messages.ts`, `utils.ts` | a set of handlers | `on`, `off`, `#emit` |
| Release tooling | `.github/` | | |

How they interact. A client buys a *ticket* over HTTP: `POST /ws` for a new
identity, or `PUT /ws/:clientId` with the session's token to get an old identity
back. It spends the ticket on `GET /ws`, which upgrades to a WebSocket. The
server's `open` registers the session under a new token and sends a *welcome*
with it. From then on both sides send heartbeats and time each other's silence:
the server with one *reaper* timer per socket, the client with the *liveness*
timer. When the socket closes the server keeps the session reclaimable for
`reclaimTtl`, unless the close was a goodbye (code 1000), and the client tries
again after a delay. Requests and responses travel over the socket in any order;
the client hands responses back as they come, first in first out, or last in
first out.

What is hard here. Both programs are single-threaded, and everything happens in
callbacks that run to completion; what interleaves is the callbacks. On the
server: the close of a superseded socket against the open of the one that took
its place, the reaper against messages and closes, tickets and reclaim windows
that expire between two HTTP requests. In the client: the timeout of an attempt
against its ticket and its welcome, `close()` against everything, the timeout
of a request against its response and the close of the socket. In a chain of
middleware: a `next` that is called twice, or not waited for, and a connection
that is replaced before the answer is there. At the end of the process: several
shutdowns at once, each waiting for sockets whose peers may have vanished, and
handlers that go on although nobody waits for their answer.
Between client and server:
requests and answers that are lost, connections each end sees close at another
time, a token that changes with every welcome.

## The modules

| Module | Models | Role |
|---|---|---|
| `SocketServer` | `socket.ts` 229-257, 396-666 | the server's sessions, tickets, reapers |
| `SessionLifecycle` | | the abstract specification `SocketServer` implements |
| `MCSocketServer` | | symmetry for TLC |
| `SocketServerProofs` | | TLAPS proofs: types, sessions and their sockets, reapers |
| `LifecycleProofs` | | TLAPS proofs: tickets, and that `SocketServer` implements `SessionLifecycle` |
| `RequestQueue` | client requests | queue policies, timeouts, closes |
| `RequestQueueProofs` | | TLAPS proofs about `RequestQueue` |
| `SocketClient` | client connection life | attempts, timers, reconnect, `close()` |
| `SocketClientProofs` | | TLAPS proofs about `SocketClient` |
| `SleepySession` | both ends and the network | composes `SocketClient` and `SocketServer` |
| `MCSleepySession` | | symmetry and a state constraint for TLC |
| `SleepySessionProofs` | | TLAPS proofs about `SleepySession`, on those about both ends |
| `AppLifecycle` | server `index.ts` 483-541 | composes `SocketServer` with the shutdown of the app |
| `AppLifecycleProofs` | | TLAPS proofs about `AppLifecycle` |
| `Routes` | `index.ts` 120-430, `matchRoute` | from files to routes, on both transports |
| `MCRoutes` | | directories for TLC |
| `RoutesProofs` | | TLAPS proofs about `Routes` |
| `MiddlewareChain` | `utils.ts` 175-204, `middleware.ts`, `errors.ts` | one chain: the tree of calls it makes |
| `MessageDispatch` | `socket.ts` 287-394, 493-530, `index.ts` 379-480, `messages.ts` | several requests, each in a chain, on both transports |
| `MCMessageDispatch` | | the chains for TLC |
| `MessageDispatchProofs` | | TLAPS proofs about `MiddlewareChain` and `MessageDispatch` |

Definitions called `Faulty...` are plausible bugs, each placed before the
definition it breaks. No specification uses them; putting one in the place of
what it breaks must make a property fail, which shows that the property says
something about the code.

### SocketServer

`tickets`, `active` and `inactive` are the three Maps. Tickets and tokens, random
in the code, are numbered in the order they are drawn, so the order of ticket
numbers is the insertion order of the Map, on which the sweep of `bindTicket`
depends. `ws` holds each connection's `SocketData` and its ready state;
`timers` the pending `setTimeout` calls of `armReaper`, including any that
`reaperHandle` no longer refers to. `heard` is a history variable.

Every endpoint and callback is an action: `CreateTicket` (`POST`),
`UpdateTicket` and `UpdateTicketTooLate` (`PUT`), `Upgrade` and `RefuseUpgrade`
(`GET`), `Open`, `Message`, `ReaperFires`, `Close`; `Tick` is the clock. The
close callback that follows the server's own `close()` is a step of its own. A
runtime that runs it inside `close()` is covered too: the callback of a
superseded socket changes only that socket, so running it in the middle of
`open` or right after makes no difference. The clock starts at 1 because the
code takes an `expiresAt` of 0 for "never" (230), which no real clock gives.

`SessionLifecycle` says what this promises about an identity without mentioning
sockets, timers or the table of tickets: it becomes live only for somebody
entitled to it, each time with a newer token; it ends, or turns dormant with
its token for `ReclaimTtl` and is not forgotten before.

### RequestQueue

Requests are numbered in the order they are sent, which is the order of
`#dispatchedMessages`, so the array is a set of numbers. `held` are the answered
entries still in it. `Timeout`, `Response`, `HandleClose`, `CloseClient`,
`LivenessTimeout` and `Reestablish` (a later connection) may come in any order,
except that request timeouts, having equal delays, fire in order. The last call
of `#sendRequest` may throw, because a body cannot be turned into text or the
socket is not there: its promise is rejected (`Thrown`) while the entry and the
timer made just before stay behind. The module
follows one socket at a time; the second socket of an attempt that outlived its
timeout is the subject of `SocketClient`.

### SocketClient

Each call of `#establish` is an *attempt*; its WebSocket has the attempt's
number. All attempts share the client's fields. `intervals` and `reconnects`
are the timers that really run, `heartbeatTimer` and `reconnectTimer` the
handles the client kept, so that a lost handle shows. `late` records that an
attempt went on after its timeout had rejected it, `closedMidway` that `close()`
was called during an attempt: in these two situations the code does not keep
some of the promises below, and the properties say so.

### SleepySession

Attempt *n* of the client is connection *n* of the server. The module adds what
lies between: the PUT and POST of `#requestTicket`, the welcome on its way, and
`#id` and `#token`. Each end sees a close in its own time; a request may take
effect at the server and its answer be lost. `closing`, `late` and `disturbed`
record the things that can cost a client its identity (see `Undisturbed`): the
application closed it, an attempt outlived its timeout, a timeout of the client
closed a socket, a reclaim window passed, a connection was lost before the client
handled its welcome (whether the server's `open`, which changes the token, came
before that or comes after), or a PUT met a full table of tickets.

### AppLifecycle

`AppLifecycle` EXTENDS `SocketServer` with what surrounds it: whether stdin is a
terminal, the readline interface and the listener `handleClose`, what Bun still
accepts, requests and their handlers, and how far each shutdown is. `PressCtrlD`
and `CloseApp` begin one, `Stopped` is the moment `server.stop()` resolves and
`onClose` is called, `HookEnds` its end. `close()` may be called several times,
forced or not, alone or after a Ctrl+D. Of `server.stop()`, which is Bun's, the
model assumes what the head of the module says.

A handler is a promise that nothing can stop (index.ts 381-385, `socket.ts`
493-529), so the model keeps the requests apart from their handlers:

- `inFlight` are the requests over HTTP that wait for an answer. `stop(true)` cuts
  them off, but their handlers run on: they move to `cutOff`, until `EndHandler`.
- `serving` are the sockets that sent a request whose chain has not settled.
  `Served` ends it, perhaps long after the socket closed or was reaped.

A handler that was in the application's middleware may reach its `/ws` endpoint
after `stop()` was called, or after its request was cut off (`LateEndpoint`). A
request over a socket cannot: it carries a `clientId`, which the `/ws` endpoints
refuse.

### Routes

A directory is a sequence of names, and a name an atom with three attributes the
code asks for: being a parameter, beginning with another name, and what comes
before its first dot. `Init` chooses the files and the order in which the file
system lists them, two files for one route (`get.js` and `get.ts`) and two meta
files in one directory (`meta.js` and `meta.ts`) included; the
actions are the steps of `createApp`: reject, build the chains, merge the three
socket endpoints one after the other. `MatchRoute` and `ServerRoute` then
resolve requests over a socket and over HTTP.

A request's path is the sequence of the pieces between its slashes, the empty ones
included, so that "/users/" and "//users" are what they are in the code: `ToSegments`
drops what is before a leading and behind a trailing slash, for patterns and for
requests over a socket, while HTTP compares piece by piece. A query is left out,
since neither transport routes by it: `toSegments` drops it, and Bun's router sees
the pathname only. Bun's own router is external; of it the model assumes
that it compares piece by piece, that a parameter takes any piece that is not empty,
and that it prefers a literal segment to a parameter. A mount path is taken to begin
with a slash and not to end with one, as in the tests.

### MiddlewareChain and MessageDispatch

A chain is a sequence of behaviours: the package's own middleware
(`parseJsonBody`, `validateSchemas`) and what an application's may do: pass on,
answer early, throw, catch, forget to return, not wait for `next`, call it
twice. Running it makes a tree of calls of `executeMiddleware`; a call is named
by the path that leads to it, and `call[r][p]` says whether it was entered, waits
for its `next`, or settled, with which result and which outcome. The error
classes are those of `errors.ts` with their statuses.

`MessageDispatch` has several requests in flight at a time, over HTTP or over the
client's newest connection, which may be lost and replaced at any moment.
`Arrives` covers what may come over a socket: garbage, `null`, JSON the schemas
refuse, heartbeats, headers that cannot be built, requests with and without a
route. `Finish` is the rest of the handler once its chain has settled:
`buildOutgoingMessage` or `buildErrorMessage` over a socket, Bun's response or
the error handler of `buildServer` over HTTP. An answer is written to the
connection the handler was called with, and lost if that one is closed. The
reaper that each message re-arms is in `SocketServer`.

## The runs

| Run | Question | Result |
|---|---|---|
| `socket_server` | Do the tables, reapers and tickets stay consistent under every interleaving, and implement `SessionLifecycle`? | holds |
| `app_lifecycle` | Does a closed app leave the process alone, does `onClose` come after the last peer, and do all shutdowns, and silent peers, come to an end? | holds |
| `request_queue` | Are promises settled once, in order, and none lost? | holds |
| `request_queue_stuck` | Does every request settle, whatever the policy? | violated |
| `socket_client` | Is the client never stranded, never doubled, quiet after `close()`? | holds |
| `socket_client_closed` | Is closing permanent? | violated |
| `socket_client_null_socket` | Has a connected client a socket? | violated |
| `sleepy_session` | Does an undisturbed client keep its token, its session and its identity? | holds |
| `sleepy_session_identity` | Is `client.id` the same after every reconnect? | violated |
| `routes` | Are chains complete and in order, and does a socket serve what HTTP serves? | holds |
| `routes_meta_scope` | Does a meta file apply to its own directory only? | violated |
| `message_dispatch` | Is each request answered once, on its connection, alike on both transports, and never past a schema that refused it? | holds |

Run one with `tlc -config SocketServer.cfg MCSocketServer.tla`; `PROJECT.json`
names module and configuration of each.

### Bounds

- `SocketServer`: two identities and three connections, so that one identity can
  have a superseded socket, its successor and a rival at once; two tickets at a
  time and four in all, so that the table fills and is swept; four instants
  with lifetimes of two and a reaper of one, so that everything can expire and
  be used at the very instant it does. Beyond two identities nothing new
  happens: no operation relates two identities except through the ticket table.
- `RequestQueue`: four requests, enough for an entry with unanswered neighbours
  on both sides under each policy, and a reconnect in between.
- `SocketClient`: four attempts, so that two can overlap and a third follow.
- `SleepySession`: four attempts, two identities, three instants; reclaim
  windows and tickets expire, and with two tickets a PUT can meet a full table. Its properties are conditional on `Undisturbed`,
  which never becomes true again, so states beyond are cut off by a constraint.
- `AppLifecycle`: one identity, two connections and three instants, two calls of
  `close()`, numbered in the order they come, beside Ctrl+D and one HTTP request:
  three shutdowns overlap while a takeover or a reap is under way. The clock stops
  at `MaxTime`, messages do not: a peer that was heard so late that its reaper is
  due beyond `MaxTime` is never reaped in the model, and stands for one that keeps
  talking (`TalksOn`).
- `Routes`: eight directories with at most two method files and two meta files.
  A request concerns one path of each kind, a chain at most two directories'
  meta files, and a merge one endpoint. Two twin files are two method files, and
  two twin meta files two meta files. A request has up to three pieces below the
  mount path, each a name or empty: as many as the deepest path plus a slash too
  many.
- `MessageDispatch`: two requests and two connections, since requests of one
  application share nothing but the connection; fifteen chains of at most three,
  chosen so that each behaviour occurs first, in the middle or last as it
  matters. Within a chain a middleware only sees what the one behind it returns.

The runs whose behaviours may end (the clock stops, attempts are used up, the
routes are built, all requests are answered, the process exited) switch the
deadlock check off; `request_queue` keeps it.

### Fairness

Fairness is assumed only of the event loop: a timer that is due fires
(`ReaperFires`, `Timeout`, `EstablishTimeout`), the close of a socket the server
closed itself completes (`ServerClose`), a connection that was upgraded is
opened (`Open`), a promise that settled is continued (`Stopped`, and
`PackageStep` and `Finish` of each request), and time passes (`Tick`). Nothing
is assumed of the peer, the network or the application, so the properties name
what excuses the server: a request the application never answers (`HandlersEnd`,
`ShutdownEnds`), an `onClose` that never ends, and a peer that stays connected and
keeps talking, for which a graceful `stop()` waits for ever (`ShutdownEnds`).
`SilentPeersReaped` is about a socket that is not heard again.

## What the runs found

Five sentences of the documentation do not hold of the code; `PROJECT.json`
quotes them, and a run shows each.

1. *A request can wait for ever* (client 430-440). With `Queue.Fifo`, request 2
   is answered first: its timer is cleared and it waits for request 1. When
   request 1 times out its entry is removed but nothing is drained.
2. *A closed client comes back* (260-283, 593-618). `close()` does not reach a
   reconnect attempt under way; its welcome sets `#ready` again.
3. *A connected client without a socket* (298-307, 470). An attempt that timed
   out while waiting for its ticket still opens its socket when the ticket
   comes. Now there are two; when either closes, `#socket` is null.
4. *The identity changes* (342-344, server 486). The client's own timeouts close
   with code 1000, which the server takes for a goodbye. The same happens when
   the connection is lost between the server's `open`, which changes the token,
   and the client's handling of the welcome.
5. *Middleware of a neighbour* (server index.ts 247). `/user/meta.js` applies to
   `/users`, because paths are compared without a separator.

Other peculiarities came up while modelling. No text contradicts them, so no run
is about them, but the properties are stated around them:

- Over a socket the first listed match wins, over HTTP the most specific (server
  317); of two files for one route the socket runs the first and HTTP the last
  (index.ts 402). A method the most specific path does not have is refused over
  HTTP with 405, while a socket goes on to the next path that matches.
- "/users/" is "/users" over a socket (`utils.ts` 147-160), but another path to Bun's
  router; and over a socket an empty piece stands for a parameter. So a socket
  serves more than HTTP does, never less: `SocketServesHttp`.
- A peer that goes on sending heartbeats re-arms its reaper each time (421, 500), so
  a graceful shutdown waits for it as long as it likes. Only `close(true)` does not.
- `onClose` is called when no peer is left, not when no handler is: those of
  requests that `close(true)` cut off, and those of sockets that closed meanwhile,
  may run beside it. `HookAfterPeers` says that there are no others.
- A response that says JSON and has no body (a 204) becomes a 500 over a socket
  (server 367); a chain with `parseJsonBody` twice is refused with 400 over HTTP
  only, where the body can be read once (`middleware.ts` 42-50). `Portable`
  excludes both.
- The message `null`, and an error of the base class `RequestError`, which has no
  status, are never answered over a socket (server 377-394). `AnsweredOnce` says
  that these are the only two cases.
- The client takes any refusal of its PUT for a session that is gone (222), the
  503 of a full table of tickets included, and goes on to POST; if a ticket has
  expired by then it is somebody else, although the server still has its session.
  `Undisturbed` excepts it; without that, `IdentityKept` fails.
- A directory with a dot in its name is cut there (index.ts 273), and its files
  become another route. `MetaCovers` and `EndpointsServed` hold all the same.
- After Ctrl+D the process exits when the shutdown it began ends, perhaps in the
  middle of the `onClose` of a `close()` that came later (index.ts 511).

## What is proved

The theorems hold for every value of the constants; TLC's runs only for those of
the configurations.

The two modules about `SocketServer` alone assume its `DurationsAssumption`,
`BoundsAssumption` and `NoneAssumption`. Every safety property of its run, the
refinement included, is a theorem. (`TablesAgree` and `TicketLifetime` are
conjunctions of the smaller properties named below.)

- `TypeCorrect`: `TypeOK` is inductive as it stands.
- `SessionsSafe` (`TablesAgree`): `SessionSocket`, `NoOrphan` and `OneRecord`. They are not
  inductive alone: when a connection opens, its record must not already be
  marked superseded, or `NoOrphan` says nothing of it and `SessionSocket` fails.
  `SessionInv` adds `NotYetSuperseded`: a connection that has not opened was
  never superseded. Only `Open` and `Close` touch the tables; for the rest
  (`SessionFrame`) it is enough that the fields the invariant reads stay the
  same. In `Open` the argument splits on whether the identity had a session; in
  `Close` on `Owns`.
- `TicketsInOrder` (`TicketTable`): the order of expiries is kept only because
  no ticket expires later than one issued now would (`ExpiryBounded`); that
  tickets name identities given out needs the same of sessions and connections
  (`IdentitiesIssued`), since a `PUT` sells tickets to holders of sessions.
  `TicketInv` is the conjunction.
- `TicketsLiveOnce` (`TicketLifetime`): `bindTicket` keeps everything after the
  first live ticket; by the order of expiries all of that is live. That a ticket
  is spent once needs only that new tickets get new numbers.
- `ReapersArmed` (`ReaperArmed`): `ReaperInv` adds that `reaperHandle` of a
  connected socket names the timer of its last message, so that `clearTimeout`
  removes the right one, and that a reaped socket is closing or closed, so that
  a message finds a timer to clear.
- `SilenceKeepsIdentity`: only `Close` takes a session out of the table.
- `ServerImplementsLifecycle`: the mapping makes `session` of the two tables
  and `entitled` of the outstanding tickets and upgraded connections. Each
  action is one step of `SessionLifecycle`: the endpoints `Entitle`, `RunOut`
  or `Lapse`, `Open` is `Begin`, `Close` is `Suspend`, `End` or, for a socket
  that lost its session, nothing. `OneRecord` is needed where a willing close
  must leave no record behind, `IdentitiesIssued` where a `PUT` must not give
  out an identity.

`RequestQueueProofs` assumes `MaxRequestsAssumption`.

- `TypeCorrect`, `BookkeepingSafe`, `PromisesSafe` (`NoneHeldBack`): one
  inductive invariant, `QueueInv`, the conjunction of the invariants of the run
  with `UnsentAndReady`: requests not yet sent have no promise, and a ready client
  has a socket that was not reported closed; and `ThrownUnanswered`: a request
  whose `send` threw never reached the server, so no response settles it again.
- `SettledOnceHolds` and `InOrderHolds`: the action properties follow from
  `QueueInv`, since only entries of `dispatched` are settled and `Drained` is
  closed under earlier (`Fifo`) or later (`Lifo`) entries.

`SocketClientProofs` assumes `MaxAttemptsAssumption` and `NoneAssumption`. Every
safety property of the run is a theorem. `ClientInv` is inductive; to
`SteadyWhileReady`, `QuietAfterClose` and `NeverStranded` it adds

- `AttemptsInOrder`: attempts not begun left no trace, one that waits for its
  ticket has no socket, one that was welcomed is settled;
- `SingleThread`, which is `OneThread` without counting, and says besides that a
  pending reconnect is the one `close()` would clear;
- `SocketIsCurrent` and `HeartbeatIsCurrent`: unless an attempt outlived its
  timeout, a socket on its way up is `#socket` and an interval that runs is the
  one `#stopHeartbeat` would clear. Without these `close()` and `#handleClose`
  could leave another socket or interval behind, and `QuietAfterClose` would fail;
- `NoTicketAfterClose`: a client closed outside an attempt waits for no ticket.

The proof has a lemma for what closing `#socket` and rejecting an attempt change,
one for the types, and one for each handler. `NothingNewAfterClose` needs only
`TypeOK`.

`AppLifecycleProofs` extends the proofs about the server: `TypeStep`,
`SessionStep` and `ReaperStep` say what each step of `SocketServer` keeps, and do
not mention its specification, so they serve for every step of the app that is
one of the server (`ServerStep`). `stop(true)` is not; `CutOffStep` treats it.

- `AppTypeCorrect`.
- `ClosedAppStaysUp` (`ClosedAppStays`): `CtrlDAsked` adds that a closed app no
  longer listens for Ctrl+D.
- `HookComesLast` (`HookAfterPeers`): `StoppedListening` and `PeersGone` say that
  after `stop()` nothing is accepted and that where it resolved no request waits and
  no connection is left; handlers that run on bring none back, since what they do at
  a `/ws` endpoint without a connection is to sell a ticket at most. That sessions
  and timers are gone too follows from `SessionInv` and `ReaperInv`. `ServedOpened`
  says that a request over a socket came from one that had opened, and `OpenedStays`
  that such a one only ever goes on to close: with no connection left, what is still
  `serving` is closed.

`MessageDispatchProofs` assumes `ChainAssumption` and `ConnectionAssumption`. It
is about chains of any length whose middleware behave in any of the modelled
ways. `DispatchInv` is the inductive invariant:

- `ShapeInv`: a call that waits is of a middleware that calls on.
- `HandlerInv`: what was sent follows from the phase, and where a chain ran from
  what settled its first call. `EveryAnswerOnce` (`AnsweredOnce`) follows.
- `DataInv`: the parsed body a middleware sees comes from the request and from a
  `parseJsonBody` in front of it, and behind a `validateSchemas` is one the
  schema accepts. `OnlyValidBodies` (`ValidatedBody`) follows.
- `WaitInv`: if every middleware awaits or returns what it calls, every call
  above one that runs waits in exactly that branch; so when the first call is
  done, all are. `NothingLeftRunning` (`NothingRunsOn`) follows.
- `OnceInv`, `ResultInv` and `AlikeInv` serve `TransportsAnswerAlike`
  (`TransportsAgree`). In a `Portable` chain calls lie on one path; what settles
  a call is a function of its middleware, what it was passed and what settled the
  next (`ResultInv`); therefore two requests with the same body agree on every
  call both have reached, however their steps interleave (`AlikeInv`), and on the
  first, whose result is the answer. The induction along the chain is in the
  invariant: `AlikeInv` holds of the calls before it must hold of the one above.

`RoutesProofs` assumes `DirAssumption`, `MethodAssumption`, `BoundAssumption` and
`NamePrefixesAssumption`: that to begin a name is an order, and a total one among
the names that begin one name; and of `DirAssumption` that no name is empty. Every
property of the run is a theorem, for directories of any depth, any names and any
number of files. The code's filter and sort are modelled by the listing they
promise, and `SortedListing` proves that there is one: the meta files one path
starts with are totally ordered by length, twins by their place in the listing
(`ShorterOrder`), so that each has a place of its own, the number of those before
it. `RoutesInv` is the inductive invariant:

- `RouteInv`: each route was built for some directory; its path leads there, or
  above if a dot cut it; and its chain `Begins` with the application's middleware
  and that of the meta files, sorted, with all of those that cover the directory,
  and `Ends` with the module's own, or the handler of a merged endpoint of its
  method and path, or both. `MiddlewareInOrder` (`ChainInOrder`) and
  `MetaAlwaysCovers` (`MetaCovers`) follow: a path the dot has cut is still a
  prefix of the directory whose middleware the chain has.
- `MergedInv`: the handler of each merged endpoint is the last of one chain and in
  no other; with it goes `EveryEndpointServed` (`EndpointsServed`). The three
  endpoints differ in their methods, so no route takes two of them
  (`OneEndpoint`).

`SocketServesWhatHttpServes` (`SocketServesHttp`) compares two routers that read
paths differently. `SegmentsOfPath` says what `ToSegments` makes of a route's path,
the root's included; from it `RoutersMatch` has that a path HTTP matches a socket
matches too, and the other way round for a request without an empty piece. That
HTTP runs something at all where a path matches needs that among the paths that
match one has no more specific one (`HttpFinds`): preferring the literal segment is
a strict order on them, and such an order on a finite set has a top
(`TopElement`). Of the routes with the path and the method the socket takes the
first listed and HTTP the last (`RoutersFind`, `ServerRouteFinds`), which are the
same where there is one.

`SleepySessionProofs` assumes what the two ends assume (`ClientAssumption`,
`ServerAssumption`) and `NoneAssumption`. It instantiates the proofs about
`SocketClient` and `SocketServer`: `ClientSteps` and `ServerSteps` show that each
step of the whole is at most one step of each end, so the ends keep their own
invariants, of which `ClientEnd` and `ServerEnd` say what is needed here. The
inductive invariant `SessionInv` adds

- `TicketsMatch`: where the ticket request of each attempt is, and that the
  ticket it got is of the identity it was told;
- `ConnectionsMatch`: the two ends of a connection know it by the same identity,
  and welcomes have tokens of their own;
- `TokensMatch`: a session's token is that of its socket's welcome, a superseded
  socket's welcome is not, and the server closes only what it reaped or
  superseded, so that none of its own closes is taken for a goodbye;
- for an undisturbed client `SocketsKept` and `Recognised`: the identity it has is
  the one it asks for, is granted and is connected with, and its token is the
  server's, unless a connection on its way up brings the next.

`TokenNeverStale` (`TokenAccepted`), `ReadyClientReached` (`SessionReachesClient`)
and `IdentitySurvives` (`IdentityKept`) follow. The hard steps are `Reclaim`,
where the PUT of an undisturbed client is accepted because its token is the
server's and the window has not passed; `Open`, where the old token dies and the
welcome must be in flight to the only attempt waited for; and the server's close,
which must leave the token. The step lemma for `Reclaim` is false without the full
table among the disturbances, which is how that one was found. `ImplementsClient`
and `ImplementsServer` say that the composition implements each end, so their
theorems hold of it; the second needs `TokensMatch`, since `SocketServer` lets a
PUT carry only tokens the server drew.

Model-checked only: liveness (`NoneSettles`, `AttemptsSettle`, `ShutdownEnds`,
`SilentPeersReaped`, `HandlersEnd`), which stays so, since TLAPS has no support
for fairness. Every safety property of the passing runs is a theorem.

## What is not modelled

- The client's event listeners (`on`, `off`, `#emit`): a set of handlers called in
  turn, each in a `try`.
- The client's constructors of messages and `joinRoute`, the server's `send` and
  `broadcast`: they change no state. The route list for debugging likewise.
- The compilation of schemas and `setValidationFormats`, and the schemas of
  headers, params and query, which take the same branch as that of the body. The
  model's schema asks for a type and so refuses `null`; one without a type would
  accept it.
- An `UnprocessableContentError` made without its list of errors, whose text cannot
  be read (`errors.ts` 273-275): the types do not allow it.
- Delays are abstracted to "fires at some time", except where all are equal; so
  the backoff of `#scheduleReconnect` (349) is not checked.
- What an application's middleware does beyond the behaviours listed.
- The release scripts and workflows.

## Plan

Every safety property of the runs is proved. What is left to prove is what the
parts give the whole: that `SleepySession` implements `SessionLifecycle` through
`ImplementsServer`, and that a ready client's requests are answered in the session
it believes in, which needs `RequestQueue` composed with it.
