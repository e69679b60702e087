------------------------------- MODULE Routes -------------------------------
(***************************************************************************)
(* The routes of an application: packages/server/src/index.ts, from the    *)
(* files under /api to the table Bun.serve gets and the table the socket's *)
(* message callback searches (matchRoute in packages/server/src/socket.ts).*)
(*                                                                         *)
(* A directory is the sequence of its segments below /api, and a method    *)
(* file a directory, a method and an extension.  Names are atoms: what the *)
(* code asks of them is whether one is a parameter (":..."), whether one   *)
(* begins with another, and what stands before a dot.  A file system lists *)
(* a directory in an order of its own, and may hold a meta.js beside a     *)
(* meta.ts.  Each method file exports one function, opts.middleware holds  *)
(* one and a meta file one.                                                *)
(***************************************************************************)
EXTENDS Naturals, Sequences, FiniteSets, SequencesExt

CONSTANTS
    Dir,            \* directories an application may have below /api
    Method,         \* HTTP methods
    Param,          \* the segments that are parameters
    NamePrefixes,   \* pairs <<a, b>>: the name b begins with the name a
    Stem,           \* for each name with a dot, what comes before it
    MountPath,      \* opts.mountPath, "/a/b" as <<"a", "b">>
    RequestName,    \* what may stand between two slashes of a request
    MaxPieces,      \* bound: pieces of a request below the mount path
    MaxFiles,       \* bound: method files of an application
    MaxMetas        \* bound: meta files of an application

(* What is in front of a leading slash.                                    *)
Empty == ""

(* Segments and methods are strings; no directory's name is empty, and     *)
(* that of a parameter begins with a colon.                                *)
ASSUME DirAssumption ==
    /\ Dir \subseteq Seq(STRING) /\ MountPath \in Seq(STRING)
    /\ Empty \notin Param
    /\ \A d \in Dir \cup {MountPath} : Empty \notin ToSet(d)
    /\ \A d \in Dir : \A e \in Prefixes(d) : e \in Dir

ASSUME MethodAssumption ==
    /\ {"GET", "POST", "PUT"} \subseteq Method /\ Method \subseteq STRING
    /\ DOMAIN Stem \subseteq STRING /\ Stem \in [DOMAIN Stem -> STRING]

(* To begin a name is a strict order, and total among the names that begin *)
(* one name.                                                               *)
ASSUME NamePrefixesAssumption ==
    /\ NamePrefixes \subseteq STRING \X STRING
    /\ \A p \in NamePrefixes : p[1] # p[2]
    /\ \A p, q \in NamePrefixes :
          /\ p[2] = q[1] => <<p[1], q[2]>> \in NamePrefixes
          /\ p[2] = q[2] => \/ p[1] = q[1]
                            \/ <<p[1], q[1]>> \in NamePrefixes
                            \/ <<q[1], p[1]>> \in NamePrefixes

ASSUME BoundAssumption == MaxPieces \in Nat /\ MaxFiles \in Nat /\ MaxMetas \in Nat

VARIABLES
    files,      \* the method files
    metas,      \* the meta files
    listing,    \* the method files in the order they are found
    phase,      \* how far createApp got
    merged,     \* how many socket endpoints were merged
    routes      \* routePaths: the routes built so far

vars == <<files, metas, listing, phase, merged, routes>>

File == [dir : Dir, method : Method, ext : {"js", "ts"}]

(* Of two meta files in one directory, which is listed first.              *)
MetaFile == [dir : Dir, nth : {"first", "second"}]

-----------------------------------------------------------------------------
(* Reading the directories.                                                *)

Exists(d) == \E f \in files \cup metas : IsPrefix(d, f.dir)

Leaf(d) == ~\E e \in Dir : IsStrictPrefix(d, e) /\ Exists(e)

(* validateLeafDirectory.  The directory /api itself always exists.        *)
Valid ==
    \A d \in Dir :
        Leaf(d) /\ (Exists(d) \/ d = <<>>) => \E f \in files : f.dir = d

(* The recursion of getAllFilePathsRec keeps what is below a directory     *)
(* together.                                                               *)
DepthFirst(list) ==
    \A i, j, k \in DOMAIN list : i < j /\ j < k =>
        \A d \in Dir :
            IsPrefix(d, list[i].dir) /\ IsPrefix(d, list[k].dir) =>
                IsPrefix(d, list[j].dir)

-----------------------------------------------------------------------------
(* Building the chains.                                                    *)

(* Definitions named Faulty... are plausible bugs that no action uses.     *)
FaultyStartsWith(path, dir) == dir = Front(path)

(* modulePath.startsWith(path.dirname(metaPath)), a comparison of strings: *)
(* the last segment of dir may be the beginning of a longer name.          *)
StartsWith(path, dir) ==
    \/ dir = <<>>
    \/ /\ Len(dir) <= Len(path)
       /\ IsPrefix(Front(dir), path)
       /\ \/ path[Len(dir)] = Last(dir)
          \/ <<Last(dir), path[Len(dir)]>> \in NamePrefixes

FaultyShorter(m, n) ==
    \/ Len(m.dir) > Len(n.dir)
    \/ /\ m.dir # n.dir /\ Len(m.dir) = Len(n.dir)
       /\ <<Last(m.dir), Last(n.dir)>> \in NamePrefixes
    \/ m.dir = n.dir /\ m.nth = "first" /\ n.nth = "second"

(* Of two meta paths that apply to the same module, the shorter string; of *)
(* two that are equally long the one listed first, as the sort is stable.  *)
Shorter(m, n) ==
    \/ Len(m.dir) < Len(n.dir)
    \/ /\ m.dir # n.dir /\ Len(m.dir) = Len(n.dir)
       /\ <<Last(m.dir), Last(n.dir)>> \in NamePrefixes
    \/ m.dir = n.dir /\ m.nth = "first" /\ n.nth = "second"

(* selectMetaPaths for the module of a method in a directory.              *)
SelectMetaPaths(dir, method) ==
    LET found == {m \in metas : StartsWith(Append(dir, method), m.dir)}
    IN  CHOOSE list \in SetToSeqs(found) :
            \A i, j \in DOMAIN list : i < j => Shorter(list[i], list[j])

(* An element of a chain, and the file it comes from if that matters: its  *)
(* extension, or which of two meta files it is.                            *)
Own(kind, dir, method, ext) ==
    [kind |-> kind, dir |-> dir, method |-> method, ext |-> ext]

MetaOwn(m) == Own("meta", m.dir, "", m.nth)

(* The middleware in front of a module's own.                              *)
Before(dir, method) ==
    LET paths == SelectMetaPaths(dir, method)
    IN  <<Own("app", <<>>, "", "")>>
          \o [i \in DOMAIN paths |-> MetaOwn(paths[i])]

(* A path is cut at its first dot, which is meant to be the extension's: a *)
(* directory with a dot in its name is taken for the method.               *)
FirstDot(dir) == SelectInSeq(dir, LAMBDA name : name \in DOMAIN Stem)

ModuleRoute(f) ==
    LET dot == FirstDot(f.dir) IN
    [method |-> IF dot = 0 THEN f.method ELSE Stem[f.dir[dot]],
     path |-> MountPath \o (IF dot = 0 THEN f.dir ELSE SubSeq(f.dir, 1, dot - 1)),
     chain |-> Append(Before(f.dir, f.method),
                      Own("module", f.dir, f.method, f.ext))]

FaultyEndpointRoute(e) ==
    [method |-> e.method, path |-> e.dir,
     chain |-> Append(Before(e.dir, e.method), Own("socket", e.dir, e.method, ""))]

EndpointRoute(e) ==
    [method |-> e.method, path |-> MountPath \o e.dir,
     chain |-> Append(Before(e.dir, e.method), Own("socket", e.dir, e.method, ""))]

Endpoints == <<[method |-> "GET", dir |-> <<"ws">>],
               [method |-> "POST", dir |-> <<"ws">>],
               [method |-> "PUT", dir |-> <<"ws", ":clientId">>]>>

SameRoute(route, endpoint) ==
    /\ route.method = endpoint.method
    /\ route.path = MountPath \o endpoint.dir

FaultyMergeRoute(e) ==
    IF \E i \in DOMAIN routes : SameRoute(routes[i], e)
    THEN routes
    ELSE Append(routes, EndpointRoute(e))

(* One turn of the loop of buildMergedRoutes: the application's own module *)
(* for the endpoint, if it has one, goes in front of it.                   *)
MergeRoute(e) ==
    LET target == SelectInSeq(routes, LAMBDA r : SameRoute(r, e)) IN
    IF target = 0
    THEN Append(routes, EndpointRoute(e))
    ELSE [routes EXCEPT ![target].chain =
              Append(@, Own("socket", e.dir, e.method, ""))]

-----------------------------------------------------------------------------
Init ==
    /\ files \in {ToSet(fs) : fs \in SeqOf(File, MaxFiles)}
    /\ metas \in {ToSet(ms) : ms \in SeqOf(MetaFile, MaxMetas)}
    /\ \A m \in metas : [m EXCEPT !.nth = "first"] \in metas
    /\ listing \in {list \in SetToSeqs(files) : DepthFirst(list)}
    /\ phase = "reading"
    /\ merged = 0
    /\ routes = <<>>

(* createApp rejects: a leaf has no method file, or the module of one has  *)
(* no default export.                                                      *)
Refuse ==
    /\ phase = "reading"
    /\ ~Valid \/ files # {}
    /\ phase' = "refused"
    /\ UNCHANGED <<files, metas, listing, merged, routes>>

(* buildRoutePaths and buildNormalRoutes.                                  *)
BuildNormalRoutes ==
    /\ phase = "reading"
    /\ Valid
    /\ phase' = "merging"
    /\ routes' = [i \in DOMAIN listing |-> ModuleRoute(listing[i])]
    /\ UNCHANGED <<files, metas, listing, merged>>

MergeSocketRoute ==
    /\ phase = "merging"
    /\ merged' = merged + 1
    /\ routes' = MergeRoute(Endpoints[merged'])
    /\ phase' = IF merged' = Len(Endpoints) THEN "serving" ELSE "merging"
    /\ UNCHANGED <<files, metas, listing>>

Next == Refuse \/ BuildNormalRoutes \/ MergeSocketRoute

Spec == Init /\ [][Next]_vars

-----------------------------------------------------------------------------
(* Serving.  The text of a path is the sequence of the pieces between its  *)
(* slashes: of "/a/" they are "", "a" and "".  It has no query: toSegments *)
(* drops that before it splits, and Bun's router never sees it.            *)

(* The string of a route's path: mountPath and basePath joined, or "/".    *)
Text(path) == <<Empty>> \o (IF path = <<>> THEN <<Empty>> ELSE path)

(* What is in front of a leading slash and behind a trailing one goes.     *)
ToSegments(text) ==
    SubSeq(text, IF Len(text) > 1 /\ text[1] = Empty THEN 2 ELSE 1,
                 IF Len(text) > 1 /\ Last(text) = Empty THEN Len(text) - 1 ELSE Len(text))

Request ==
    [method : Method,
     text : {<<Empty>> \o p : p \in
        {MountPath \o s : s \in
            UNION {[1..n -> RequestName \cup {Empty}] : n \in 0..MaxPieces}} \ {<<>>}}]

NotFound == <<"404">>
MethodNotAllowed == <<"405">>

MatchesSegments(pattern, segments) ==
    /\ Len(pattern) = Len(segments)
    /\ \A i \in DOMAIN pattern : pattern[i] \in Param \/ pattern[i] = segments[i]

(* The routes whose segments a request over a socket matches.              *)
Matching(text) ==
    LET segments == ToSegments(text) IN
    {i \in DOMAIN routes :
        MatchesSegments(ToSegments(Text(routes[i].path)), segments)}

FaultyMatchRoute(req) ==
    LET matching == Matching(req.text) IN
    IF matching = {} THEN NotFound
    ELSE IF routes[Min(matching)].method # req.method THEN MethodNotAllowed
    ELSE routes[Min(matching)].chain

(* matchRoute: what a request over a socket runs.                          *)
MatchRoute(req) ==
    LET matching == Matching(req.text)
        found == {i \in matching : routes[i].method = req.method}
    IN  IF matching = {} THEN NotFound
        ELSE IF found = {} THEN MethodNotAllowed
        ELSE routes[Min(found)].chain

(* buildServerRoutes: the handlers by path, then by method.                *)
ServerRoute(path, method) ==
    LET found == SelectLastInSeq(routes, LAMBDA r :
                    r.path = path /\ r.method = method)
    IN  IF found = 0 THEN MethodNotAllowed ELSE routes[found].chain

(* Bun's router compares piece by piece, so a trailing slash makes another *)
(* path; a parameter takes any piece that is not empty.                    *)
HttpMatches(path, text) ==
    /\ Len(Text(path)) = Len(text)
    /\ \A i \in DOMAIN text :
          \/ Text(path)[i] = text[i]
          \/ Text(path)[i] \in Param /\ text[i] # Empty

(* It prefers a literal segment to a parameter.                            *)
MoreSpecific(p, q) ==
    \E i \in DOMAIN p :
        /\ q[i] \in Param /\ p[i] \notin Param
        /\ \A j \in 1..(i - 1) : p[j] \in Param <=> q[j] \in Param

Candidates(text) == {p \in {r.path : r \in ToSet(routes)} : HttpMatches(p, text)}

(* The paths whose handlers Bun's router would take.                       *)
HttpPaths(text) ==
    LET candidates == Candidates(text) IN
    {p \in candidates : ~\E q \in candidates : MoreSpecific(q, p)}

(* What a request over HTTP may run.                                       *)
HttpChains(req) ==
    LET paths == HttpPaths(req.text) IN
    IF paths = {} THEN {NotFound}
    ELSE {ServerRoute(p, req.method) : p \in paths}

-----------------------------------------------------------------------------
(* Type correctness; every path lies below the mount path.                 *)
TypeOK ==
    /\ files \subseteq File
    /\ metas \subseteq MetaFile
    /\ ToSet(listing) = files
    /\ phase \in {"reading", "refused", "merging", "serving"}
    /\ merged \in 0..Len(Endpoints)
    /\ \A i \in DOMAIN routes :
          /\ routes[i].method \in Method \cup ToSet(Stem)
          /\ IsPrefix(MountPath, routes[i].path)
          /\ routes[i].chain # <<>>

(* Middleware runs in the documented order (packages/server/README.md:172): *)
(* the application's, then that of the meta files from root to leaf, then  *)
(* the module's own, then the socket endpoint's handler where the route is *)
(* one.                                                                    *)
ChainInOrder ==
    \A i \in DOMAIN routes :
        LET chain == routes[i].chain
            rank == [app |-> 1, meta |-> 2, module |-> 3, socket |-> 4]
        IN  /\ chain[1].kind = "app"
            /\ Last(chain).kind \in {"module", "socket"}
            /\ \A j, k \in DOMAIN chain : j < k =>
                  \/ rank[chain[j].kind] < rank[chain[k].kind]
                  \/ /\ chain[j].kind = "meta" /\ chain[k].kind = "meta"
                     /\ Len(chain[j].dir) <= Len(chain[k].dir)
                     /\ chain[j] # chain[k]

(* No route escapes the middleware of the directories it lies in, where an *)
(* application puts its authentication: neither the files' routes nor the  *)
(* socket endpoints added to them, nor the routes that a dot in a name     *)
(* moved (packages/server/src/index.ts:245-290 and 353-356).               *)
MetaCovers ==
    phase = "serving" =>
        \A i \in DOMAIN routes : \A m \in metas :
            IsPrefix(MountPath \o m.dir, routes[i].path) =>
                MetaOwn(m) \in ToSet(routes[i].chain)

(* Whatever files the application has under /ws, and whatever other files  *)
(* a dot brings there, each socket endpoint is the end of exactly one      *)
(* chain, that of its method and path, and nothing else of it is answered  *)
(* by HTTP unless two files claim that route                               *)
(* (packages/server/src/index.ts:330-370).                                 *)
EndpointsServed ==
    phase = "serving" =>
        \A n \in DOMAIN Endpoints :
            LET e == Endpoints[n]
                own == Own("socket", e.dir, e.method, "")
                mine == {i \in DOMAIN routes : SameRoute(routes[i], e)}
                ends == {i \in DOMAIN routes : own \in ToSet(routes[i].chain)}
            IN  /\ Cardinality(ends) = 1
                /\ ends \subseteq mine
                /\ \A i \in ends : Last(routes[i].chain) = own
                /\ mine = ends => Last(ServerRoute(MountPath \o e.dir, e.method)) = own

(* A text without an empty piece, or the root's.                           *)
Clean(text) == text = <<Empty, Empty>> \/ \A i \in 2..Len(text) : text[i] # Empty

(* One path matches at most, and one file claims the route.                *)
Unambiguous(req) ==
    LET candidates == Candidates(req.text)
        claims == {i \in DOMAIN routes :
                      routes[i].path \in candidates /\ routes[i].method = req.method}
    IN  Cardinality(candidates) <= 1 /\ Cardinality(claims) <= 1

(* Two routers serve one table: matchRoute takes the first route listed    *)
(* with the method, of all that match; Bun's takes the most specific path  *)
(* and of two files for it the last.  Whatever the files, their order and  *)
(* the request, one that runs a chain over HTTP runs a chain of its method *)
(* over a socket too; what a socket does not know HTTP does not know       *)
(* either, and the other way round unless the text has an empty piece, as  *)
(* in "/users/", which only a socket serves; and a request that is neither *)
(* so written nor ambiguous gets the same from both                        *)
(* (packages/server/src/socket.ts:301-322 and index.ts:372-406).           *)
SocketServesHttp ==
    phase = "serving" =>
        \A req \in Request :
            LET http == HttpChains(req)
                socket == MatchRoute(req)
            IN  /\ http \ {NotFound, MethodNotAllowed} # {} =>
                      \E r \in ToSet(routes) :
                          r.method = req.method /\ r.chain = socket
                /\ socket = NotFound => http = {NotFound}
                /\ Clean(req.text) /\ http = {NotFound} => socket = NotFound
                /\ Clean(req.text) /\ Unambiguous(req) => http = {socket}

(* "This middleware will be applied to all sibling and descendent method   *)
(* definition files within that directory" (packages/server/README.md:258): *)
(* a route runs the middleware of no other directory.                      *)
MetaScope ==
    \A i \in DOMAIN routes :
        \A j \in DOMAIN routes[i].chain :
            routes[i].chain[j].kind = "meta" =>
                IsPrefix(MountPath \o routes[i].chain[j].dir, routes[i].path)
=============================================================================
