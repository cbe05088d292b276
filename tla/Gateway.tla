------------------------------- MODULE Gateway -------------------------------
(***************************************************************************)
(* The way of a request through the outer chain of the gateway:            *)
(* Manager.ServeHTTP, then Tracing, Router, Metrics, Auth, RateLimiter and *)
(* the proxy handler of one snapshot, while reloads replace the snapshot.  *)
(* The decision of the rate limit store and the upstream exchange are the  *)
(* subject of RateLimiter and ResilientTransport and arbitrary here.       *)
(***************************************************************************)
EXTENDS Naturals, Sequences, FiniteSets, SequencesExt

CONSTANTS
    Request,  \* requests in flight
    Message,  \* what a client may send
    Config,   \* the configurations an operator may write
    Trusted,  \* the addresses of the trusted proxies
    Unparsable, \* a token or an address that cannot be parsed
    Segment,  \* what sanitizeRedisKeySegment makes of a user ID
    None

VARIABLES
    current,  \* the configuration of the current snapshot
    req,      \* per request: its goroutine
    inFlight  \* gateway_in_flight_requests, per service

vars == <<current, req, inFlight>>

\* Every server has finitely many goroutines.
ASSUME RequestAssumption == IsFiniteSet(Request)

\* The address of a connection's peer parses, the forwarded hops need not.
ASSUME MessageAssumption ==
    /\ Unparsable \notin Trusted /\ None # "401"
    /\ \A m \in Message :
          m.remote # Unparsable /\ m.forwarded \in Seq(Range(m.forwarded))

Internal == "gateway-internal"
UserID == "X-User-ID"
Reserved == {<<"health">>, <<"ready">>}

-----------------------------------------------------------------------------
(* Config.Validate.  Numbers that are only range-checked and never told      *)
(* apart afterwards (ports, timeouts, retry and breaker settings) are left   *)
(* out; an empty secret, address or path is None.                            *)

ValidLimit(limit) ==
    /\ limit.requests > 0 /\ limit.window > 0
    /\ limit.strategy \in {"", "sliding_window", "token_bucket"}

ValidRoute(route) ==
    /\ route.path # None /\ route.service # None
    /\ route.path \in Reserved =>
          route.service = Internal /\ ~route.auth /\ route.limit = None
    /\ route.limit # None => ValidLimit(route.limit)
    /\ route.service # Internal => route.targets > 0

Valid(c) ==
    /\ \A i \in DOMAIN c.routes : ValidRoute(c.routes[i])
    /\ (\E i \in DOMAIN c.routes : c.routes[i].auth) => c.secret # None /\ c.algorithm # None
    /\ c.algorithm \in {None, "HS256"}
    /\ (\E i \in DOMAIN c.routes : c.routes[i].limit # None) => c.redis # None
    /\ c.metricsOn =>
          /\ c.metricsPath \notin {None, <<>>}
          /\ \A i \in DOMAIN c.routes :
                /\ ~IsPrefix(c.routes[i].path, c.metricsPath)
                /\ ~IsPrefix(c.metricsPath, c.routes[i].path)

\* What decoding into config.Config guarantees of an accepted configuration.
ASSUME ConfigAssumption ==
    \A c \in Config : Valid(c) =>
        /\ c.metricsOn \in BOOLEAN
        /\ DOMAIN c.routes = 1..Len(c.routes) /\ Len(c.routes) \in Nat
        /\ \A i \in DOMAIN c.routes :
              c.routes[i].auth \in BOOLEAN /\ c.routes[i].path \in Seq(STRING)

Service == UNION {{c.routes[i].service : i \in DOMAIN c.routes} : c \in Config}

Idle == [pc |-> "idle", msg |-> None, snap |-> None, route |-> None, user |-> None,
         bucket |-> None, counted |-> FALSE, outcome |-> None]

Init ==
    /\ current \in {c \in Config : Valid(c)}
    /\ req = [r \in Request |-> Idle]
    /\ inFlight = [s \in Service |-> 0]

-----------------------------------------------------------------------------
At(r, pc) == req[r].pc = pc
Msg(r) == req[r].msg
Go(r, pc) == [req EXCEPT ![r].pc = pc]
Answer(r, status) == [req EXCEPT ![r].pc = "return", ![r].outcome = status]

\* A validated configuration replaces the snapshot; requests keep theirs.
Reload(c) ==
    /\ Valid(c)
    /\ current' = c
    /\ UNCHANGED <<req, inFlight>>

\* The client's own X-User-ID comes with the request.
Arrive(r, m) ==
    /\ At(r, "idle")
    /\ req' = [req EXCEPT ![r].pc = "dispatch", ![r].msg = m, ![r].user = m.userHeader]
    /\ UNCHANGED <<current, inFlight>>

\* Manager.ServeHTTP: /health, /ready and the metrics page are the gateway's own.
Dispatch(r) ==
    /\ At(r, "dispatch")
    /\ LET path == Msg(r).path
           taken == [req EXCEPT ![r].snap = current]
       IN  req' = IF path \in Reserved THEN Answer(r, "own")
                  ELSE IF current.metricsOn /\ path = current.metricsPath
                       THEN Answer(r, IF Msg(r).private THEN "own" ELSE "403")
                  ELSE [taken EXCEPT ![r].pc = "trace"]
    /\ UNCHANGED <<current, inFlight>>

\* Tracing drops the identity headers the client sent and issues a request ID.
Trace(r) ==
    /\ At(r, "trace")
    /\ req' = [Go(r, "route") EXCEPT ![r].user = None]
    /\ UNCHANGED <<current, inFlight>>

\* The routes are sorted by falling length, stably; the first prefix wins.
Precedes(routes, i, j) ==
    \/ Len(routes[i].path) > Len(routes[j].path)
    \/ Len(routes[i].path) = Len(routes[j].path) /\ i < j

Match(routes, path) ==
    LET hits == {i \in DOMAIN routes : IsPrefix(routes[i].path, path)} IN
    {routes[i] : i \in {h \in hits : \A j \in hits \ {h} : Precedes(routes, h, j)}}

Route(r) ==
    /\ At(r, "route")
    /\ LET found == Match(req[r].snap.routes, Msg(r).path) IN
       \/ found = {} /\ req' = Answer(r, "404")
       \/ \E route \in found :
             req' = IF route.methods # {} /\ Msg(r).method \notin route.methods
                    THEN Answer(r, "405")
                    ELSE [Go(r, "meter") EXCEPT ![r].route = route]
    /\ UNCHANGED <<current, inFlight>>

\* Without a registry (metrics disabled) the middleware is the identity.
Meter(r) ==
    /\ At(r, "meter")
    /\ LET on == req[r].snap.metricsOn IN
       /\ req' = [Go(r, "auth") EXCEPT ![r].counted = on]
       /\ inFlight' = IF on THEN [inFlight EXCEPT ![req[r].route.service] = @ + 1]
                      ELSE inFlight
    /\ UNCHANGED current

\* A token is None, malformed, or a record of what the parser and the claim
\* checks look at: its signature, its times, and the claims it has at all (a blank
\* subject or role is None).  A good one yields its subject.
Accepted(token) ==
    /\ token \notin {None, Unparsable}
    /\ token.signed /\ token.fresh
    /\ {"exp", "iat"} \subseteq token.times
    /\ token.subject # None /\ token.role # None

Authenticate(r) ==
    /\ At(r, "auth")
    /\ LET c == req[r].snap
           token == Msg(r).token
       IN  req' = IF ~req[r].route.auth THEN Go(r, "limit")
                  ELSE IF c.secret = None \/ c.algorithm # "HS256" THEN Answer(r, "500")
                  ELSE IF ~Accepted(token) THEN Answer(r, "401")
                  ELSE [Go(r, "limit") EXCEPT ![r].user = token.subject]
    /\ UNCHANGED <<current, inFlight>>

-----------------------------------------------------------------------------
(* RateLimiter: the bucket of a request *)

\* Faulty variant: the leftmost hop is taken at its word.
ForwardedLeftmost(remote, hops) == hops[1]

\* forwardedClientIP walks the hops of X-Forwarded-For from the last one towards
\* the client.  At hop `i` it holds the address that hop was reached from;
Downstream(remote, hops, i) == IF i = Len(hops) THEN remote ELSE hops[i + 1]

\* it cannot go on when there is no such hop, or nobody it trusts named it,
Unverifiable(remote, hops, i) ==
    i = 0 \/ Downstream(remote, hops, i) \notin Trusted \/ hops[i] = Unparsable

\* and it need not when the hop is no proxy.
Stops(remote, hops) ==
    {i \in 0 .. Len(hops) : Unverifiable(remote, hops, i) \/ hops[i] \notin Trusted}

ForwardedFrom(remote, hops) ==
    LET i == Max(Stops(remote, hops)) IN
    IF Unverifiable(remote, hops, i) THEN Downstream(remote, hops, i) ELSE hops[i]

\* requestClientIP
ClientIP(m) ==
    IF m.remote \in Trusted /\ m.forwarded # <<>>
    THEN ForwardedFrom(m.remote, m.forwarded) ELSE m.remote

\* rateLimitClientKey and the client's part of Key: user IDs that differ only in
\* the blanks around them, or in a brace for an underscore, share a bucket.
ClientKey(r) ==
    IF req[r].user # None THEN <<"user", Segment[req[r].user]>>
    ELSE <<"ip", ClientIP(Msg(r))>>

\* The store allows, refuses, or is missing or fails and lets the request pass.
StoreAnswers(r) ==
    LET charged == [req EXCEPT ![r].bucket = ClientKey(r)] IN
    {Go(r, "proxy")} \cup
    IF req[r].snap.redis = None THEN {}
    ELSE {[charged EXCEPT ![r].pc = "proxy"],
          [charged EXCEPT ![r].pc = "return", ![r].outcome = "429"]}

Limit(r) ==
    /\ At(r, "limit")
    /\ LET limit == req[r].route.limit IN
       req' \in IF limit = None THEN {Go(r, "proxy")}
                ELSE IF limit.strategy = "token_bucket" THEN {Answer(r, "501")}
                ELSE IF limit.requests = 0 \/ limit.window = 0 THEN {Answer(r, "500")}
                ELSE StoreAnswers(r)
    /\ UNCHANGED <<current, inFlight>>

-----------------------------------------------------------------------------
\* Faulty variant: the outgoing request carries the headers that came in.
ProxyOriginalHeaders(r) ==
    /\ At(r, "proxy")
    /\ req' = IF req[r].route.service = Internal THEN Answer(r, "200")
              ELSE IF req[r].route.targets = 0 THEN Answer(r, "no targets")
              ELSE [Go(r, "upstream") EXCEPT ![r].user = Msg(r).userHeader]
    /\ UNCHANGED <<current, inFlight>>

\* httputil.ReverseProxy takes the headers that the request's own Connection
\* header names out of what it sends on, before it calls Rewrite, which does not
\* set the identity again.
OutgoingUser(r) == IF UserID \in Msg(r).connection THEN None ELSE req[r].user

\* Handler.ServeHTTP and the ErrorHandler of the reverse proxy.
Proxy(r) ==
    /\ At(r, "proxy")
    /\ req' = IF req[r].route.service = Internal THEN Answer(r, "200")
              ELSE IF req[r].route.targets = 0 THEN Answer(r, "no targets")
              ELSE [Go(r, "upstream") EXCEPT ![r].user = OutgoingUser(r)]
    /\ UNCHANGED <<current, inFlight>>

Upstream(r) ==
    /\ At(r, "upstream")
    /\ \E status \in {"200", "502", "503", "504"} : req' = Answer(r, status)
    /\ UNCHANGED <<current, inFlight>>

\* Faulty variant: whether to decrement is read from the current snapshot.
ReturnByCurrent(r) ==
    /\ At(r, "return")
    /\ req' = [req EXCEPT ![r] = Idle]
    /\ inFlight' = IF current.metricsOn /\ req[r].route # None
                   THEN [inFlight EXCEPT ![req[r].route.service] = @ - 1] ELSE inFlight
    /\ UNCHANGED current

\* The handlers return; the deferred function of Metrics decrements the gauge.
Return(r) ==
    /\ At(r, "return")
    /\ req' = [req EXCEPT ![r] = Idle]
    /\ inFlight' = IF req[r].counted
                   THEN [inFlight EXCEPT ![req[r].route.service] = @ - 1] ELSE inFlight
    /\ UNCHANGED current

Serve(r) ==
    \/ Dispatch(r) \/ Trace(r) \/ Route(r) \/ Meter(r) \/ Authenticate(r)
    \/ Limit(r) \/ Proxy(r) \/ Upstream(r) \/ Return(r)

Next ==
    \/ \E c \in Config : Reload(c)
    \/ \E r \in Request : Serve(r) \/ \E m \in Message : Arrive(r, m)

Spec == Init /\ [][Next]_vars

-----------------------------------------------------------------------------
\* Types of the variables; the snapshot in force passed Config.Validate.
TypeOK ==
    /\ current \in {c \in Config : Valid(c)}
    /\ inFlight \in [Service -> Nat]
    /\ \A r \in Request :
          /\ req[r].msg \in Message \cup {None}
          /\ req[r].snap \in Config \cup {None}
          /\ req[r].counted => req[r].route # None

\* The in-flight gauge of a service counts the requests of that service that
\* were counted on entry, with the metrics on, and are being served, through
\* every early answer and through reloads that switch the metrics on and off
\* while requests are under way.
InFlightExact ==
    \A s \in Service :
        inFlight[s] = Cardinality({r \in Request : req[r].counted /\ req[r].route.service = s})

\* What reaches an upstream came with a verified token if the most specific route
\* of the snapshot that serves it is protected, and then carries the subject of
\* that token, unless the request's Connection header names X-User-ID: the reverse
\* proxy then drops the header (proxy.go:40-54) and the upstream is told of nobody.
\* On other routes it carries no identity, whatever the client sent as its own and
\* whatever was reloaded since.
IdentityFromToken ==
    \A r \in Request : At(r, "upstream") =>
        LET m == Msg(r)
            routes == req[r].snap.routes
            protected == \E i \in DOMAIN routes :
                /\ IsPrefix(routes[i].path, m.path) /\ routes[i].auth
                /\ \A j \in DOMAIN routes :
                      IsPrefix(routes[j].path, m.path) /\ j # i => Precedes(routes, i, j)
        IN  /\ protected => Accepted(m.token)
            /\ req[r].user = IF protected /\ UserID \notin m.connection
                             THEN m.token.subject ELSE None

\* A request is charged to the subject of its token (as a key segment, whatever
\* its Connection header says), or to the address of the hop nearest to the client
\* that only trusted proxies vouch for; a request that fails authentication is
\* charged to nobody.
ChargedToItsClient ==
    \A r \in Request : req[r].bucket # None =>
        LET m == Msg(r)
            chain == m.forwarded \o <<m.remote>>
            vouched == {i \in DOMAIN chain :
                          /\ chain[i] # Unparsable
                          /\ \A j \in i + 1 .. Len(chain) : chain[j] \in Trusted}
        IN  /\ req[r].route.auth => req[r].bucket = <<"user", Segment[m.token.subject]>>
            /\ ~req[r].route.auth =>
                  \E i \in vouched : /\ req[r].bucket = <<"ip", chain[i]>>
                                     /\ \A j \in vouched : i <= j
            /\ req[r].outcome # "401"

==============================================================================
