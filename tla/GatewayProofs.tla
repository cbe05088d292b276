---------------------------- MODULE GatewayProofs ----------------------------
(***************************************************************************)
(* The outer chain for any configurations, messages and reloads and any    *)
(* finite number of requests: the in-flight gauge is exact, and what an    *)
(* upstream is told of the caller comes from a verified token only.        *)
(***************************************************************************)
EXTENDS Gateway, FiniteSetTheorems, TLAPS

ValidConfig == {c \in Config : Valid(c)}
RouteOf == UNION {{c.routes[i] : i \in DOMAIN c.routes} : c \in Config}
User == {None} \cup {m.userHeader : m \in Message} \cup {m.token.subject : m \in Message}
Bucket ==
  {None} \cup {<<"user", Segment[u]>> : u \in User} \cup {<<"ip", ClientIP(m)>> : m \in Message}

Code == {"own", "200", "401", "403", "404", "405", "429", "500", "501", "502", "503", "504",
         "no targets"}

RequestType ==
  [pc : {"idle", "dispatch", "trace", "route", "meter", "auth", "limit", "proxy",
         "upstream", "return"},
   msg : Message \cup {None}, snap : Config \cup {None}, route : RouteOf \cup {None},
   user : User, bucket : Bucket, counted : BOOLEAN, outcome : Code \cup {None}]

\* The route whose Auth decides about a path: the most specific one.
IsProtected(routes, path) ==
  \E i \in DOMAIN routes :
     /\ IsPrefix(routes[i].path, path) /\ routes[i].auth
     /\ \A j \in DOMAIN routes :
           IsPrefix(routes[j].path, path) /\ j # i => Precedes(routes, i, j)

\* What a request has established when it comes to each handler.
Sound(q) ==
  /\ q.pc \in {"idle", "dispatch", "trace", "route", "meter"} => ~q.counted
  /\ q.pc # "idle" => q.msg \in Message
  /\ q.pc \notin {"idle", "dispatch", "return"} => q.snap \in ValidConfig
  /\ q.pc \in {"route", "meter", "auth"} => q.user = None
  /\ q.pc \in {"meter", "auth", "limit", "proxy", "upstream"} =>
        q.route \in Match(q.snap.routes, q.msg.path)
  /\ q.pc \in {"limit", "proxy"} =>
        IF q.route.auth THEN Accepted(q.msg.token) /\ q.user = q.msg.token.subject
                        ELSE q.user = None
  /\ q.pc = "upstream" =>
        IF q.route.auth
        THEN /\ Accepted(q.msg.token)
             /\ q.user = IF UserID \in q.msg.connection THEN None ELSE q.msg.token.subject
        ELSE q.user = None
  /\ q.counted => q.route.service \in Service

Shape ==
  /\ current \in ValidConfig
  /\ req \in [Request -> RequestType]
  /\ \A r \in Request : Sound(req[r])
  /\ inFlight \in [Service -> Int]

IInv == Shape /\ InFlightExact

-----------------------------------------------------------------------------
\* A matched route is one of the configuration, with its service.
LEMMA MatchIsRoute ==
  ASSUME NEW c \in ValidConfig, NEW path, NEW route \in Match(c.routes, path)
  PROVE  route \in RouteOf /\ route.service \in Service /\ route.auth \in BOOLEAN
<1>1. PICK i \in DOMAIN c.routes : route = c.routes[i]
  BY DEF Match
<1> QED BY <1>1, ConfigAssumption DEF RouteOf, Service, ValidConfig

\* Two different routes do not precede each other: there is at most one match.
LEMMA PrecedesAsymmetric ==
  ASSUME NEW c \in ValidConfig, NEW i \in DOMAIN c.routes, NEW j \in DOMAIN c.routes,
         Precedes(c.routes, i, j), Precedes(c.routes, j, i)
  PROVE  FALSE
<1>1. i \in Nat /\ j \in Nat
  BY ConfigAssumption DEF ValidConfig
<1>2. Len(c.routes[i].path) \in Nat /\ Len(c.routes[j].path) \in Nat
  <2>1. c.routes[i].path \in Seq(STRING) /\ c.routes[j].path \in Seq(STRING)
    BY ConfigAssumption DEF ValidConfig
  <2> QED BY <2>1
<1> QED BY <1>1, <1>2 DEF Precedes

\* The router's match decides as the most specific route does.
LEMMA MatchDecides ==
  ASSUME NEW c \in ValidConfig, NEW path, NEW route \in Match(c.routes, path)
  PROVE  IsProtected(c.routes, path) <=> route.auth
<1>1. PICK h \in DOMAIN c.routes :
        /\ route = c.routes[h] /\ IsPrefix(c.routes[h].path, path)
        /\ \A j \in DOMAIN c.routes :
              IsPrefix(c.routes[j].path, path) /\ j # h => Precedes(c.routes, h, j)
  BY DEF Match
<1>2. ASSUME route.auth PROVE IsProtected(c.routes, path)
  BY <1>1, <1>2 DEF IsProtected
<1>3. ASSUME IsProtected(c.routes, path) PROVE route.auth
  <2>1. PICK i \in DOMAIN c.routes :
          /\ IsPrefix(c.routes[i].path, path) /\ c.routes[i].auth
          /\ \A j \in DOMAIN c.routes :
                IsPrefix(c.routes[j].path, path) /\ j # i => Precedes(c.routes, i, j)
    BY <1>3 DEF IsProtected
  <2>2. i = h
    BY <1>1, <2>1, PrecedesAsymmetric
  <2> QED BY <1>1, <2>1, <2>2
<1> QED BY <1>2, <1>3, MatchIsRoute

-----------------------------------------------------------------------------
\* One if the gauge of the service counts the request, else none.
One(q, s) == IF q.counted /\ q.route.service = s THEN 1 ELSE 0

Counting(s) == {r \in Request : req[r].counted /\ req[r].route.service = s}

\* When one request moves, the number counted changes by what it was and what
\* it becomes.
LEMMA CountingMoves ==
  ASSUME NEW s, NEW r \in Request, NEW q,
         req \in [Request -> RequestType], req' = [req EXCEPT ![r] = q]
  PROVE  /\ Cardinality(Counting(s)) \in Nat
         /\ Cardinality(Counting(s))' = Cardinality(Counting(s)) - One(req[r], s) + One(q, s)
<1> DEFINE H == Counting(s)
           Rest == H \ {r}
<1>1. IsFiniteSet(H) /\ IsFiniteSet(Rest)
  BY RequestAssumption, FS_Subset, FS_RemoveElement DEF Counting
<1>2. Cardinality(H) \in Nat /\ Cardinality(Rest) \in Nat
  BY <1>1, FS_CardinalityType
<1>3. Cardinality(Rest) = IF r \in H THEN Cardinality(H) - 1 ELSE Cardinality(H)
  BY <1>1, FS_RemoveElement
<1>4. r \in H <=> One(req[r], s) = 1
  BY DEF Counting, One
<1>5. H' = IF q.counted /\ q.route.service = s THEN Rest \cup {r} ELSE Rest
  BY DEF Counting
<1>6. Cardinality(Rest \cup {r}) = Cardinality(Rest) + 1
  BY <1>1, FS_AddElement
<1>7. Cardinality(H)' = Cardinality(Rest) + One(q, s)
  BY <1>2, <1>5, <1>6 DEF One
<1> QED BY <1>2, <1>3, <1>4, <1>7 DEF One

\* A step of one request that keeps the gauge in step with it.
LEMMA RequestMoves ==
  ASSUME IInv, NEW r \in Request, NEW q \in RequestType, Sound(q),
         req' = [req EXCEPT ![r] = q], UNCHANGED current,
         inFlight' \in [Service -> Int],
         \A s \in Service : inFlight'[s] = inFlight[s] - One(req[r], s) + One(q, s)
  PROVE  IInv'
<1>1. Shape'
  BY DEF IInv, Shape
<1>2. InFlightExact'
  <2> SUFFICES ASSUME NEW s \in Service
               PROVE  inFlight'[s] = Cardinality(Counting(s))'
    BY DEF InFlightExact, Counting
  <2>1. inFlight[s] = Cardinality(Counting(s))
    BY DEF IInv, InFlightExact, Counting
  <2>2. Cardinality(Counting(s))' = Cardinality(Counting(s)) - One(req[r], s) + One(q, s)
    BY CountingMoves DEF IInv, Shape
  <2> QED BY <2>1, <2>2
<1> QED BY <1>1, <1>2 DEF IInv

\* In particular one that is counted as before.
LEMMA CountedAsBefore ==
  ASSUME IInv, NEW r \in Request, NEW q \in RequestType, Sound(q),
         req' = [req EXCEPT ![r] = q], UNCHANGED <<current, inFlight>>,
         q.counted = req[r].counted, q.counted => q.route = req[r].route
  PROVE  IInv'
<1>1. \A s \in Service : inFlight'[s] = inFlight[s] - One(req[r], s) + One(q, s)
  BY DEF IInv, Shape, One
<1> QED BY <1>1, RequestMoves DEF IInv, Shape

-----------------------------------------------------------------------------
\* Every request has a typed record that is sound where it stands.
LEMMA Typed ==
  ASSUME IInv, NEW r \in Request
  PROVE  req[r] \in RequestType /\ Sound(req[r])
BY DEF IInv, Shape

\* Any handler may answer and return.
LEMMA Answered ==
  ASSUME IInv, NEW r \in Request, req[r].pc # "idle", NEW status \in Code,
         req' = Answer(r, status), UNCHANGED <<current, inFlight>>
  PROVE  IInv'
<1> DEFINE q == [req[r] EXCEPT !.pc = "return", !.outcome = status]
<1>1. req[r] \in RequestType /\ Sound(req[r])
  BY Typed
<1>2. q \in RequestType
  BY <1>1 DEF RequestType
<1>3. /\ q.pc = "return" /\ q.msg = req[r].msg /\ q.counted = req[r].counted
      /\ q.route = req[r].route
  BY <1>1 DEF RequestType
<1>4. req' = [req EXCEPT ![r] = q]
  BY DEF Answer
<1>5. Sound(q)
  BY <1>1, <1>3 DEF Sound
<1> HIDE DEF q
<1> QED BY <1>2, <1>3, <1>4, <1>5, CountedAsBefore

\* Or it hands on to the next handler.
LEMMA HandedOn ==
  ASSUME IInv, NEW r \in Request, NEW q \in RequestType, Sound(q),
         req' = [req EXCEPT ![r] = q], UNCHANGED <<current, inFlight>>,
         ~req[r].counted, ~q.counted
  PROVE  IInv'
<1>1. q.counted \in BOOLEAN /\ req[r].counted \in BOOLEAN
  BY Typed DEF RequestType
<1>2. q.counted = req[r].counted
  BY <1>1
<1> QED BY <1>2, CountedAsBefore

-----------------------------------------------------------------------------
LEMMA ReloadIInv ==
  ASSUME IInv, NEW c \in Config, Reload(c)
  PROVE  IInv'
BY DEF IInv, Shape, InFlightExact, Reload, ValidConfig

LEMMA ArriveIInv ==
  ASSUME IInv, NEW r \in Request, NEW m \in Message, Arrive(r, m)
  PROVE  IInv'
<1> DEFINE q == [req[r] EXCEPT !.pc = "dispatch", !.msg = m, !.user = m.userHeader]
<1>1. req[r] \in RequestType /\ Sound(req[r]) /\ req[r].pc = "idle"
  BY Typed DEF Arrive, At
<1>2. q \in RequestType
  BY <1>1 DEF RequestType, User
<1>3. q.pc = "dispatch" /\ q.msg = m /\ q.counted = req[r].counted /\ ~req[r].counted
  BY <1>1 DEF RequestType, Sound
<1>4. req' = [req EXCEPT ![r] = q] /\ UNCHANGED <<current, inFlight>>
  BY DEF Arrive
<1>5. Sound(q)
  BY <1>3 DEF Sound
<1> HIDE DEF q
<1> QED BY <1>2, <1>3, <1>4, <1>5, HandedOn

LEMMA DispatchIInv ==
  ASSUME IInv, NEW r \in Request, Dispatch(r)
  PROVE  IInv'
<1> DEFINE q == [req[r] EXCEPT !.snap = current, !.pc = "trace"]
<1>1. req[r] \in RequestType /\ Sound(req[r]) /\ req[r].pc = "dispatch"
  BY Typed DEF Dispatch, At
<1>2. current \in ValidConfig /\ UNCHANGED <<current, inFlight>>
  BY DEF IInv, Shape, Dispatch
<1>3. \/ \E status \in Code : req' = Answer(r, status)
      \/ req' = [req EXCEPT ![r] = q]
  BY <1>1 DEF Dispatch, IInv, Shape, Code
<1>4. ASSUME NEW status \in Code, req' = Answer(r, status)
      PROVE  IInv'
  BY <1>1, <1>2, <1>4, Answered
<1>5. CASE req' = [req EXCEPT ![r] = q]
  <2>1. q \in RequestType
    BY <1>1, <1>2 DEF RequestType, ValidConfig
  <2>2. /\ q.pc = "trace" /\ q.msg = req[r].msg /\ q.snap = current
        /\ q.counted = req[r].counted /\ ~req[r].counted
    BY <1>1 DEF RequestType, Sound
  <2>3. Sound(q)
    BY <1>1, <1>2, <2>2 DEF Sound
  <2> HIDE DEF q
  <2> QED BY <1>2, <1>5, <2>1, <2>2, <2>3, HandedOn
<1> QED BY <1>3, <1>4, <1>5

LEMMA TraceIInv ==
  ASSUME IInv, NEW r \in Request, Trace(r)
  PROVE  IInv'
<1> DEFINE q == [req[r] EXCEPT !.pc = "route", !.user = None]
<1>1. req[r] \in RequestType /\ Sound(req[r]) /\ req[r].pc = "trace"
  BY Typed DEF Trace, At
<1>2. q \in RequestType
  BY <1>1 DEF RequestType, User
<1>3. /\ q.pc = "route" /\ q.msg = req[r].msg /\ q.snap = req[r].snap /\ q.user = None
      /\ q.counted = req[r].counted /\ ~req[r].counted
  BY <1>1 DEF RequestType, Sound
<1>4. req' = [req EXCEPT ![r] = q] /\ UNCHANGED <<current, inFlight>>
  BY <1>1 DEF Trace, Go, IInv, Shape
<1>5. Sound(q)
  BY <1>1, <1>3 DEF Sound
<1> HIDE DEF q
<1> QED BY <1>2, <1>3, <1>4, <1>5, HandedOn

LEMMA RouteIInv ==
  ASSUME IInv, NEW r \in Request, Route(r)
  PROVE  IInv'
<1>1. req[r] \in RequestType /\ Sound(req[r]) /\ req[r].pc = "route"
  BY Typed DEF Route, At
<1>2. UNCHANGED <<current, inFlight>>
  BY DEF Route
<1>3. ASSUME NEW status \in Code, req' = Answer(r, status)
      PROVE  IInv'
  BY <1>1, <1>2, <1>3, Answered
<1>4. ASSUME NEW route \in Match(req[r].snap.routes, Msg(r).path),
             req' = [Go(r, "meter") EXCEPT ![r].route = route]
      PROVE  IInv'
  <2> DEFINE q == [req[r] EXCEPT !.pc = "meter", !.route = route]
  <2>1. route \in RouteOf
    <3>1. req[r].snap \in ValidConfig
      BY <1>1 DEF Sound
    <3> QED BY ONLY <3>1, <1>4, MatchIsRoute
  <2>2. q \in RequestType
    BY <1>1, <2>1 DEF RequestType
  <2>3. /\ q.pc = "meter" /\ q.msg = req[r].msg /\ q.snap = req[r].snap /\ q.user = None
        /\ q.route = route /\ q.counted = req[r].counted /\ ~req[r].counted
    BY <1>1 DEF RequestType, Sound
  <2>4. req' = [req EXCEPT ![r] = q]
    BY <1>1, <1>4 DEF Go, IInv, Shape
  <2>5. Sound(q)
    BY <1>1, <1>4, <2>3 DEF Sound, Msg
  <2> HIDE DEF q
  <2> QED BY <1>2, <2>2, <2>3, <2>4, <2>5, HandedOn
<1> QED BY <1>3, <1>4 DEF Route, Code

-----------------------------------------------------------------------------
\* The gauge goes up with the request it counts.
LEMMA MeterIInv ==
  ASSUME IInv, NEW r \in Request, Meter(r)
  PROVE  IInv'
<1> DEFINE on == req[r].snap.metricsOn
           q == [req[r] EXCEPT !.pc = "auth", !.counted = on]
           s0 == req[r].route.service
<1>1. req[r] \in RequestType /\ Sound(req[r]) /\ req[r].pc = "meter"
  BY Typed DEF Meter, At
<1>2. on \in BOOLEAN /\ s0 \in Service /\ ~req[r].counted
  BY <1>1, ConfigAssumption, MatchIsRoute DEF Sound, ValidConfig
<1>3. q \in RequestType
  BY <1>1, <1>2 DEF RequestType
<1>4. /\ q.pc = "auth" /\ q.msg = req[r].msg /\ q.snap = req[r].snap
      /\ q.user = req[r].user /\ q.route = req[r].route /\ q.counted = on
  BY <1>1 DEF RequestType
<1>5. req' = [req EXCEPT ![r] = q] /\ UNCHANGED current
  BY <1>1 DEF Meter, Go, IInv, Shape
<1>6. Sound(q)
  BY <1>1, <1>2, <1>4 DEF Sound
<1>7. inFlight' = IF on THEN [inFlight EXCEPT ![s0] = @ + 1] ELSE inFlight
  BY DEF Meter
<1>8. inFlight \in [Service -> Int]
  BY DEF IInv, Shape
<1>9. \A s \in Service : /\ One(req[r], s) = 0
                         /\ One(q, s) = IF on /\ s = s0 THEN 1 ELSE 0
  BY <1>2, <1>4 DEF One
<1> HIDE DEF q, on, s0
<1>10. /\ inFlight' \in [Service -> Int]
       /\ \A s \in Service : inFlight'[s] = inFlight[s] - One(req[r], s) + One(q, s)
  BY <1>2, <1>7, <1>8, <1>9
<1> QED BY <1>3, <1>5, <1>6, <1>10, RequestMoves

\* And down again with it, whatever was reloaded in between.
LEMMA ReturnIInv ==
  ASSUME IInv, NEW r \in Request, Return(r)
  PROVE  IInv'
<1> DEFINE on == req[r].counted
           s0 == req[r].route.service
<1>1. req[r] \in RequestType /\ Sound(req[r])
  BY Typed
<1>2. on \in BOOLEAN /\ (on => s0 \in Service)
  BY <1>1 DEF RequestType, Sound
<1>3. Idle \in RequestType /\ Sound(Idle) /\ ~Idle.counted
  BY DEF Idle, RequestType, Sound, User, Bucket
<1>4. req' = [req EXCEPT ![r] = Idle] /\ UNCHANGED current
  BY DEF Return
<1>5. inFlight' = IF on THEN [inFlight EXCEPT ![s0] = @ - 1] ELSE inFlight
  BY DEF Return
<1>6. inFlight \in [Service -> Int]
  BY DEF IInv, Shape
<1>7. \A s \in Service : /\ One(req[r], s) = IF on /\ s = s0 THEN 1 ELSE 0
                         /\ One(Idle, s) = 0
  BY <1>2, <1>3 DEF One
<1> HIDE DEF on, s0
<1>8. /\ inFlight' \in [Service -> Int]
      /\ \A s \in Service : inFlight'[s] = inFlight[s] - One(req[r], s) + One(Idle, s)
  BY <1>2, <1>5, <1>6, <1>7
<1> QED BY <1>3, <1>4, <1>8, RequestMoves

-----------------------------------------------------------------------------
\* Auth of the matched route lets in a verified token, with its subject.
LEMMA AuthenticateIInv ==
  ASSUME IInv, NEW r \in Request, Authenticate(r)
  PROVE  IInv'
<1> DEFINE token == req[r].msg.token
           open == [req[r] EXCEPT !.pc = "limit"]
           known == [req[r] EXCEPT !.pc = "limit", !.user = token.subject]
<1>1. req[r] \in RequestType /\ Sound(req[r]) /\ req[r].pc = "auth"
  BY Typed DEF Authenticate, At
<1>2. UNCHANGED <<current, inFlight>>
  BY DEF Authenticate
<1>3. req[r].msg \in Message /\ req[r].route.auth \in BOOLEAN
  BY <1>1, MatchIsRoute DEF Sound
<1>4. \/ \E status \in Code : req' = Answer(r, status)
      \/ ~req[r].route.auth /\ req' = [req EXCEPT ![r] = open]
      \/ /\ req[r].route.auth /\ Accepted(token)
         /\ req' = [req EXCEPT ![r] = known]
  BY <1>1, <1>3 DEF Authenticate, Go, Msg, Code, IInv, Shape
<1>5. ASSUME NEW status \in Code, req' = Answer(r, status)
      PROVE  IInv'
  BY <1>1, <1>2, <1>5, Answered
<1>6. CASE ~req[r].route.auth /\ req' = [req EXCEPT ![r] = open]
  <2>1. open \in RequestType
    BY <1>1 DEF RequestType
  <2>2. /\ open.pc = "limit" /\ open.msg = req[r].msg /\ open.snap = req[r].snap
        /\ open.user = req[r].user /\ open.route = req[r].route
        /\ open.counted = req[r].counted
    BY <1>1 DEF RequestType
  <2>3. Sound(open)
    BY <1>1, <1>6, <2>2 DEF Sound
  <2> HIDE DEF open
  <2> QED BY <1>2, <1>6, <2>1, <2>2, <2>3, CountedAsBefore
<1>7. CASE /\ req[r].route.auth /\ Accepted(token)
           /\ req' = [req EXCEPT ![r] = known]
  <2>1. known \in RequestType
    BY <1>1, <1>3 DEF RequestType, User
  <2>2. /\ known.pc = "limit" /\ known.msg = req[r].msg /\ known.snap = req[r].snap
        /\ known.user = token.subject /\ known.route = req[r].route
        /\ known.counted = req[r].counted
    BY <1>1 DEF RequestType
  <2>3. Sound(known)
    BY <1>1, <1>7, <2>2 DEF Sound
  <2> HIDE DEF known
  <2> QED BY <1>2, <1>7, <2>1, <2>2, <2>3, CountedAsBefore
<1> QED BY <1>4, <1>5, <1>6, <1>7

\* What the rate limiter hands on carries what Auth established.
LEMMA Carries ==
  ASSUME IInv, NEW r \in Request, req[r].pc = "limit", NEW bucket \in Bucket,
         req' = [req EXCEPT ![r] = [req[r] EXCEPT !.pc = "proxy", !.bucket = bucket]],
         UNCHANGED <<current, inFlight>>
  PROVE  IInv'
<1> DEFINE q == [req[r] EXCEPT !.pc = "proxy", !.bucket = bucket]
<1>1. req[r] \in RequestType /\ Sound(req[r])
  BY Typed
<1>2. q \in RequestType
  BY <1>1 DEF RequestType
<1>3. /\ q.pc = "proxy" /\ q.msg = req[r].msg /\ q.snap = req[r].snap /\ q.user = req[r].user
      /\ q.route = req[r].route /\ q.counted = req[r].counted
  BY <1>1 DEF RequestType
<1>4. Sound(q)
  BY <1>1, <1>3 DEF Sound
<1> HIDE DEF q
<1> QED BY <1>2, <1>3, <1>4, CountedAsBefore DEF q

LEMMA LimitIInv ==
  ASSUME IInv, NEW r \in Request, Limit(r)
  PROVE  IInv'
<1>1. /\ req[r] \in RequestType /\ Sound(req[r]) /\ req[r].pc = "limit"
      /\ req \in [Request -> RequestType]
  BY Typed DEF Limit, At, IInv, Shape
<1>2. UNCHANGED <<current, inFlight>>
  BY DEF Limit
<1>3. req[r].bucket \in Bucket /\ ClientKey(r) \in Bucket
  BY <1>1 DEF RequestType, Sound, ClientKey, Bucket, Msg
<1> DEFINE charged == [req EXCEPT ![r].bucket = ClientKey(r)]
<1>4. \/ \E status \in Code : req' = Answer(r, status)
      \/ req' = Go(r, "proxy")
      \/ req' = [charged EXCEPT ![r].pc = "proxy"]
      \/ req' = [charged EXCEPT ![r].pc = "return", ![r].outcome = "429"]
  BY DEF Limit, StoreAnswers, Code
<1>5. ASSUME NEW status \in Code, req' = Answer(r, status)
      PROVE  IInv'
  BY <1>1, <1>2, <1>5, Answered
<1>6. CASE req' = Go(r, "proxy")
  <2>1. req' = [req EXCEPT ![r] = [req[r] EXCEPT !.pc = "proxy", !.bucket = req[r].bucket]]
    BY <1>1, <1>6 DEF Go, RequestType
  <2> QED BY <1>1, <1>2, <1>3, <2>1, Carries
<1>7. CASE req' = [charged EXCEPT ![r].pc = "proxy"]
  <2>1. req' = [req EXCEPT ![r] = [req[r] EXCEPT !.pc = "proxy", !.bucket = ClientKey(r)]]
    BY <1>1, <1>7 DEF RequestType
  <2> QED BY <1>1, <1>2, <1>3, <2>1, Carries
<1>8. CASE req' = [charged EXCEPT ![r].pc = "return", ![r].outcome = "429"]
  <2> DEFINE q == [req[r] EXCEPT !.bucket = ClientKey(r), !.pc = "return", !.outcome = "429"]
  <2>1. req' = [req EXCEPT ![r] = q]
    BY <1>1, <1>8 DEF RequestType
  <2>2. q \in RequestType
    BY <1>1, <1>3 DEF RequestType, Code
  <2>3. /\ q.pc = "return" /\ q.msg = req[r].msg /\ q.counted = req[r].counted
        /\ q.route = req[r].route
    BY <1>1 DEF RequestType
  <2>4. Sound(q)
    BY <1>1, <2>3 DEF Sound
  <2> HIDE DEF q
  <2> QED BY <1>2, <2>1, <2>2, <2>3, <2>4, CountedAsBefore
<1> QED BY <1>4, <1>5, <1>6, <1>7, <1>8

\* The proxy hands on what Auth established, less what the Connection header names.
LEMMA ProxyIInv ==
  ASSUME IInv, NEW r \in Request, Proxy(r)
  PROVE  IInv'
<1> DEFINE q == [req[r] EXCEPT !.pc = "upstream", !.user = OutgoingUser(r)]
<1>1. /\ req[r] \in RequestType /\ Sound(req[r]) /\ req[r].pc = "proxy"
      /\ req \in [Request -> RequestType]
  BY Typed DEF Proxy, At, IInv, Shape
<1>2. UNCHANGED <<current, inFlight>>
  BY DEF Proxy
<1>3. ASSUME NEW status \in Code, req' = Answer(r, status)
      PROVE  IInv'
  BY <1>1, <1>2, <1>3, Answered
<1>4. CASE req' = [Go(r, "upstream") EXCEPT ![r].user = OutgoingUser(r)]
  <2>1. req' = [req EXCEPT ![r] = q]
    BY <1>1, <1>4 DEF Go, RequestType
  <2>2. OutgoingUser(r) \in User
    BY <1>1 DEF OutgoingUser, RequestType, User
  <2>3. q \in RequestType
    BY <1>1, <2>2 DEF RequestType
  <2>4. /\ q.pc = "upstream" /\ q.msg = req[r].msg /\ q.snap = req[r].snap
        /\ q.user = OutgoingUser(r)
        /\ q.route = req[r].route /\ q.counted = req[r].counted
    BY <1>1 DEF RequestType
  <2>5. Sound(q)
    BY <1>1, <2>4 DEF Sound, OutgoingUser, Msg
  <2> HIDE DEF q
  <2> QED BY <1>2, <2>1, <2>3, <2>4, <2>5, CountedAsBefore
<1> QED BY <1>3, <1>4 DEF Proxy, Code

LEMMA UpstreamIInv ==
  ASSUME IInv, NEW r \in Request, Upstream(r)
  PROVE  IInv'
<1>1. req[r].pc = "upstream" /\ UNCHANGED <<current, inFlight>>
  BY DEF Upstream, At
<1>2. PICK status \in Code : req' = Answer(r, status)
  BY DEF Upstream, Code
<1> QED BY <1>1, <1>2, Answered

-----------------------------------------------------------------------------
\* Before the first request nothing is counted, and every step keeps it so.
LEMMA InitIInv == Init => IInv
<1> SUFFICES ASSUME Init PROVE IInv
  OBVIOUS
<1>1. Idle \in RequestType /\ Sound(Idle) /\ ~Idle.counted
  BY DEF Idle, RequestType, Sound, User, Bucket
<1>2. Shape
  BY <1>1 DEF Init, Shape, ValidConfig
<1>3. \A s : Counting(s) = {}
  BY <1>1 DEF Init, Counting
<1>4. InFlightExact
  BY <1>3, FS_EmptySet DEF Init, InFlightExact, Counting
<1> QED BY <1>2, <1>4 DEF IInv

LEMMA NextIInv == IInv /\ [Next]_vars => IInv'
<1> SUFFICES ASSUME IInv, [Next]_vars PROVE IInv'
  OBVIOUS
<1>1. CASE UNCHANGED vars
  BY <1>1 DEF vars, IInv, Shape, InFlightExact
<1>2. ASSUME NEW c \in Config, Reload(c) PROVE IInv'
  BY <1>2, ReloadIInv
<1>3. ASSUME NEW r \in Request, NEW m \in Message, Arrive(r, m) PROVE IInv'
  BY <1>3, ArriveIInv
<1>4. ASSUME NEW r \in Request, Serve(r) PROVE IInv'
  BY <1>4, DispatchIInv, TraceIInv, RouteIInv, MeterIInv, AuthenticateIInv, LimitIInv,
     ProxyIInv, UpstreamIInv, ReturnIInv DEF Serve
<1> QED BY <1>1, <1>2, <1>3, <1>4 DEF Next

\* What each handler may rely on holds when a request comes to it.
THEOREM ChainInvariant == Spec => []IInv
BY InitIInv, NextIInv, PTL DEF Spec

\* The in-flight gauge of a service is the number of its requests being served
\* that were counted when they entered, metrics being on, through every early
\* answer and every reload (middleware/metrics.go:14-65), for any configurations
\* and any finite number of requests.
THEOREM GaugeSafety == Spec => []InFlightExact
<1>1. IInv => InFlightExact
  BY DEF IInv
<1> QED BY <1>1, ChainInvariant, PTL

\* What reaches an upstream came with a verified token if the most specific route
\* is protected, and carries its subject unless the Connection header names
\* X-User-ID; otherwise it carries nobody's identity (auth.go:35-137,
\* tracing.go:21-84, proxy.go:40-54), for any configurations, reloads and headers.
THEOREM IdentitySafety == Spec => []IdentityFromToken
<1>1. IInv => IdentityFromToken
  <2> SUFFICES ASSUME IInv, NEW r \in Request, At(r, "upstream")
               PROVE  LET m == req[r].msg
                          protected == IsProtected(req[r].snap.routes, m.path)
                      IN  /\ protected => Accepted(m.token)
                          /\ req[r].user = IF protected /\ UserID \notin m.connection
                                           THEN m.token.subject ELSE None
    BY DEF IdentityFromToken, IsProtected, Msg
  <2>1. Sound(req[r]) /\ req[r].pc = "upstream"
    BY Typed DEF At
  <2>2. IsProtected(req[r].snap.routes, req[r].msg.path) <=> req[r].route.auth
    BY <2>1, MatchDecides DEF Sound
  <2>3. CASE req[r].route.auth
    <3>1. /\ Accepted(req[r].msg.token)
          /\ req[r].user = IF UserID \in req[r].msg.connection
                           THEN None ELSE req[r].msg.token.subject
      BY <2>1, <2>3, Zenon DEF Sound
    <3> QED BY ONLY <3>1, <2>2, <2>3
  <2>4. CASE ~req[r].route.auth
    <3>1. req[r].user = None
      BY <2>1, <2>4, Zenon DEF Sound
    <3> QED BY ONLY <3>1, <2>2, <2>4
  <2> QED BY ONLY <2>3, <2>4
<1> QED BY <1>1, ChainInvariant, PTL


-----------------------------------------------------------------------------
\* A bounded set of numbers that has a member has a greatest one.
LEMMA Greatest ==
  ASSUME NEW n \in Nat, NEW S \in SUBSET (0..n), S # {}
  PROVE  Max(S) \in S /\ \A j \in S : j <= Max(S)
<1> DEFINE T == {n - i : i \in S}
<1>1. T \subseteq Nat /\ T # {}
  <2>1. \A i \in S : i \in 0..n
    OBVIOUS
  <2>2. \A i \in S : n - i \in Nat
    BY <2>1
  <2> QED BY <2>2, Zenon
<1> HIDE DEF T
<1> DEFINE R == OpToRel(<, Nat)
<1>2. PICK x \in T : \A y \in T : ~(<<y, x>> \in R)
  BY <1>1, NatLessThanWellFounded, WFMin
<1> HIDE DEF R
<1>3. ASSUME NEW y \in T PROVE x <= y
  <2>1. x \in Nat /\ y \in Nat
    BY <1>1
  <2>2. y < x => <<y, x>> \in R
    BY <2>1 DEF OpToRel, R
  <2> QED BY <1>2, <2>1, <2>2
<1>4. PICK i \in S : x = n - i
  BY DEF T
<1>5. \A j \in S : j <= i
  <2> SUFFICES ASSUME NEW j \in S PROVE j <= i
    OBVIOUS
  <2>1. n - j \in T /\ x <= n - j
    BY <1>3 DEF T
  <2> QED BY <1>4, <2>1
<1>6. \E k \in S : \A j \in S : k >= j
  BY <1>5
<1>7. Max(S) \in S /\ \A j \in S : Max(S) >= j
  BY <1>6 DEF Max
<1> QED BY <1>7

\* The hops that only trusted proxies vouch for, the peer last.
Chain(m) == m.forwarded \o <<m.remote>>
Vouched(m) == {i \in DOMAIN Chain(m) :
                 /\ Chain(m)[i] # Unparsable
                 /\ \A j \in i + 1 .. Len(Chain(m)) : Chain(m)[j] \in Trusted}

\* What the walk of forwardedClientIP returns for any chain: the vouched hop
\* nearest to the client (ratelimit.go:207-279).
LEMMA ClientIsVouched ==
  ASSUME NEW m \in Message
  PROVE  \E i \in Vouched(m) : ClientIP(m) = Chain(m)[i] /\ \A j \in Vouched(m) : i <= j
<1> DEFINE h == m.forwarded
           n == Len(h)
           c == Chain(m)
<1>1. h \in Seq(Range(h)) /\ n \in Nat /\ m.remote # Unparsable /\ Unparsable \notin Trusted
  BY MessageAssumption
<1>2. /\ Len(c) = n + 1 /\ DOMAIN c = 1..(n + 1) /\ c[n + 1] = m.remote
      /\ \A i \in 1..n : c[i] = h[i]
  BY <1>1 DEF Chain
<1> HIDE DEF h, n, c
<1>3. CASE ~(m.remote \in Trusted /\ h # <<>>)
  <2>1. ClientIP(m) = c[n + 1]
    BY <1>2, <1>3 DEF ClientIP, h
  <2>2. n + 1 \in Vouched(m)
    BY <1>1, <1>2 DEF Vouched, c
  <2>3. ASSUME NEW j \in Vouched(m) PROVE n + 1 <= j
    <3>1. j \in 1..(n + 1) /\ \A k \in (j + 1)..(n + 1) : c[k] \in Trusted
      BY <1>2 DEF Vouched, c
    <3>2. CASE m.remote \notin Trusted
      BY <3>1, <3>2, <1>1, <1>2
    <3>3. CASE h = <<>>
      <4>1. n = 0
        BY <3>3 DEF n
      <4> QED BY <3>1, <4>1
    <3> QED BY <3>2, <3>3, <1>3
  <2> QED BY <2>1, <2>2, <2>3 DEF c
<1>4. CASE m.remote \in Trusted /\ h # <<>>
  <2> DEFINE S == Stops(m.remote, h)
             l == Max(S)
             d == Downstream(m.remote, h, l)
             u == Unverifiable(m.remote, h, l)
  <2>1. S \in SUBSET (0..n) /\ 0 \in S
    BY <1>1 DEF Stops, Unverifiable, n
  <2>2. l \in S /\ l \in 0..n /\ \A j \in S : j <= l
    BY <2>1, <1>1, Greatest
  <2>3. ClientIP(m) = IF u THEN d ELSE h[l]
    BY <1>4 DEF ClientIP, ForwardedFrom, h
  <2>4. d = c[l + 1]
    BY <2>2, <1>1, <1>2 DEF Downstream, n
  <2>5. u <=> l = 0 \/ d \notin Trusted \/ h[l] = Unparsable
    BY DEF Unverifiable
  <2>6. ~u => h[l] \notin Trusted
    BY <2>2 DEF Stops
  <2>7. \A j \in (l + 1)..n : h[j] \in Trusted /\ h[j] # Unparsable
    <3> SUFFICES ASSUME NEW j \in (l + 1)..n PROVE h[j] \in Trusted /\ h[j] # Unparsable
      OBVIOUS
    <3>1. j \in 0..n /\ j \notin S
      BY <2>2, <1>1
    <3> QED BY <3>1 DEF Stops, Unverifiable, n
  <2> HIDE DEF S, l, d, u
  <2>8. \A k \in (l + 1)..(n + 1) : c[k] # Unparsable /\ (k > l + 1 => c[k] \in Trusted)
    BY <2>2, <2>7, <1>1, <1>2, <1>4
  <2>9. \A k \in (l + 1)..(n + 1) : l > 0 /\ ~u => c[k] \in Trusted
    BY <2>2, <2>4, <2>5, <2>8, <1>1
  <2>10. CASE u
    <3>1. l + 1 \in Vouched(m)
      BY <2>2, <2>8, <1>1, <1>2 DEF Vouched, c
    <3>2. ASSUME NEW j \in Vouched(m) PROVE l + 1 <= j
      <4>1. /\ j \in 1..(n + 1) /\ c[j] # Unparsable
            /\ \A k \in (j + 1)..(n + 1) : c[k] \in Trusted
        BY <1>2 DEF Vouched, c
      <4>2. CASE j = l
        <5>1. c[l] = h[l] /\ l # 0
          BY <4>1, <4>2, <2>2, <1>1, <1>2
        <5>2. d \in Trusted
          BY <4>1, <4>2, <2>2, <2>4, <1>1
        <5> QED BY <4>1, <4>2, <5>1, <5>2, <2>5, <2>10
      <4>3. CASE j < l
        <5>1. c[l] = h[l] /\ l # 0 /\ c[l] \in Trusted /\ c[l + 1] \in Trusted
          BY <4>1, <4>3, <2>2, <1>1, <1>2
        <5> QED BY <5>1, <2>4, <2>5, <2>10, <1>1
      <4> QED BY <4>1, <4>2, <4>3, <2>2, <1>1
    <3> QED BY <3>1, <3>2, <2>3, <2>4, <2>10 DEF c
  <2>11. CASE ~u
    <3>1. l # 0 /\ c[l] = h[l] /\ h[l] # Unparsable /\ l \in 1..n
      BY <2>2, <2>5, <2>11, <1>1, <1>2
    <3>2. l \in Vouched(m)
      BY <3>1, <2>9, <2>11, <1>1, <1>2 DEF Vouched, c
    <3>3. ASSUME NEW j \in Vouched(m) PROVE l <= j
      <4>1. j \in 1..(n + 1) /\ \A k \in (j + 1)..(n + 1) : c[k] \in Trusted
        BY <1>2 DEF Vouched, c
      <4> QED BY <4>1, <3>1, <2>6, <2>11, <1>1
    <3> QED BY <3>1, <3>2, <3>3, <2>3, <2>11 DEF c
  <2> QED BY <2>10, <2>11
<1> QED BY <1>3, <1>4

-----------------------------------------------------------------------------
\* Who a charged request is charged to.
ChargedRight(q) ==
  /\ q.route.auth => q.bucket = <<"user", Segment[q.msg.token.subject]>>
  /\ ~q.route.auth => \E i \in Vouched(q.msg) :
                         /\ q.bucket = <<"ip", Chain(q.msg)[i]>>
                         /\ \A j \in Vouched(q.msg) : i <= j
  /\ q.outcome # "401"

\* Nobody is charged before the rate limiter, and after it nobody is refused
\* for want of a token.
ChargeOK(q) ==
  /\ q.pc # "return" => q.outcome = None
  /\ q.bucket # None => q.pc \in {"proxy", "upstream", "return"} /\ ChargedRight(q)

ChargeInv == \A r \in Request : ChargeOK(req[r])

\* A request that keeps its charge.
LEMMA ChargeKept ==
  ASSUME NEW q, NEW n, ChargeOK(q), n.bucket = q.bucket, n.route = q.route, n.msg = q.msg,
         q.pc \in {"proxy", "upstream"},
         \/ n.pc \in {"proxy", "upstream"} /\ n.outcome = q.outcome
         \/ n.pc = "return" /\ n.outcome # "401"
  PROVE  ChargeOK(n)
BY DEF ChargeOK, ChargedRight

\* One that has none yet.
LEMMA ChargeNone ==
  ASSUME NEW q, NEW n, ChargeOK(q), n.bucket = q.bucket,
         q.pc \notin {"proxy", "upstream", "return"},
         n.pc = "return" \/ n.outcome = q.outcome
  PROVE  ChargeOK(n)
BY DEF ChargeOK

\* A step moves one request and keeps its charge.
SameCharge(r) ==
  /\ req'[r].bucket = req[r].bucket
  /\ req'[r].pc = "return" \/ req'[r].outcome = req[r].outcome
  /\ \A s \in Request \ {r} : req'[s] = req[s]

\* So does an answer, which says of which message and route it is.
LEMMA AnswerKeeps ==
  ASSUME IInv, NEW r \in Request, NEW status, req' = Answer(r, status)
  PROVE  /\ SameCharge(r) /\ req'[r].route = req[r].route /\ req'[r].msg = req[r].msg
         /\ req'[r].pc = "return" /\ req'[r].outcome = status
<1>1. req \in [Request -> RequestType] /\ req[r] \in RequestType
  BY DEF IInv, Shape
<1>2. req' = [req EXCEPT ![r] = [req[r] EXCEPT !.pc = "return", !.outcome = status]]
  BY DEF Answer
<1> QED BY <1>1, <1>2 DEF SameCharge, RequestType

LEMMA GoKeeps ==
  ASSUME IInv, NEW r \in Request, NEW pc, req' = Go(r, pc)
  PROVE  /\ SameCharge(r) /\ req'[r].route = req[r].route /\ req'[r].msg = req[r].msg
         /\ req'[r].pc = pc /\ req'[r].outcome = req[r].outcome
<1>1. req \in [Request -> RequestType] /\ req[r] \in RequestType
  BY DEF IInv, Shape
<1>2. req' = [req EXCEPT ![r] = [req[r] EXCEPT !.pc = pc]]
  BY DEF Go
<1> QED BY <1>1, <1>2 DEF SameCharge, RequestType

\* The handlers before the rate limiter charge nobody.
LEMMA EarlyKeeps ==
  ASSUME IInv, NEW r \in Request,
         \/ \E m \in Message : Arrive(r, m)
         \/ Dispatch(r) \/ Trace(r) \/ Route(r) \/ Meter(r) \/ Authenticate(r)
  PROVE  SameCharge(r) /\ req[r].pc \notin {"proxy", "upstream", "return"}
<1>1. req \in [Request -> RequestType] /\ req[r] \in RequestType
  BY DEF IInv, Shape
<1>2. ASSUME NEW m \in Message, Arrive(r, m)
      PROVE  SameCharge(r) /\ req[r].pc = "idle"
  BY <1>1, <1>2 DEF Arrive, At, SameCharge, RequestType
<1>3. CASE Dispatch(r)
  <2>1. CASE \E status : req' = Answer(r, status)
    BY <2>1, <1>3, AnswerKeeps DEF Dispatch, At
  <2>2. CASE req' = [[req EXCEPT ![r].snap = current] EXCEPT ![r].pc = "trace"]
    BY <2>2, <1>1, <1>3 DEF Dispatch, At, SameCharge, RequestType
  <2> QED BY <2>1, <2>2, <1>3 DEF Dispatch
<1>4. CASE Trace(r)
  BY <1>1, <1>4 DEF Trace, At, Go, SameCharge, RequestType
<1>5. CASE Route(r)
  <2>1. CASE \E status : req' = Answer(r, status)
    BY <2>1, <1>5, AnswerKeeps DEF Route, At
  <2>2. CASE \E route : req' = [Go(r, "meter") EXCEPT ![r].route = route]
    <3>1. PICK route : req' = [Go(r, "meter") EXCEPT ![r].route = route]
      BY <2>2
    <3>2. req' = [req EXCEPT ![r] = [req[r] EXCEPT !.pc = "meter", !.route = route]]
      BY <3>1, <1>1 DEF Go, RequestType
    <3>3. SameCharge(r)
      BY <3>2, <1>1 DEF SameCharge, RequestType
    <3> QED BY <3>3, <1>5 DEF Route, At
  <2> QED BY <2>1, <2>2, <1>5 DEF Route
<1>6. CASE Meter(r)
  BY <1>1, <1>6 DEF Meter, At, Go, SameCharge, RequestType
<1>7. CASE Authenticate(r)
  <2>1. CASE \E status : req' = Answer(r, status)
    BY <2>1, <1>7, AnswerKeeps DEF Authenticate, At
  <2>2. CASE req' = Go(r, "limit")
    BY <2>2, <1>7, GoKeeps DEF Authenticate, At
  <2>3. CASE \E u : req' = [Go(r, "limit") EXCEPT ![r].user = u]
    BY <2>3, <1>1, <1>7 DEF Authenticate, At, Go, SameCharge, RequestType
  <2> QED BY <2>1, <2>2, <2>3, <1>7 DEF Authenticate
<1> QED BY <1>2, <1>3, <1>4, <1>5, <1>6, <1>7

\* The rate limiter charges the client it found.
LEMMA LimitCharges ==
  ASSUME IInv, NEW r \in Request, ChargeOK(req[r]), Limit(r)
  PROVE  ChargeOK(req'[r]) /\ \A s \in Request \ {r} : req'[s] = req[s]
<1>1. req \in [Request -> RequestType] /\ req[r] \in RequestType /\ Sound(req[r])
  BY DEF IInv, Shape
<1>2. req[r].pc = "limit"
  BY DEF Limit, At
<1>3. CASE \E status : req' = Answer(r, status)
  BY <1>2, <1>3, AnswerKeeps, ChargeNone DEF SameCharge
<1>4. CASE req' = Go(r, "proxy")
  BY <1>2, <1>4, GoKeeps, ChargeNone DEF SameCharge
<1>5. ASSUME NEW pc \in {"proxy", "return"}, NEW code \in {req[r].outcome, "429"},
             req' = [req EXCEPT ![r] = [req[r] EXCEPT !.bucket = ClientKey(r),
                                                      !.pc = pc, !.outcome = code]],
             pc = "proxy" => code = req[r].outcome
      PROVE  ChargeOK(req'[r]) /\ \A s \in Request \ {r} : req'[s] = req[s]
  <2> DEFINE n == req'[r]
  <2>1. /\ n.bucket = ClientKey(r) /\ n.pc = pc /\ n.outcome = code
        /\ n.route = req[r].route /\ n.msg = req[r].msg
        /\ \A s \in Request \ {r} : req'[s] = req[s]
    BY <1>1, <1>5 DEF RequestType
  <2>2. code # "401" /\ (pc # "return" => code = None)
    BY <1>2, <1>5, MessageAssumption DEF ChargeOK
  <2>3. req[r].msg \in Message /\ req[r].route.auth \in BOOLEAN
    <3>1. /\ req[r].snap \in ValidConfig /\ req[r].msg \in Message
          /\ req[r].route \in Match(req[r].snap.routes, req[r].msg.path)
      BY <1>1, <1>2 DEF Sound
    <3> QED BY ONLY <3>1, MatchIsRoute
  <2>4. IF req[r].route.auth
        THEN req[r].user = req[r].msg.token.subject /\ req[r].user # None
        ELSE req[r].user = None
    BY <1>1, <1>2 DEF Sound, Accepted
  <2>5. CASE req[r].route.auth
    <3>1. ClientKey(r) = <<"user", Segment[req[r].msg.token.subject]>>
      BY <2>4, <2>5 DEF ClientKey
    <3> QED BY <3>1, <2>1, <2>5, <2>2, <1>5 DEF ChargeOK, ChargedRight
  <2>6. CASE ~req[r].route.auth
    <3>1. ClientKey(r) = <<"ip", ClientIP(req[r].msg)>>
      BY <2>4, <2>6 DEF ClientKey, Msg
    <3>2. PICK i \in Vouched(req[r].msg) :
            /\ ClientIP(req[r].msg) = Chain(req[r].msg)[i]
            /\ \A j \in Vouched(req[r].msg) : i <= j
      BY <2>3, ClientIsVouched
    <3> QED BY <3>1, <3>2, <2>1, <2>6, <2>2, <1>5 DEF ChargeOK, ChargedRight
  <2> QED BY <2>1, <2>3, <2>5, <2>6
<1> DEFINE charged == [req EXCEPT ![r].bucket = ClientKey(r)]
<1>6. CASE req' = [charged EXCEPT ![r].pc = "proxy"]
  <2>1. req' = [req EXCEPT ![r] = [req[r] EXCEPT !.bucket = ClientKey(r), !.pc = "proxy",
                                                 !.outcome = req[r].outcome]]
    BY <1>1, <1>6 DEF RequestType
  <2> QED BY <2>1, <1>5
<1>7. CASE req' = [charged EXCEPT ![r].pc = "return", ![r].outcome = "429"]
  <2>1. req' = [req EXCEPT ![r] = [req[r] EXCEPT !.bucket = ClientKey(r), !.pc = "return",
                                                 !.outcome = "429"]]
    BY <1>1, <1>7 DEF RequestType
  <2> QED BY <2>1, <1>5
<1>8. \/ \E status : req' = Answer(r, status)
      \/ req' = Go(r, "proxy")
      \/ req' = [charged EXCEPT ![r].pc = "proxy"]
      \/ req' = [charged EXCEPT ![r].pc = "return", ![r].outcome = "429"]
  BY DEF Limit, StoreAnswers
<1> QED BY <1>3, <1>4, <1>6, <1>7, <1>8

\* After it the charge stays, and a request that returns takes it away.
LEMMA LateKeeps ==
  ASSUME IInv, NEW r \in Request, ChargeOK(req[r]), Proxy(r) \/ Upstream(r) \/ Return(r)
  PROVE  ChargeOK(req'[r]) /\ \A s \in Request \ {r} : req'[s] = req[s]
<1>1. req \in [Request -> RequestType]
  BY DEF IInv, Shape
<1>2. CASE Proxy(r)
  <2>1. CASE \E status \in {"200", "no targets"} : req' = Answer(r, status)
    <3>1. PICK status \in {"200", "no targets"} : req' = Answer(r, status)
      BY <2>1
    <3>2. req[r].pc = "proxy"
      BY <1>2 DEF Proxy, At
    <3>3. /\ SameCharge(r) /\ req'[r].route = req[r].route /\ req'[r].msg = req[r].msg
          /\ req'[r].pc = "return" /\ req'[r].outcome = status
      BY <3>1, AnswerKeeps
    <3> QED BY <3>2, <3>3, ChargeKept DEF SameCharge
  <2>2. CASE req' = [Go(r, "upstream") EXCEPT ![r].user = OutgoingUser(r)]
    <3>1. req[r] \in RequestType /\ req[r].pc = "proxy"
      BY <1>1, <1>2 DEF Proxy, At
    <3>2. req' = [req EXCEPT ![r] = [req[r] EXCEPT !.pc = "upstream", !.user = OutgoingUser(r)]]
      BY <1>1, <2>2, <3>1 DEF Go, RequestType
    <3>3. /\ req'[r].bucket = req[r].bucket /\ req'[r].route = req[r].route
          /\ req'[r].msg = req[r].msg /\ req'[r].pc = "upstream"
          /\ req'[r].outcome = req[r].outcome
          /\ \A s \in Request \ {r} : req'[s] = req[s]
      BY <1>1, <3>1, <3>2 DEF RequestType
    <3> QED BY <3>1, <3>3, ChargeKept
  <2> QED BY <2>1, <2>2, <1>2 DEF Proxy
<1>3. CASE Upstream(r)
  BY <1>3, AnswerKeeps, ChargeKept DEF Upstream, At, SameCharge
<1>4. CASE Return(r)
  <2>1. ChargeOK(Idle)
    BY DEF ChargeOK, Idle
  <2> QED BY <2>1, <1>1, <1>4 DEF Return
<1> QED BY <1>2, <1>3, <1>4

\* Every step keeps the charges right.
LEMMA ChargeStep == IInv /\ ChargeInv /\ [Next]_vars => ChargeInv'
<1> SUFFICES ASSUME IInv, ChargeInv, [Next]_vars PROVE ChargeInv'
  OBVIOUS
<1>1. CASE req' = req
  BY <1>1 DEF ChargeInv
<1>2. ASSUME NEW r \in Request,
             ChargeOK(req'[r]) /\ \A s \in Request \ {r} : req'[s] = req[s]
      PROVE  ChargeInv'
  <2> SUFFICES ASSUME NEW s \in Request PROVE ChargeOK(req'[s])
    BY DEF ChargeInv
  <2> QED BY <1>2 DEF ChargeInv
<1>3. ASSUME NEW r \in Request, Serve(r) \/ \E m \in Message : Arrive(r, m)
      PROVE  ChargeOK(req'[r]) /\ \A s \in Request \ {r} : req'[s] = req[s]
  <2>1. ChargeOK(req[r])
    BY DEF ChargeInv
  <2>2. CASE Limit(r)
    BY <2>1, <2>2, LimitCharges
  <2>3. CASE Proxy(r) \/ Upstream(r) \/ Return(r)
    BY <2>1, <2>3, LateKeeps
  <2>4. CASE \/ \E m \in Message : Arrive(r, m)
             \/ Dispatch(r) \/ Trace(r) \/ Route(r) \/ Meter(r) \/ Authenticate(r)
    BY <2>1, <2>4, EarlyKeeps, ChargeNone DEF SameCharge
  <2> QED BY <1>3, <2>2, <2>3, <2>4 DEF Serve
<1> QED BY <1>1, <1>2, <1>3 DEF Next, Reload, vars

\* A request is charged to the subject of its token, or to the hop nearest to
\* the client that only trusted proxies vouch for, and one that fails
\* authentication to nobody (ratelimit.go:188-279, auth.go:35-137), for any
\* chain of hops, any configurations and any finite number of requests.
THEOREM ChargeSafety == Spec => []ChargedToItsClient
<1>1. Init => ChargeInv
  BY DEF Init, ChargeInv, ChargeOK, Idle
<1>2. Spec => []ChargeInv
  BY <1>1, ChargeStep, ChainInvariant, PTL DEF Spec
<1>3. ChargeInv => ChargedToItsClient
  BY DEF ChargeInv, ChargeOK, ChargedRight, ChargedToItsClient, Vouched, Chain, Msg
<1> QED BY <1>2, <1>3, PTL
=============================================================================
