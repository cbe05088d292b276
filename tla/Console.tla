------------------------------- MODULE Console -------------------------------
(***************************************************************************)
(* The HTTP front of the observatory (cmd/observatory: app.go, api.go,     *)
(* scenarios.go): the scenario catalog that is loaded at start, the demo   *)
(* JWT that is fetched and refreshed, the per-address token bucket in      *)
(* front of every handler, and the handler that starts a run.              *)
(* net/http serves every request on a goroutine of its own; the time it is *)
(* charged at is read before the limiter's mutex is taken.                 *)
(***************************************************************************)
EXTENDS Integers, Sequences, FiniteSets

CONSTANTS
    Address,      \* client addresses
    Request,      \* requests that may overlap
    Ask,          \* what they ask for: [auth, name, decodes, intensity, duration]
    FileLists,    \* the lists of scenario files to start with
    Limit, Window,          \* of the limiter: Limit requests in Window ticks
    MaxRPS, MaxDuration,    \* maxScenarioRPS, maxScenarioDuration
    TTL, RefreshInterval,   \* loginTokenTTL, jwtRefreshInterval
    MaxTime,      \* bound on the clock
    Nil

ASSUME ConsoleAssumption ==
    /\ {Limit, Window, MaxRPS, MaxDuration, TTL, RefreshInterval} \subseteq Nat \ {0}
    /\ MaxTime \in Nat
    /\ \A fs \in FileLists : \A k \in DOMAIN fs :
          /\ {"durations", "rps"} \subseteq DOMAIN fs[k]
          /\ fs[k].durations \subseteq Int
          /\ fs[k].rps \in [DOMAIN fs[k].rps -> Int]
    /\ Nil \notin [tokens : Int, lastRefill : Int]
    /\ Nil \notin [rps : Int, duration : Int]

VARIABLES
    now,
    proc,      \* "boot", "up", or "exit": newApp failed and the process ended
    files,     \* the scenario files
    catalog,   \* app.scenarios
    jwt,       \* app.demoJWT, by the time it expires; Nil before the first login
    refreshIn, \* ticks to the next tick of the refresh loop
    bucket,    \* IPRateLimiter.state, per address; Nil for an unseen one
    req,       \* per request: where it is, its address and its time
    answer,    \* the last answer of the run handler, with the run it has started
    admitted   \* history, per address: the times charged for

consoleVars == <<now, proc, files, catalog, jwt, refreshIn, bucket, req, answer, admitted>>

-----------------------------------------------------------------------------
(* The catalog.  A name is a record of its text and whether blanks surround *)
(* it; a file has its texts, its options and its chaos steps summed up.     *)

TrimSpace(s) == [s EXCEPT !.padded = FALSE]
Blank(s) == s.text = ""

Clamp(n, cap) == IF n > cap THEN cap ELSE n

\* Scenario.Validate: what it rejects, and what it leaves behind.
Valid(f) ==
    /\ ~Blank(f.name) /\ f.textsPresent
    /\ f.durations # {} /\ DOMAIN f.rps # {}
    /\ \A d \in f.durations : d > 0
    /\ \A i \in DOMAIN f.rps : ~Blank(i) /\ f.rps[i] > 0
    /\ f.chaosValid

\* Faulty variant: durations above the cap are left in the list.
ValidatedLongDurations(f) ==
    [f EXCEPT !.rps = [i \in DOMAIN f.rps |-> Clamp(f.rps[i], MaxRPS)]]

Validated(f) ==
    [f EXCEPT !.durations = {Clamp(d, MaxDuration) : d \in f.durations},
              !.rps = [i \in DOMAIN f.rps |-> Clamp(f.rps[i], MaxRPS)]]

\* loadScenarios: an invalid file and a second one of the same name are left out.
Loads(fs, k) == Valid(fs[k]) /\ \A j \in 1 .. k - 1 : Valid(fs[j]) => fs[j].name # fs[k].name

LoadScenarios(fs) ==
    LET loaded == {k \in DOMAIN fs : Loads(fs, k)} IN
    [n \in {fs[k].name : k \in loaded} |->
        Validated(fs[CHOOSE k \in loaded : fs[k].name = n])]

\* ResolveRun: the options looked up, or Nil for errInvalidRunParams.
ResolveRun(s, ask) ==
    LET i == TrimSpace(ask.intensity)
        d == Clamp(ask.duration, MaxDuration)
    IN  IF i \in DOMAIN s.rps /\ d > 0 /\ d \in s.durations
        THEN [rps |-> s.rps[i], duration |-> d]
        ELSE Nil

-----------------------------------------------------------------------------
(* IPRateLimiter.  Tokens are counted in units of 1/Window. *)

Capacity == Limit * Window

\* Faulty variant: time that runs backwards adds nothing, but is remembered.
RefilledForwards(b, t) ==
    LET tokens == b.tokens + (IF t > b.lastRefill THEN t - b.lastRefill ELSE 0) * Limit
    IN  IF tokens > Capacity THEN Capacity ELSE tokens

\* What the bucket holds at time t before the charge.
Refilled(b, t) ==
    LET tokens == b.tokens + (t - b.lastRefill) * Limit
    IN  IF tokens > Capacity THEN Capacity ELSE tokens

Allows(b, t) == b = Nil \/ Refilled(b, t) >= Window

\* Faulty variant: a refused request is charged for as well.
ChargedAlways(b, t) ==
    IF b = Nil THEN [tokens |-> Capacity - Window, lastRefill |-> t]
    ELSE [tokens |-> Refilled(b, t) - Window, lastRefill |-> t]

Charged(b, t) ==
    IF b = Nil THEN [tokens |-> Capacity - Window, lastRefill |-> t]
    ELSE [tokens |-> Refilled(b, t) - (IF Allows(b, t) THEN Window ELSE 0), lastRefill |-> t]

-----------------------------------------------------------------------------
IdleReq == [pc |-> "idle", addr |-> Nil, at |-> 0]

ConsoleInit ==
    /\ now = 0
    /\ proc = "boot"
    /\ files \in FileLists
    /\ catalog = <<>>
    /\ jwt = Nil /\ refreshIn = 0
    /\ bucket = [a \in Address |-> Nil]
    /\ req = [q \in Request |-> IdleReq]
    /\ answer = Nil
    /\ admitted = [a \in Address |-> <<>>]

\* signLoginToken of the user service.
LoginToken == now + TTL

\* newApp: the catalog, then ensureDemoJWT, which tries for ten seconds (a
\* token given in the environment is not modelled), then the Redis proxy.
Boot ==
    /\ proc = "boot"
    /\ catalog' = LoadScenarios(files)
    /\ \/ /\ DOMAIN catalog' # {}
          /\ proc' = "up"
          /\ jwt' = LoginToken
          /\ refreshIn' = RefreshInterval
       \/ /\ proc' = "exit"
          /\ UNCHANGED <<jwt, refreshIn>>
    /\ UNCHANGED <<now, files, bucket, req, answer, admitted>>

\* refreshDemoJWTLoop; a failed login is only logged.
Refresh ==
    /\ proc = "up" /\ refreshIn = 0
    /\ jwt' \in {jwt, LoginToken}
    /\ refreshIn' = RefreshInterval
    /\ UNCHANGED <<now, proc, files, catalog, bucket, req, answer, admitted>>

Tick ==
    /\ now < MaxTime
    /\ proc = "up" => refreshIn > 0
    /\ now' = now + 1
    /\ refreshIn' = IF proc = "up" THEN refreshIn - 1 ELSE refreshIn
    /\ UNCHANGED <<proc, files, catalog, jwt, bucket, req, answer, admitted>>

\* withGlobalLimit reads the clock.
Arrive(q) ==
    /\ proc = "up" /\ req[q].pc = "idle"
    /\ \E a \in Address :
          req' = [req EXCEPT ![q] = [pc |-> "arrived", addr |-> a, at |-> now]]
    /\ UNCHANGED <<now, proc, files, catalog, jwt, refreshIn, bucket, answer, admitted>>

\* Allow; a refused request is answered 429.
Limited(q) ==
    LET a == req[q].addr
        ok == Allows(bucket[a], req[q].at)
    IN  /\ req[q].pc = "arrived"
        /\ bucket' = [bucket EXCEPT ![a] = Charged(@, req[q].at)]
        /\ admitted' = IF ok THEN [admitted EXCEPT ![a] = Append(@, req[q].at)] ELSE admitted
        /\ req' = [req EXCEPT ![q] = IF ok THEN [@ EXCEPT !.pc = "admitted"] ELSE IdleReq]
        /\ UNCHANGED <<now, proc, files, catalog, jwt, refreshIn, answer>>

\* withMutationAuth, handleRunScenario and the first part of startScenario.  A
\* request that gets past them may find the slot for a run (app.active,
\* app.starting) taken, or the runner may fail.
Busy == {409, 500}

Refusals(ask) ==
    IF ~ask.auth THEN {401}
    ELSE IF ask.name \notin DOMAIN catalog THEN {404}
    ELSE IF ~ask.decodes \/ ResolveRun(catalog[ask.name], ask) = Nil THEN {400}
    ELSE Busy

Replies(q, ask, code, r) ==
    /\ req[q].pc = "admitted"
    /\ req' = [req EXCEPT ![q] = IdleReq]
    /\ answer' = [ask |-> ask, code |-> code, run |-> r]
    /\ UNCHANGED <<now, proc, files, catalog, jwt, refreshIn, bucket, admitted>>

Refuse(q, ask) == \E code \in Refusals(ask) : Replies(q, ask, code, Nil)

\* The rest of startScenario: the runner is given the options and the token.
Start(q, ask) ==
    /\ Refusals(ask) = Busy
    /\ LET r == ResolveRun(catalog[ask.name], ask) IN
       Replies(q, ask, 200, [rps |-> r.rps, duration |-> r.duration,
                             at |-> now, expires |-> jwt])

ConsoleNext ==
    \/ Boot \/ Refresh \/ Tick
    \/ \E q \in Request :
          \/ Arrive(q) \/ Limited(q)
          \/ \E ask \in Ask : Refuse(q, ask) \/ Start(q, ask)

ConsoleSpec == ConsoleInit /\ [][ConsoleNext]_consoleVars

-----------------------------------------------------------------------------
\* Types of the variables.
ConsoleTypeOK ==
    /\ now \in 0 .. MaxTime
    /\ proc \in {"boot", "up", "exit"}
    /\ refreshIn \in 0 .. RefreshInterval
    /\ \A a \in Address : bucket[a] # Nil => bucket[a].tokens <= Capacity
    /\ \A q \in Request : req[q].pc \in {"idle", "arrived", "admitted"}

\* The requests of an address that were let through with a time from s to t.
LetThrough(a, s, t) == {k \in DOMAIN admitted[a] : admitted[a][k] \in s .. t}

\* Between any two times no address is let through more often than a full
\* bucket and its refill allow, although requests are charged for times that
\* reach the limiter out of order (app.go:411,709-715).
BurstBound ==
    \A a \in Address : \A s, t \in 0 .. MaxTime : s <= t =>
        Window * Cardinality(LetThrough(a, s, t)) <= Capacity + (t - s) * Limit

\* What a bucket holds at time t if it is left alone.
Level(b, t) == b.tokens + (t - b.lastRefill) * Limit

\* Times out of order put no address into debt: counted up to the present its
\* bucket is never below empty, so a client that pauses is served again.
NoDebt ==
    \A a \in Address : bucket[a] # Nil => Level(bucket[a], now) >= 0

\* What GET /api/scenarios lists of a scenario.
Listed(n, s) ==
    {[name |-> n, intensity |-> i, duration |-> d, rps |-> s.rps[i]] :
        i \in DOMAIN s.rps, d \in s.durations}

\* Whether a run is what an offer promises to somebody who asks for it.
Meets(o, ask, r) ==
    /\ o.intensity = TrimSpace(ask.intensity) /\ o.rps = r.rps
    /\ o.duration = Clamp(ask.duration, MaxDuration) /\ o.duration = r.duration

\* Whether a request names an offer, up to blanks around the intensity.
AsksFor(ask, o) ==
    o.duration = ask.duration /\ TrimSpace(o.intensity) = TrimSpace(ask.intensity)

\* An answer in keeping with the list.
AsOffered(offers, ask, code, r) ==
    LET plain == \E o \in offers : o.intensity = TrimSpace(ask.intensity) IN
    /\ code = 200 =>
          /\ \E o \in offers : Meets(o, ask, r)
          /\ r.rps \in 1 .. MaxRPS /\ r.duration \in 1 .. MaxDuration
    /\ ask.auth /\ ask.decodes /\ code \notin Busy =>
          \A o \in offers : AsksFor(ask, o) => code = IF plain THEN 200 ELSE 400

\* Every run is the offer of the intensity that was asked for, less the blanks
\* around it, and of the duration, cut to the cap, and it is within the caps.  An
\* authorised request that decodes and asks for an offer is granted, unless another
\* run has the slot or the runner fails: loading, listing and looking up agree
\* (scenarios.go:96,281, api.go:18).  The exception is an intensity that is listed
\* only with blanks around it: it is looked up without them (scenarios.go:286), and
\* who asks for it, as listed or not, is answered 400.
RunsAsOffered ==
    answer # Nil /\ answer.ask.name \in DOMAIN catalog =>
        AsOffered(Listed(answer.ask.name, catalog[answer.ask.name]),
                  answer.ask, answer.code, answer.run)
=============================================================================
