------------------------- MODULE ResilientTransport -------------------------
(***************************************************************************)
(* The inner transport chain of one route: RetryTransport calls            *)
(* LoadBalancerTransport calls CircuitBreakerTransport calls the upstream  *)
(* (retry.go, resilient.go), for concurrent requests that share the        *)
(* breakers and the load balancer's connection counts, under a context     *)
(* that the client may cancel and the route timeout ends (proxy.go).       *)
(*                                                                         *)
(* Select stands for any strategy: it returns some target that is not      *)
(* excluded (RoundRobin, Weighted and LeastConn have modules of their own).*)
(***************************************************************************)
EXTENDS Breaker, Functions

CONSTANTS
    Request,       \* requests in progress at once
    RouteTargets,  \* route.Targets as addresses; an address may be repeated
    MaxAttempts,   \* route.Retry.MaxAttempts, before normalizeRetryPolicy
    Cfg,           \* the breakers' configuration
    None

ASSUME CfgAssumption == LegalConfig(Cfg)

Target == Range(RouteTargets)

ASSUME RouteAssumption ==
    /\ RouteTargets \in Seq(Target) /\ RouteTargets # <<>>
    /\ MaxAttempts \in Int
    /\ IsFiniteSet(Request)

VARIABLES
    br,      \* the breaker of each target
    active,  \* leastConnTarget.active of each target
    req      \* the RoundTrip in progress of each request

vars == <<br, active, req>>

\* The variables of RetryTransport.RoundTrip: where it is, isRetryableMethod,
\* the context ("live", "canceled" or "deadline"), logicalAttempt, triedTargets
\* and the current target.  visits is history: the targets selected so far.
Fresh == [pc |-> "idle", idempotent |-> TRUE, ctx |-> "live", attempt |-> 0,
          tried |-> {}, target |-> None, visits |-> <<>>, result |-> None]

Init ==
    /\ br = [t \in Target |-> NewBreaker]
    /\ active = [t \in Target |-> 0]
    /\ req = [r \in Request |-> Fresh]

\* normalizeRetryPolicy.maxAttempts
Budget(q) == IF q.idempotent /\ MaxAttempts > 0 THEN MaxAttempts ELSE 1

\* uniqueTargetCount
TotalTargets == Cardinality(Target)

Become(r, q) == req' = [req EXCEPT ![r] = q]
At(q, l) == [q EXCEPT !.pc = l]
Ended(res) == [Fresh EXCEPT !.pc = "done", !.result = res]

\* RoundTrip returns an error and the proxy's ErrorHandler answers: an expired
\* route timeout is 504 whatever the error.
Failed(q, status) == Ended(IF q.ctx = "deadline" THEN 504 ELSE status)

\* selection.Done of a least-connections balancer.
Release(t) == active' = [active EXCEPT ![t] = @ - 1]

Record(t, b) == br' = [br EXCEPT ![t] = b]

-----------------------------------------------------------------------------
\* A request enters RetryTransport.RoundTrip; a body that has to be kept for
\* replay may be too large or fail to be read (captureRequestBody).
Start(r) ==
    /\ req[r].pc = "idle"
    /\ \E m \in BOOLEAN :
          LET q == [Fresh EXCEPT !.idempotent = m] IN
          \/ Become(r, At(q, "loop"))
          \/ Budget(q) > 1 /\ Become(r, Failed(q, 502))
    /\ UNCHANGED <<br, active>>

\* The head of the loop: the context check, then balancer.Select.
Select(r) ==
    LET q == req[r]
        candidates == Target \ q.tried
    IN  /\ q.pc = "loop"
        /\ UNCHANGED br
        /\ \/ /\ q.ctx # "live"
              /\ Become(r, Failed(q, 502)) /\ UNCHANGED active
           \/ /\ q.ctx = "live" /\ candidates = {}
              /\ Become(r, Failed(q, 502)) /\ UNCHANGED active
           \/ /\ q.ctx = "live"
              /\ \E t \in candidates :
                    /\ active' = [active EXCEPT ![t] = @ + 1]
                    /\ Become(r, [q EXCEPT !.pc = "admit", !.target = t,
                                           !.visits = Append(@, t)])

\* Faulty variant: a target that refused may be asked again.
AfterRejectionForgets(q) ==
    LET seen == q.tried \cup {q.target} IN
    IF Cardinality(seen) >= TotalTargets THEN Failed(q, 503)
    ELSE IF q.ctx # "live" THEN Failed(q, 502)
    ELSE [q EXCEPT !.pc = "loop"]

\* What the retry loop does with ErrCircuitOpen.
AfterRejection(q) ==
    LET seen == q.tried \cup {q.target} IN
    IF Cardinality(seen) >= TotalTargets THEN Failed(q, 503)
    ELSE IF q.ctx # "live" THEN Failed(q, 502)
    ELSE [q EXCEPT !.pc = "loop", !.tried = seen]

\* breaker.Allow: a rejection goes back through the balancer to the loop.
Admit(r) ==
    LET q == req[r]
        b == br[q.target]
    IN  /\ q.pc = "admit"
        /\ Record(q.target, Allow(b, Cfg))
        /\ IF Allowed(b, Cfg)
           THEN Become(r, [q EXCEPT !.pc = "sent"]) /\ UNCHANGED active
           ELSE Become(r, AfterRejection(q)) /\ Release(q.target)

\* shouldRetry
ShouldRetry(q, retryable) == q.attempt + 1 < Budget(q) /\ retryable

\* Faulty variant: the failed target is not excluded.
RetryingForgets(q) == [q EXCEPT !.pc = "backoff", !.tried = {}]

\* The bookkeeping before the backoff: the failed target is tried, and once
\* all targets are the set starts over.
Retrying(q) ==
    LET seen == q.tried \cup {q.target} IN
    [q EXCEPT !.pc = "backoff",
              !.tried = IF Cardinality(seen) >= TotalTargets THEN {} ELSE seen]

\* The upstream call fails: a connection failure or transport timeout is
\* transient, anything else is not; both count toward the circuit.
UpstreamError(r) ==
    LET q == req[r] IN
    /\ q.pc = "sent"
    /\ Record(q.target, RecordFailure(br[q.target], Cfg))
    /\ Release(q.target)
    /\ \E transient \in BOOLEAN :
          Become(r, IF ShouldRetry(q, transient) THEN Retrying(q) ELSE Failed(q, 502))

\* The upstream call ends with the caller's context error, which the breaker
\* ignores; isTransientError calls a deadline transient all the same.
UpstreamAborted(r) ==
    LET q == req[r] IN
    /\ q.pc = "sent"
    /\ q.ctx # "live"
    /\ Record(q.target, RecordIgnored(br[q.target], Cfg))
    /\ Release(q.target)
    /\ Become(r, IF ShouldRetry(q, q.ctx = "deadline")
                 THEN Retrying(q) ELSE Failed(q, 502))

\* A 5xx counts at once.  502, 503 and 504 are retried while attempts last,
\* which closes the body; otherwise the response goes back to the proxy.
Upstream5xx(r) ==
    LET q == req[r] IN
    /\ q.pc = "sent"
    /\ Record(q.target, RecordFailure(br[q.target], Cfg))
    /\ \E retryable \in BOOLEAN :
          IF ShouldRetry(q, retryable)
          THEN Become(r, Retrying(q)) /\ Release(q.target)
          ELSE Become(r, At(q, "error_body")) /\ UNCHANGED active

\* A response below 500: the breaker learns the outcome from the body.
UpstreamOK(r) ==
    /\ req[r].pc = "sent"
    /\ Become(r, At(req[r], "body"))
    /\ UNCHANGED <<br, active>>

\* Read meets EOF: both wrappers fire, each through its sync.Once.
ReadEOF(r) ==
    LET q == req[r] IN
    /\ q.pc \in {"body", "error_body"}
    /\ IF q.pc = "body" THEN Record(q.target, RecordSuccess(br[q.target], Cfg))
                       ELSE UNCHANGED br
    /\ Release(q.target)
    /\ Become(r, At(q, "drained"))

\* Read fails before EOF: a context error is ignored, any other counts.  The
\* selection is kept until the proxy closes the body.
BodyBreaks(r) ==
    LET q == req[r] IN
    /\ q.pc = "body"
    /\ \/ Record(q.target, RecordFailure(br[q.target], Cfg))
       \/ q.ctx # "live" /\ Record(q.target, RecordIgnored(br[q.target], Cfg))
    /\ Become(r, At(q, "broken"))
    /\ UNCHANGED active

\* Faulty variant: a body closed before its end reports nothing.
CloseEarlySilent(r) ==
    /\ req[r].pc \in {"error_body", "body"}
    /\ Release(req[r].target)
    /\ Become(r, Ended(200))
    /\ UNCHANGED br

\* Close before EOF: the client went away and the breaker ignores the attempt,
\* unless Close itself fails for another reason than the context.
CloseEarly(r) ==
    LET q == req[r] IN
    /\ \/ q.pc = "error_body" /\ UNCHANGED br
       \/ q.pc = "body" /\ Record(q.target, RecordIgnored(br[q.target], Cfg))
       \/ q.pc = "body" /\ Record(q.target, RecordFailure(br[q.target], Cfg))
    /\ Release(q.target)
    /\ Become(r, Ended(200))

\* Faulty variant: only EOF releases the selection.
CloseBodyKeepsSelection(r) ==
    /\ req[r].pc \in {"drained", "broken"}
    /\ Become(r, Ended(200))
    /\ UNCHANGED <<br, active>>

\* ReverseProxy closes the body after EOF or an error: no Once fires twice.
CloseBody(r) ==
    LET q == req[r] IN
    /\ q.pc \in {"drained", "broken"}
    /\ IF q.pc = "broken" THEN Release(q.target) ELSE UNCHANGED active
    /\ Become(r, Ended(200))
    /\ UNCHANGED br

\* sleepWithContext
Backoff(r) ==
    LET q == req[r] IN
    /\ q.pc = "backoff"
    /\ Become(r, IF q.ctx # "live" THEN Failed(q, 502)
                 ELSE [q EXCEPT !.pc = "loop", !.attempt = @ + 1])
    /\ UNCHANGED <<br, active>>

\* The client cancels, or the route timeout of proxy.go expires.
ContextEnds(r, why) ==
    /\ req[r].pc \notin {"idle", "done"}
    /\ req[r].ctx = "live"
    /\ Become(r, [req[r] EXCEPT !.ctx = why])
    /\ UNCHANGED <<br, active>>

\* The goroutine is done with this request and serves another.
Reuse(r) ==
    /\ req[r].pc = "done"
    /\ Become(r, Fresh)
    /\ UNCHANGED <<br, active>>

Tick ==
    /\ br' = [t \in Target |-> Elapse(br[t])]
    /\ UNCHANGED <<active, req>>

Next ==
    \/ \E r \in Request :
          \/ Start(r) \/ Select(r) \/ Admit(r) \/ Backoff(r) \/ CloseBody(r) \/ Reuse(r)
          \/ UpstreamError(r) \/ UpstreamAborted(r) \/ Upstream5xx(r) \/ UpstreamOK(r)
          \/ ReadEOF(r) \/ BodyBreaks(r) \/ CloseEarly(r)
          \/ ContextEnds(r, "canceled") \/ ContextEnds(r, "deadline")
    \/ Tick

Spec == Init /\ [][Next]_vars

-----------------------------------------------------------------------------
Location == {"idle", "loop", "admit", "sent", "body", "error_body", "drained", "broken",
             "backoff", "done"}

\* Types of the variables, and attempts within the budget of the request.
TypeOK ==
    /\ br \in [Target -> BreakerType]
    /\ active \in [Target -> Nat]
    /\ \A r \in Request :
          LET q == req[r] IN
          /\ q.pc \in Location
          /\ q.ctx \in {"live", "canceled", "deadline"}
          /\ q.attempt \in 0..(Budget(q) - 1)
          /\ q.tried \subseteq Target
          /\ q.target \in Target \cup {None}
          /\ q.visits \in Seq(Target)

Holding(t, where) == {r \in Request : req[r].target = t /\ req[r].pc \in where}

\* Through every way an attempt can end, retries and both body wrappers
\* included, each selection is released exactly once: the least-connections
\* counts are the connections in use (least_conn.go:51-61, resilient.go:588).
\* A response with status 101 is no ending of this model: the reverse proxy
\* refuses its wrapped body, which cannot be written to, without closing it.
ActiveIsInUse ==
    \A t \in Target :
        active[t] = Cardinality(Holding(t, {"admit", "sent", "body", "error_body", "broken"}))

\* Every admitted attempt reports to its breaker once, when the call or the
\* body ends: a half-open breaker's slots never outnumber the attempts that
\* still owe it an outcome (resilient.go:215-312, 609-647); a status 101 is
\* left out here too.
SlotsOwed ==
    \A t \in Target :
        br[t].halfOpenInFlight <= Cardinality(Holding(t, {"sent", "body"}))

\* A target that failed or refused is not selected again before every other
\* target of the route has been, repeated addresses or not: the selections
\* fall into passes over the targets (retry.go:156-158,202-207).
NoRepeatInPass ==
    \A r \in Request :
        LET v == req[r].visits IN
        \A i, j \in 1..Len(v) :
            i < j /\ (i - 1) \div TotalTargets = (j - 1) \div TotalTargets
                => v[i] # v[j]

\* How far a request in progress is from its end: attempts left (the backoff
\* belongs to the next one), targets the pass has left, the way to the end of
\* an attempt, and a context that can still end.
Way == [loop |-> 5, admit |-> 4, sent |-> 3, body |-> 2, error_body |-> 2,
        drained |-> 1, broken |-> 1, backoff |-> 6]

Rank(q) ==
    LET attempts == Budget(q) - q.attempt - (IF q.pc = "backoff" THEN 1 ELSE 0)
        pass == 7 * Cardinality(Target \ q.tried) + Way[q.pc]
    IN  2 * (attempts * 7 * (TotalTargets + 1) + pass) + (IF q.ctx = "live" THEN 1 ELSE 0)

\* The loop of RetryTransport ends: every step of a request in progress ends it
\* or decreases a natural number, whatever upstreams, breakers and the other
\* requests do, although a refusal continues the loop without counting an
\* attempt and a retry may clear the tried targets (retry.go:154-211).
EveryStepAdvances ==
    [][\A r \in Request :
          req'[r] # req[r] /\ req[r].pc \notin {"idle", "done"} /\ req'[r].pc # "done"
              => Rank(req'[r]) < Rank(req[r]) /\ Rank(req'[r]) > 0]_vars

\* An upstream that lets the route timeout pass is a failure to its breaker:
\* an attempt that ends that way changes a closed breaker (resilient.go:218-231).
UpstreamTimeoutCounts ==
    [][\A r \in Request :
          LET t == req[r].target IN
          UpstreamAborted(r) /\ req[r].ctx = "deadline" /\ br[t].state = "closed"
              => br'[t] # br[t]]_vars
=============================================================================
