--------------------------- MODULE CircuitBreaker ---------------------------
(***************************************************************************)
(* One target's breaker shared by concurrent upstream attempts, as         *)
(* CircuitBreakerTransport.RoundTrip drives it: Allow before the attempt,  *)
(* exactly one of RecordSuccess, RecordFailure and RecordIgnored after it, *)
(* however much later.  The outcome is recorded on the breaker as it is    *)
(* then, not as it was when the attempt was admitted.                      *)
(***************************************************************************)
EXTENDS Breaker

CONSTANTS
    Attempt,  \* upstream attempts that may overlap
    Cfg       \* the breaker's (normalized) configuration

ASSUME CfgAssumption == LegalConfig(Cfg)
ASSUME AttemptAssumption == IsFiniteSet(Attempt)

VARIABLES
    br,        \* the breaker
    inFlight,  \* attempts that were admitted and have no outcome yet
    probes,    \* history: those admitted in the current half-open period
    resets,    \* history: ForceClose calls, modulo 2
    healthy    \* environment: the target has recovered for good

vars == <<br, inFlight, probes, resets, healthy>>

Init ==
    /\ br = NewBreaker
    /\ inFlight = {}
    /\ probes = {}
    /\ resets = 0
    /\ healthy = FALSE

\* Probes lose their standing as soon as the half-open period is over.
ProbesOf(b, ps) == IF b.state = "half_open" THEN ps ELSE {}

\* Allow; a rejected attempt ends with ErrCircuitOpen.
Begin(a) ==
    /\ a \notin inFlight
    /\ br' = Allow(br, Cfg)
    /\ IF Allowed(br, Cfg)
       THEN /\ inFlight' = inFlight \cup {a}
            /\ probes' = ProbesOf(br', probes \cup {a})
       ELSE UNCHANGED <<inFlight, probes>>
    /\ UNCHANGED <<resets, healthy>>

Finish(a, b) ==
    /\ a \in inFlight
    /\ br' = b
    /\ inFlight' = inFlight \ {a}
    /\ probes' = ProbesOf(b, probes \ {a})
    /\ UNCHANGED <<resets, healthy>>

\* The body reached EOF, or there was none.
Succeed(a) == Finish(a, RecordSuccess(br, Cfg))

\* A 5xx, a transport error, a body that broke off: not once recovered.
Fail(a) == ~healthy /\ Finish(a, RecordFailure(br, Cfg))

\* The caller went away, or the body was closed before its end.
Ignore(a) == Finish(a, RecordIgnored(br, Cfg))

\* Registry.Reset for this target.
AdminReset ==
    /\ br' = ForceClose(br)
    /\ probes' = {}
    /\ resets' = 1 - resets
    /\ UNCHANGED <<inFlight, healthy>>

Tick ==
    /\ br' = Elapse(br)
    /\ UNCHANGED <<inFlight, probes, resets, healthy>>

TargetRecovers ==
    /\ ~healthy
    /\ healthy' = TRUE
    /\ UNCHANGED <<br, inFlight, probes, resets>>

Next ==
    \/ \E a \in Attempt : Begin(a) \/ Succeed(a) \/ Fail(a) \/ Ignore(a)
    \/ AdminReset
    \/ Tick
    \/ TargetRecovers

Spec == Init /\ [][Next]_vars

\* Time passes; the route timeout of proxy.go ends every attempt; and for
\* as long as the circuit lets them through, clients keep sending requests.
Fairness ==
    /\ WF_vars(Tick)
    /\ \A a \in Attempt : WF_vars(Succeed(a) \/ Fail(a) \/ Ignore(a))
    /\ WF_vars(\E a \in Attempt : Begin(a))

FairSpec == Spec /\ Fairness

-----------------------------------------------------------------------------
\* The variables have their types: breaker.go's fields stay in range, and
\* the slot counter of Allow never exceeds half_open_max_requests.
TypeOK ==
    /\ br \in BreakerType
    /\ br.halfOpenInFlight <= Cfg.halfOpenMaxRequests
    /\ probes \subseteq inFlight
    /\ inFlight \subseteq Attempt
    /\ resets \in {0, 1}
    /\ healthy \in BOOLEAN

\* No probe slot leaks: every slot the half-open counter holds belongs to an
\* attempt that was admitted in this half-open period and has not ended, and
\* outside half-open no slot and no success is held over.  Outcomes of
\* attempts admitted earlier may lower the counter of breaker.go:93-95, they
\* may never leave it high.
SlotsBackedByProbes ==
    /\ br.halfOpenInFlight <= Cardinality(probes)
    /\ br.state # "half_open" =>
          br.halfOpenInFlight = 0 /\ br.halfOpenSuccesses = 0

\* Whatever mix of successes, failures, resets and elapsed time led here, a
\* closed breaker holds fewer than FailureThreshold failures and any other
\* breaker none, so that a circuit never stays closed at its threshold and a
\* recovered circuit starts from a clean record (breaker.go:112,172,183).
FailuresBelowThreshold ==
    IF br.state = "closed"
    THEN Len(br.failures) < Cfg.failureThreshold
    ELSE br.failures = <<>>

\* The failures are in time order, which makes dropping a prefix the same
\* as the filter of pruneFailuresLocked (breaker.go:212-217).
FailuresOrdered ==
    \A i, j \in 1..Len(br.failures) : i < j => br.failures[i] >= br.failures[j]

\* A half-open breaker is never left holding what should have closed it:
\* enough successes and no probe outstanding (breaker.go:97,129).
NoMissedClose ==
    br.state = "half_open" =>
        br.halfOpenSuccesses < Cfg.successThreshold \/ br.halfOpenInFlight > 0

CoolDown == IF br.state = "open" /\ br.openIn > 0 THEN br.openIn ELSE 0

\* The breaker implements the three-state machine the callers rely on, with a
\* cool-down that results arriving late can neither shorten nor extend.
Circuit ==
    INSTANCE CircuitSpec WITH
        circuit <- br.state,
        coolDown <- CoolDown,
        Timeout <- Cfg.timeout

CircuitRefinement == Circuit!CSpec

\* Once the target has recovered, and requests keep coming, the circuit
\* closes, provided that now and then there is a moment without an attempt in
\* flight, which the close asks for (breaker.go:97), and that callers do not go
\* on leaving probes for ever: an ignored probe is no success (breaker.go:123).
RecoversInAGap ==
    /\ []<>(inFlight = {})
    /\ <>[][\A a \in Attempt : br.state = "half_open" => ~Ignore(a)]_vars
    => (healthy ~> br.state = "closed")
=============================================================================
