------------------------------ MODULE Breaker ------------------------------
(***************************************************************************)
(* The circuit breaker of internal/transport/circuitbreaker/breaker.go as  *)
(* functions on a breaker value.  Every exported method of the Go type     *)
(* holds b.mu from its first to its last line, so each is one atomic step  *)
(* of the modules that use these functions.                                *)
(*                                                                         *)
(* Times are kept relative to the present instead of as instants: a        *)
(* failure is its age, and openIn is openUntil minus now.  b.clock is read *)
(* under the lock and Go's clock readings are monotonic, so the two views  *)
(* carry the same information.  Elapse moves every breaker one tick on.    *)
(***************************************************************************)
EXTENDS Integers, Sequences, FiniteSets

CONSTANTS
    Horizon,       \* no timeout or window lasts longer than this many ticks
    SuccessCap,    \* no success threshold is larger than this
    DefaultConfig  \* normalizeConfig's literals (5, 3, 30s, 60s, 3), in ticks

CircuitState == {"closed", "open", "half_open"}

ConfigField == {"failureThreshold", "successThreshold", "timeout",
                "windowSize", "halfOpenMaxRequests"}

\* A configuration as normalizeConfig leaves it: every field positive.
LegalConfig(c) ==
    /\ c \in [ConfigField -> Nat \ {0}]
    /\ c.timeout <= Horizon
    /\ c.windowSize <= Horizon
    /\ c.successThreshold <= SuccessCap

ASSUME HorizonAssumption == Horizon \in Nat /\ SuccessCap \in Nat
ASSUME DefaultAssumption == LegalConfig(DefaultConfig)

NormalizeConfig(cfg) ==
    [f \in ConfigField |-> IF cfg[f] <= 0 THEN DefaultConfig[f] ELSE cfg[f]]

\* Beyond Horizon an age is only "older than every window", and an elapsed
\* timer only "elapsed whatever timeout a reload may bring".
BreakerType ==
    [state: CircuitState,
     openIn: (-Horizon)..Horizon,
     failures: Seq(0..(Horizon + 1)),
     halfOpenSuccesses: 0..SuccessCap,
     halfOpenInFlight: Nat]

NewBreaker ==
    [state |-> "closed", openIn |-> 0, failures |-> <<>>,
     halfOpenSuccesses |-> 0, halfOpenInFlight |-> 0]

-----------------------------------------------------------------------------
\* The failures before the cutoff now - WindowSize.
StaleFailures(fs, c) == {i \in 1..Len(fs) : fs[i] > c.windowSize}

\* The slice is in the order of the readings of the clock, oldest first, so
\* the loop that filters it drops a prefix (FailuresOrdered, CircuitBreaker).
PruneFailures(fs, c) ==
    SubSeq(fs, Cardinality(StaleFailures(fs, c)) + 1, Len(fs))

OpenLocked(b, c) ==
    [state |-> "open", openIn |-> c.timeout, failures |-> <<>>,
     halfOpenSuccesses |-> 0, halfOpenInFlight |-> 0]

CloseLocked(b) == NewBreaker

ForceClose(b) == NewBreaker

TimerElapsed(b) == b.state = "open" /\ b.openIn <= 0

\* Faulty variant: the timer of an open circuit is not looked at.
EnterHalfOpenNever(b) == b

\* openUntil is dead outside StateOpen; it is dropped on the way out.
EnterHalfOpen(b) ==
    IF TimerElapsed(b)
    THEN [state |-> "half_open", openIn |-> 0, failures |-> b.failures,
          halfOpenSuccesses |-> 0, halfOpenInFlight |-> 0]
    ELSE b

HasFreeSlot(b, c) ==
    b.state = "half_open" /\ b.halfOpenInFlight < c.halfOpenMaxRequests

\* What Allow returns, and what it leaves behind.
Allowed(b, c) ==
    LET e == EnterHalfOpen(b) IN e.state = "closed" \/ HasFreeSlot(e, c)

Allow(b, c) ==
    LET e == EnterHalfOpen(b) IN
    IF HasFreeSlot(e, c) THEN [e EXCEPT !.halfOpenInFlight = @ + 1] ELSE e

\* Faulty variant: the slot is never given back.
ReleaseSlotNever(b) == b

ReleaseSlot(b) ==
    [b EXCEPT !.halfOpenInFlight = IF @ > 0 THEN @ - 1 ELSE @]

\* The closing test shared by RecordSuccess, RecordIgnored and reconcile.
CloseIfRecovered(b, c) ==
    IF b.halfOpenSuccesses >= c.successThreshold /\ b.halfOpenInFlight = 0
    THEN CloseLocked(b)
    ELSE b

CountSuccess(b) ==
    [b EXCEPT !.halfOpenSuccesses = IF @ < SuccessCap THEN @ + 1 ELSE @]

RecordSuccess(b, c) ==
    CASE b.state = "closed" ->
            [b EXCEPT !.failures = PruneFailures(b.failures, c)]
      [] b.state = "half_open" ->
            CloseIfRecovered(CountSuccess(ReleaseSlot(b)), c)
      [] b.state = "open" -> b

\* Faulty variant: a late failure restarts the timer of an open circuit.
RecordFailureExtends(b, c) ==
    LET fs == PruneFailures(Append(b.failures, 0), c) IN
    CASE b.state = "closed" ->
            IF Len(fs) >= c.failureThreshold
            THEN OpenLocked(b, c)
            ELSE [b EXCEPT !.failures = fs]
      [] b.state = "half_open" -> OpenLocked(ReleaseSlot(b), c)
      [] b.state = "open" -> OpenLocked(b, c)

RecordFailure(b, c) ==
    LET fs == PruneFailures(Append(b.failures, 0), c) IN
    CASE b.state = "closed" ->
            IF Len(fs) >= c.failureThreshold
            THEN OpenLocked(b, c)
            ELSE [b EXCEPT !.failures = fs]
      [] b.state = "half_open" -> OpenLocked(ReleaseSlot(b), c)
      [] b.state = "open" -> b

\* Faulty variant: the slot is given back without the closing test.
RecordIgnoredNoClose(b, c) == IF b.state = "half_open" THEN ReleaseSlot(b) ELSE b

\* Faulty variant: an attempt without an outcome keeps its slot.
RecordIgnoredKeepsSlot(b, c) == b

RecordIgnored(b, c) ==
    IF b.state = "half_open" /\ b.halfOpenInFlight > 0
    THEN CloseIfRecovered(ReleaseSlot(b), c)
    ELSE b

\* State(): an open breaker whose timer has run out is reported half-open.
ObservedState(b) == IF TimerElapsed(b) THEN "half_open" ELSE b.state

-----------------------------------------------------------------------------
\* cloneWithConfig followed by reconcileLocked: the copy a reload that
\* changes the breaker configuration makes of a live breaker.
Clamp(n, lo, hi) == IF n < lo THEN lo ELSE IF n > hi THEN hi ELSE n

\* Faulty variant: the slots in use are not clamped to the new limit.
ReconcileUnclamped(b, old, new) ==
    LET p == [b EXCEPT !.failures = PruneFailures(b.failures, new)] IN
    CASE p.state = "closed" ->
            IF Len(p.failures) >= new.failureThreshold
            THEN OpenLocked(p, new) ELSE p
      [] p.state = "open" ->
            [p EXCEPT !.openIn =
                Clamp(@ - old.timeout + new.timeout, -Horizon, Horizon)]
      [] p.state = "half_open" -> CloseIfRecovered(p, new)

\* Faulty variant: an open circuit starts its cool-down again.
ReconcileRestarts(b, old, new) ==
    LET p == [b EXCEPT !.failures = PruneFailures(b.failures, new)] IN
    CASE p.state = "closed" ->
            IF Len(p.failures) >= new.failureThreshold
            THEN OpenLocked(p, new) ELSE p
      [] p.state = "open" -> [p EXCEPT !.openIn = new.timeout]
      [] p.state = "half_open" ->
            CloseIfRecovered(
                [p EXCEPT !.halfOpenInFlight =
                    Clamp(@, 0, new.halfOpenMaxRequests)], new)

ReconcileLocked(b, old, new) ==
    LET p == [b EXCEPT !.failures = PruneFailures(b.failures, new)] IN
    CASE p.state = "closed" ->
            IF Len(p.failures) >= new.failureThreshold
            THEN OpenLocked(p, new) ELSE p
      [] p.state = "open" ->
            [p EXCEPT !.openIn =
                Clamp(@ - old.timeout + new.timeout, -Horizon, Horizon)]
      [] p.state = "half_open" ->
            CloseIfRecovered(
                [p EXCEPT !.halfOpenInFlight =
                    Clamp(@, 0, new.halfOpenMaxRequests)], new)

CloneWithConfig(b, old, cfg) == ReconcileLocked(b, old, NormalizeConfig(cfg))

-----------------------------------------------------------------------------
\* One tick of b.clock, as a breaker sees it.
Elapse(b) ==
    LET older == [i \in 1..Len(b.failures) |->
                     IF b.failures[i] <= Horizon
                     THEN b.failures[i] + 1 ELSE b.failures[i]]
        aged == [b EXCEPT !.failures = older]
    IN  IF b.state = "open" /\ b.openIn > -Horizon
        THEN [aged EXCEPT !.openIn = @ - 1]
        ELSE aged
=============================================================================
