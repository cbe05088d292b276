--------------------------- MODULE BreakerReload ---------------------------
(***************************************************************************)
(* A target's breaker across a hot reload that changes the circuit-breaker *)
(* configuration.  buildSnapshot clones the live breaker into a new        *)
(* registry, and some time later Reload stores the new snapshot.  Requests *)
(* keep the snapshot they started with, so attempts of the old snapshot    *)
(* are admitted by the old breaker and record their outcome there, before  *)
(* and after the swap.                                                     *)
(***************************************************************************)
EXTENDS Breaker

CONSTANTS
    Call,     \* upstream attempts that may overlap
    OldCfg,   \* the circuit_breaker section before the edit
    NewCfg    \* and after it

ASSUME OldCfgAssumption == LegalConfig(OldCfg)
ASSUME NewCfgAssumption ==
    NewCfg \in [ConfigField -> Int] /\ LegalConfig(NormalizeConfig(NewCfg))

VARIABLES
    old,      \* the breaker of the first snapshot
    new,      \* its clone, once buildSnapshot has made it
    phase,    \* "serving", "built" (cloned, not yet stored) or "swapped"
    at,       \* where each attempt is: "idle", "entered" or "sent"
    on,       \* the breaker of the attempt's snapshot: "old" or "new"
    copied,   \* history: the clone was made with probe slots taken
    recovered \* environment: the target has recovered for good

reloadVars == <<old, new, phase, at, on, copied, recovered>>

ConfigOf(g) == IF g = "old" THEN OldCfg ELSE NormalizeConfig(NewCfg)
BreakerOf(g) == IF g = "old" THEN old ELSE new
Current == IF phase = "swapped" THEN "new" ELSE "old"

SetBreaker(g, b) ==
    IF g = "old" THEN old' = b /\ UNCHANGED new ELSE new' = b /\ UNCHANGED old

ReloadInit ==
    /\ old = NewBreaker
    /\ new = NewBreaker
    /\ phase = "serving"
    /\ at = [a \in Call |-> "idle"]
    /\ on = [a \in Call |-> "old"]
    /\ copied = FALSE
    /\ recovered = FALSE

\* ServeHTTP loads the current snapshot; its handlers hold its registry.
Enter(a) ==
    /\ at[a] = "idle"
    /\ at' = [at EXCEPT ![a] = "entered"]
    /\ on' = [on EXCEPT ![a] = Current]
    /\ UNCHANGED <<old, new, phase, copied, recovered>>

Admit(a) ==
    LET b == BreakerOf(on[a])
        c == ConfigOf(on[a])
    IN  /\ at[a] = "entered"
        /\ SetBreaker(on[a], Allow(b, c))
        /\ at' = [at EXCEPT ![a] = IF Allowed(b, c) THEN "sent" ELSE "idle"]
        /\ UNCHANGED <<on, phase, copied, recovered>>

Record(a, b) ==
    /\ at[a] = "sent"
    /\ SetBreaker(on[a], b)
    /\ at' = [at EXCEPT ![a] = "idle"]
    /\ UNCHANGED <<on, phase, copied, recovered>>

CallSucceeds(a) == Record(a, RecordSuccess(BreakerOf(on[a]), ConfigOf(on[a])))
CallFails(a) == ~recovered /\ Record(a, RecordFailure(BreakerOf(on[a]), ConfigOf(on[a])))
CallIgnored(a) == Record(a, RecordIgnored(BreakerOf(on[a]), ConfigOf(on[a])))

\* nextCircuitBreakerRegistry, when the circuit_breaker section changed.
BuildSnapshot ==
    /\ phase = "serving"
    /\ phase' = "built"
    /\ new' = CloneWithConfig(old, OldCfg, NewCfg)
    /\ copied' = (new'.halfOpenInFlight > 0)
    /\ UNCHANGED <<old, at, on, recovered>>

\* m.current.Store(snapshot)
SwapSnapshot ==
    /\ phase = "built"
    /\ phase' = "swapped"
    /\ UNCHANGED <<old, new, at, on, copied, recovered>>

\* POST /admin/circuit-breakers/reset works on the current snapshot.
ResetCurrent ==
    /\ SetBreaker(Current, ForceClose(BreakerOf(Current)))
    /\ copied' = (copied /\ Current = "old")
    /\ UNCHANGED <<phase, at, on, recovered>>

TimePasses ==
    /\ old' = Elapse(old)
    /\ new' = Elapse(new)
    /\ UNCHANGED <<phase, at, on, copied, recovered>>

Recovers ==
    /\ ~recovered
    /\ recovered' = TRUE
    /\ UNCHANGED <<old, new, phase, at, on, copied>>

ReloadNext ==
    \/ \E a \in Call : Enter(a) \/ Admit(a)
    \/ \E a \in Call : CallSucceeds(a) \/ CallFails(a) \/ CallIgnored(a)
    \/ BuildSnapshot
    \/ SwapSnapshot
    \/ ResetCurrent
    \/ TimePasses
    \/ Recovers

\* The route timeout ends every attempt, requests keep coming, a reload that
\* was begun completes, time passes; resets and reloads need not happen.
ReloadFairness ==
    /\ WF_reloadVars(TimePasses)
    /\ WF_reloadVars(SwapSnapshot)
    /\ \A a \in Call : WF_reloadVars(Enter(a)) /\ WF_reloadVars(Admit(a))
    /\ \A a \in Call : WF_reloadVars(CallSucceeds(a) \/ CallFails(a) \/ CallIgnored(a))

ReloadSpec == ReloadInit /\ [][ReloadNext]_reloadVars
ReloadFairSpec == ReloadSpec /\ ReloadFairness

-----------------------------------------------------------------------------
\* Types of the variables, and each breaker within its own configuration.
ReloadTypeOK ==
    /\ {old, new} \subseteq BreakerType
    /\ phase \in {"serving", "built", "swapped"}
    /\ at \in [Call -> {"idle", "entered", "sent"}]
    /\ on \in [Call -> {"old", "new"}]
    /\ copied \in BOOLEAN /\ recovered \in BOOLEAN

\* A reload never leaves a breaker past one of the thresholds of the
\* configuration it now has: reconcileLocked opens, closes and clamps where
\* the new numbers ask for it (breaker.go:221-244).
WithinThresholds ==
    \A g \in {"old", "new"} :
        LET b == BreakerOf(g)
            c == ConfigOf(g)
        IN  /\ b.state = "closed" => Len(b.failures) < c.failureThreshold
            /\ b.halfOpenInFlight <= c.halfOpenMaxRequests
            /\ b.state = "half_open" =>
                  b.halfOpenSuccesses < c.successThreshold \/ b.halfOpenInFlight > 0
            /\ b.openIn <= c.timeout

\* A reload passes no verdict of its own: an open circuit stays open and has
\* been open as long as before, a half-open one is not reopened, and a closed
\* one opens only on failures that the old configuration had recorded.
ReloadKeepsVerdict ==
    [][phase = "serving" /\ phase' = "built" =>
          CASE old.state = "open" ->
                  /\ new'.state = "open"
                  /\ \/ new'.openIn = -Horizon
                     \/ NormalizeConfig(NewCfg).timeout - new'.openIn
                           = OldCfg.timeout - old.openIn
            [] old.state = "half_open" -> new'.state \in {"half_open", "closed"}
            [] old.state = "closed" ->
                  new'.state = "open" =>
                      Len(old.failures) >= NormalizeConfig(NewCfg).failureThreshold]_reloadVars

\* After the target has recovered the circuit of the new snapshot closes,
\* whatever the clone took over from the old one, unless it was made while
\* probes were out: their slots never come back (breaker.go:163).  Callers must
\* not go on leaving probes for ever.
RecoversUnlessCopied ==
    <>[][\A a \in Call : BreakerOf(on[a]).state = "half_open" => ~CallIgnored(a)]_reloadVars
    => (recovered /\ phase = "swapped" ~> (new.state = "closed" \/ copied))
=============================================================================
