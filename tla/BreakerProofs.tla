--------------------------- MODULE BreakerProofs ---------------------------
(***************************************************************************)
(* What the functions of module Breaker return, for every configuration.   *)
(***************************************************************************)
EXTENDS Breaker, TLAPS, FiniteSetTheorems, SequenceTheorems

\* The oldest failure comes first.
Ordered(fs) == \A i, j \in 1..Len(fs) : i < j => fs[i] >= fs[j]

\* The fields of a legal configuration (normalizeConfig, breaker.go:246-263).
LEMMA ConfigFields ==
  ASSUME NEW c, LegalConfig(c)
  PROVE  /\ c.failureThreshold \in Nat \ {0}
         /\ c.successThreshold \in Nat \ {0}
         /\ c.timeout \in Nat \ {0}
         /\ c.windowSize \in Nat \ {0}
         /\ c.halfOpenMaxRequests \in Nat \ {0}
         /\ c.timeout <= Horizon
         /\ c.successThreshold <= SuccessCap
BY DEF LegalConfig, ConfigField

\* pruneFailuresLocked (breaker.go:205-219) returns a suffix of its argument:
\* it adds no failure, keeps their order and never lengthens the list.
LEMMA PruneProperties ==
  ASSUME NEW S, NEW c, NEW fs \in Seq(S)
  PROVE  /\ PruneFailures(fs, c) \in Seq(S)
         /\ Len(PruneFailures(fs, c)) <= Len(fs)
         /\ \E k \in 0..Len(fs) :
              /\ Len(PruneFailures(fs, c)) = Len(fs) - k
              /\ \A i \in 1..(Len(fs) - k) : PruneFailures(fs, c)[i] = fs[i + k]
<1> DEFINE k == Cardinality(StaleFailures(fs, c))
<1>1. Len(fs) \in Nat
  BY LenProperties
<1>2. IsFiniteSet(1..Len(fs)) /\ Cardinality(1..Len(fs)) = Len(fs)
  BY <1>1, FS_Interval
<1>3. StaleFailures(fs, c) \subseteq 1..Len(fs)
  BY DEF StaleFailures
<1>4. IsFiniteSet(StaleFailures(fs, c)) /\ k <= Len(fs)
  BY <1>2, <1>3, FS_Subset
<1>5. k \in 0..Len(fs)
  BY <1>1, <1>4, FS_CardinalityType
<1> HIDE DEF k
<1>6. /\ SubSeq(fs, k + 1, Len(fs)) \in Seq(S)
      /\ Len(SubSeq(fs, k + 1, Len(fs))) = Len(fs) - k
      /\ \A i \in 1..(Len(fs) - k) : SubSeq(fs, k + 1, Len(fs))[i] = fs[i + k]
  BY <1>1, <1>5
<1>7. PruneFailures(fs, c) = SubSeq(fs, k + 1, Len(fs))
  BY DEF PruneFailures, k
<1>8. /\ PruneFailures(fs, c) \in Seq(S)
      /\ Len(PruneFailures(fs, c)) = Len(fs) - k
      /\ \A i \in 1..(Len(fs) - k) : PruneFailures(fs, c)[i] = fs[i + k]
  BY <1>6, <1>7
<1>9. Len(PruneFailures(fs, c)) <= Len(fs)
  BY <1>1, <1>5, <1>8
<1> QED
  BY <1>5, <1>8, <1>9

\* Pruning keeps the failures in time order.
LEMMA PruneOrdered ==
  ASSUME NEW c, NEW fs \in Seq(0..(Horizon + 1)), Ordered(fs)
  PROVE  Ordered(PruneFailures(fs, c))
<1>1. PICK k \in 0..Len(fs) :
        /\ Len(PruneFailures(fs, c)) = Len(fs) - k
        /\ \A i \in 1..(Len(fs) - k) : PruneFailures(fs, c)[i] = fs[i + k]
  BY PruneProperties
<1>2. Len(fs) \in Nat
  BY LenProperties
<1> QED
  BY <1>1, <1>2 DEF Ordered

-----------------------------------------------------------------------------
\* What every breaker value satisfies between two method calls.
WellFormed(b, c) ==
  /\ b \in BreakerType
  /\ b.halfOpenInFlight <= c.halfOpenMaxRequests
  /\ b.state # "half_open" => b.halfOpenInFlight = 0 /\ b.halfOpenSuccesses = 0
  /\ b.state = "closed" => Len(b.failures) < c.failureThreshold
  /\ b.state # "closed" => b.failures = <<>>
  /\ Ordered(b.failures)
  /\ b.state = "half_open" =>
        b.halfOpenSuccesses < c.successThreshold \/ b.halfOpenInFlight > 0
  /\ b.state # "open" => b.openIn = 0
  /\ b.openIn <= c.timeout

\* A new, a closed and a force-closed breaker are the same value, and it is
\* well formed (breaker.go:47-53, 180-203).
LEMMA NewBreakerWellFormed ==
  ASSUME NEW c, LegalConfig(c)
  PROVE  WellFormed(NewBreaker, c)
<1>1. <<>> \in Seq(0..(Horizon + 1)) /\ Len(<<>>) = 0
  BY EmptySeq
<1>2. NewBreaker \in BreakerType
  BY <1>1, HorizonAssumption DEF NewBreaker, BreakerType, CircuitState
<1> QED
  BY <1>1, <1>2, ConfigFields DEF NewBreaker, WellFormed, Ordered

\* openLocked leaves a well-formed open breaker (breaker.go:169-178).
LEMMA OpenLockedWellFormed ==
  ASSUME NEW b, NEW c, LegalConfig(c)
  PROVE  WellFormed(OpenLocked(b, c), c)
<1>1. <<>> \in Seq(0..(Horizon + 1)) /\ Len(<<>>) = 0
  BY EmptySeq
<1>2. c.timeout \in (-Horizon)..Horizon
  BY ConfigFields, HorizonAssumption
<1>3. OpenLocked(b, c) \in BreakerType
  BY <1>1, <1>2, HorizonAssumption DEF OpenLocked, BreakerType, CircuitState
<1> QED
  BY <1>1, <1>3, ConfigFields DEF OpenLocked, WellFormed, Ordered

\* Allow (breaker.go:55-83) keeps the breaker well formed, takes at most one
\* slot, and changes nothing when it rejects.
LEMMA AllowProperties ==
  ASSUME NEW b, NEW c, LegalConfig(c), WellFormed(b, c)
  PROVE  /\ WellFormed(Allow(b, c), c)
         /\ ~Allowed(b, c) => Allow(b, c) = b
         /\ Allow(b, c).state = "half_open" =>
               \/ /\ b.state = "half_open"
                  /\ Allow(b, c).halfOpenInFlight <= b.halfOpenInFlight + 1
               \/ Allow(b, c).halfOpenInFlight = 1
         /\ TimerElapsed(b) => Allow(b, c).state = "half_open"
         /\ ~TimerElapsed(b) =>
               Allow(b, c).state = b.state /\ Allow(b, c).openIn = b.openIn
<1> DEFINE e == EnterHalfOpen(b)
<1>1. e \in BreakerType /\ e.failures = b.failures
  BY HorizonAssumption DEF EnterHalfOpen, TimerElapsed, BreakerType, CircuitState, WellFormed
<1>2. CASE TimerElapsed(b)
  BY <1>1, <1>2, ConfigFields
     DEF EnterHalfOpen, TimerElapsed, BreakerType, CircuitState, WellFormed,
         Allow, Allowed, HasFreeSlot
<1>3. CASE ~TimerElapsed(b)
  <2>1. e = b
    BY <1>3 DEF EnterHalfOpen
  <2>2. CASE HasFreeSlot(b, c)
    <3>1. Allow(b, c) = [b EXCEPT !.halfOpenInFlight = @ + 1] /\ Allowed(b, c)
      BY <2>1, <2>2 DEF Allow, Allowed
    <3>2. b \in BreakerType /\ b.halfOpenInFlight \in Nat
      BY DEF BreakerType, WellFormed
    <3>3. /\ Allow(b, c) \in BreakerType
          /\ Allow(b, c).halfOpenInFlight = b.halfOpenInFlight + 1
          /\ Allow(b, c).state = b.state
          /\ Allow(b, c).openIn = b.openIn
          /\ Allow(b, c).failures = b.failures
          /\ Allow(b, c).halfOpenSuccesses = b.halfOpenSuccesses
      BY <3>1, <3>2 DEF BreakerType
    <3>4. /\ b.state = "half_open"
          /\ b.halfOpenInFlight + 1 <= c.halfOpenMaxRequests
          /\ b.halfOpenInFlight + 1 > 0
      BY <2>2, <3>2, ConfigFields DEF HasFreeSlot
    <3>5. WellFormed(Allow(b, c), c)
      BY <3>3, <3>4 DEF WellFormed
    <3> QED
      BY <1>3, <3>1, <3>2, <3>3, <3>4, <3>5
  <2>3. CASE ~HasFreeSlot(b, c)
    <3>1. Allow(b, c) = b
      BY <2>1, <2>3 DEF Allow
    <3>2. b.halfOpenInFlight \in Nat
      BY DEF WellFormed, BreakerType
    <3> QED
      BY <1>3, <3>1, <3>2
  <2> QED
    BY <2>2, <2>3
<1> QED
  BY <1>2, <1>3

\* ReleaseSlot takes one slot back if there is one.
LEMMA ReleaseSlotProperties ==
  ASSUME NEW b \in BreakerType
  PROVE  /\ ReleaseSlot(b) \in BreakerType
         /\ ReleaseSlot(b).halfOpenInFlight =
               IF b.halfOpenInFlight > 0 THEN b.halfOpenInFlight - 1 ELSE 0
         /\ \A f \in {"state", "openIn", "failures", "halfOpenSuccesses"} :
               ReleaseSlot(b)[f] = b[f]
BY DEF ReleaseSlot, BreakerType

\* CountSuccess touches the success counter only.
LEMMA CountSuccessProperties ==
  ASSUME NEW b \in BreakerType
  PROVE  /\ CountSuccess(b) \in BreakerType
         /\ \A f \in {"state", "openIn", "failures", "halfOpenInFlight"} :
               CountSuccess(b)[f] = b[f]
BY HorizonAssumption DEF CountSuccess, BreakerType

\* CloseIfRecovered restores the closing condition of a half-open breaker.
LEMMA CloseIfRecoveredProperties ==
  ASSUME NEW b \in BreakerType, NEW c, LegalConfig(c),
         b.state = "half_open", b.failures = <<>>,
         b.halfOpenInFlight <= c.halfOpenMaxRequests, b.openIn = 0
  PROVE  /\ WellFormed(CloseIfRecovered(b, c), c)
         /\ \/ CloseIfRecovered(b, c) = b
            \/ CloseIfRecovered(b, c).state = "closed"
<1>1. CASE b.halfOpenSuccesses >= c.successThreshold /\ b.halfOpenInFlight = 0
  <2>1. CloseIfRecovered(b, c) = NewBreaker
    BY <1>1 DEF CloseIfRecovered, CloseLocked
  <2> QED
    BY <2>1, NewBreakerWellFormed DEF NewBreaker
<1>2. CASE ~(b.halfOpenSuccesses >= c.successThreshold /\ b.halfOpenInFlight = 0)
  <2>1. CloseIfRecovered(b, c) = b
    BY <1>2 DEF CloseIfRecovered
  <2>2. Len(b.failures) = 0
    BY EmptySeq
  <2> QED
    BY <1>2, <2>1, <2>2, ConfigFields, HorizonAssumption DEF WellFormed, BreakerType, Ordered
<1> QED
  BY <1>1, <1>2

\* An outcome leaves half-open a breaker that was half-open, and takes its slot
\* back.
SlotReturned(b, r) ==
  r.state = "half_open" =>
    /\ b.state = "half_open"
    /\ r.halfOpenInFlight =
         IF b.halfOpenInFlight > 0 THEN b.halfOpenInFlight - 1 ELSE 0

\* RecordSuccess (breaker.go:85-101) keeps the breaker well formed and returns
\* the slot; it leaves an open breaker alone.
LEMMA RecordSuccessProperties ==
  ASSUME NEW b, NEW c, LegalConfig(c), WellFormed(b, c)
  PROVE  /\ WellFormed(RecordSuccess(b, c), c)
         /\ SlotReturned(b, RecordSuccess(b, c))
         /\ b.state = "closed" => RecordSuccess(b, c).state = "closed"
         /\ b.state = "open" => RecordSuccess(b, c) = b
         /\ b.state = "half_open" =>
               RecordSuccess(b, c).state \in {"half_open", "closed"}
<1> DEFINE fs == PruneFailures(b.failures, c)
           s == CountSuccess(ReleaseSlot(b))
<1>0. b.state \in {"closed", "half_open", "open"} /\ b \in BreakerType
  BY DEF WellFormed, BreakerType, CircuitState
<1>1. CASE b.state = "closed"
  <2>1. RecordSuccess(b, c) = [b EXCEPT !.failures = fs]
    BY <1>1 DEF RecordSuccess
  <2>2. fs \in Seq(0..(Horizon + 1)) /\ Len(fs) <= Len(b.failures) /\ Len(fs) \in Nat
    BY <1>0, PruneProperties, LenProperties DEF BreakerType
  <2>3. Ordered(fs)
    BY <1>0, PruneOrdered DEF WellFormed, BreakerType
  <2>4. Len(b.failures) \in Nat
    BY <1>0, LenProperties DEF BreakerType
  <2> HIDE DEF fs
  <2> QED
    BY <1>0, <1>1, <2>1, <2>2, <2>3, <2>4, ConfigFields DEF WellFormed, BreakerType, SlotReturned
<1>2. CASE b.state = "half_open"
  <2>1. RecordSuccess(b, c) = CloseIfRecovered(s, c)
    BY <1>2 DEF RecordSuccess
  <2>2. /\ s \in BreakerType
        /\ s.state = "half_open"
        /\ s.failures = b.failures /\ s.openIn = b.openIn
        /\ s.halfOpenInFlight =
             IF b.halfOpenInFlight > 0 THEN b.halfOpenInFlight - 1 ELSE 0
    BY <1>0, <1>2, ReleaseSlotProperties, CountSuccessProperties
  <2>3. /\ s.failures = <<>> /\ s.openIn = 0
        /\ s.halfOpenInFlight <= c.halfOpenMaxRequests
    BY <1>0, <1>2, <2>2, ConfigFields DEF WellFormed, BreakerType
  <2> HIDE DEF s
  <2>4. /\ WellFormed(CloseIfRecovered(s, c), c)
        /\ \/ CloseIfRecovered(s, c) = s
           \/ CloseIfRecovered(s, c).state = "closed"
    BY <2>2, <2>3, CloseIfRecoveredProperties
  <2> QED
    BY <1>2, <2>1, <2>2, <2>4 DEF SlotReturned
<1>3. CASE b.state = "open"
  BY <1>3 DEF RecordSuccess, SlotReturned
<1> QED
  BY <1>0, <1>1, <1>2, <1>3

\* RecordFailure (breaker.go:103-121) keeps the breaker well formed: it never
\* leaves a closed breaker at its threshold, and always opens a half-open one.
LEMMA RecordFailureProperties ==
  ASSUME NEW b, NEW c, LegalConfig(c), WellFormed(b, c)
  PROVE  /\ WellFormed(RecordFailure(b, c), c)
         /\ RecordFailure(b, c).state # "half_open"
         /\ b.state = "open" => RecordFailure(b, c) = b
         /\ b.state # "open" => \/ /\ RecordFailure(b, c).state = "open"
                                  /\ RecordFailure(b, c).openIn = c.timeout
                               \/ /\ b.state = "closed"
                                  /\ RecordFailure(b, c).state = "closed"
<1> DEFINE fs == PruneFailures(Append(b.failures, 0), c)
<1>0. b.state \in {"closed", "half_open", "open"} /\ b \in BreakerType
  BY DEF WellFormed, BreakerType, CircuitState
<1>1. \A x : /\ WellFormed(OpenLocked(x, c), c)
             /\ OpenLocked(x, c).state = "open"
             /\ OpenLocked(x, c).openIn = c.timeout
  BY OpenLockedWellFormed DEF OpenLocked
<1>2. CASE b.state = "closed"
  <2>1. b.failures \in Seq(0..(Horizon + 1)) /\ 0 \in 0..(Horizon + 1)
    BY <1>0, HorizonAssumption DEF BreakerType
  <2>2. /\ Append(b.failures, 0) \in Seq(0..(Horizon + 1))
        /\ Len(Append(b.failures, 0)) = Len(b.failures) + 1
        /\ \A i \in 1..Len(b.failures) : Append(b.failures, 0)[i] = b.failures[i]
        /\ Append(b.failures, 0)[Len(b.failures) + 1] = 0
    BY <2>1, AppendProperties
  <2>3. /\ Len(b.failures) \in Nat
        /\ \A i \in 1..Len(b.failures) : b.failures[i] \in 0..(Horizon + 1)
    BY <2>1, LenProperties, ElementOfSeq
  <2>4. Ordered(Append(b.failures, 0))
    <3> DEFINE fa == Append(b.failures, 0)
    <3> SUFFICES ASSUME NEW i \in 1..Len(fa), NEW j \in 1..Len(fa), i < j
                 PROVE  fa[i] >= fa[j]
      BY DEF Ordered
    <3>1. i \in 1..Len(b.failures) /\ fa[i] = b.failures[i]
      BY <2>2, <2>3
    <3>2. CASE j \in 1..Len(b.failures)
      BY <2>2, <3>1, <3>2 DEF WellFormed, Ordered
    <3>3. CASE j = Len(b.failures) + 1
      BY <2>2, <2>3, <3>1, <3>3, HorizonAssumption
    <3> QED
      BY <2>2, <2>3, <3>2, <3>3
  <2>5. fs \in Seq(0..(Horizon + 1)) /\ Len(fs) \in Nat
    BY <2>2, PruneProperties, LenProperties
  <2>6. Ordered(fs)
    BY <2>2, <2>4, PruneOrdered
  <2>7. RecordFailure(b, c) = IF Len(fs) >= c.failureThreshold
                              THEN OpenLocked(b, c)
                              ELSE [b EXCEPT !.failures = fs]
    BY <1>2 DEF RecordFailure
  <2> HIDE DEF fs
  <2>8. CASE Len(fs) >= c.failureThreshold
    BY <1>1, <1>2, <2>7, <2>8
  <2>9. CASE ~(Len(fs) >= c.failureThreshold)
    <3>1. RecordFailure(b, c) = [b EXCEPT !.failures = fs]
      BY <2>7, <2>9
    <3>2. Len(fs) < c.failureThreshold
      BY <2>5, <2>9, ConfigFields
    <3> QED
      BY <1>0, <1>2, <2>5, <2>6, <3>1, <3>2 DEF WellFormed, BreakerType
  <2> QED
    BY <2>8, <2>9
<1>3. CASE b.state = "half_open"
  BY <1>1, <1>3 DEF RecordFailure
<1>4. CASE b.state = "open"
  BY <1>4 DEF RecordFailure
<1> QED
  BY <1>0, <1>2, <1>3, <1>4

\* RecordIgnored (breaker.go:123-133) keeps the breaker well formed and returns
\* the slot; it touches half-open breakers only.
LEMMA RecordIgnoredProperties ==
  ASSUME NEW b, NEW c, LegalConfig(c), WellFormed(b, c)
  PROVE  /\ WellFormed(RecordIgnored(b, c), c)
         /\ SlotReturned(b, RecordIgnored(b, c))
         /\ b.state # "half_open" => RecordIgnored(b, c) = b
         /\ b.state = "half_open" =>
               RecordIgnored(b, c).state \in {"half_open", "closed"}
<1> DEFINE s == ReleaseSlot(b)
<1>0. b \in BreakerType
  BY DEF WellFormed
<1>1. CASE b.state = "half_open" /\ b.halfOpenInFlight > 0
  <2>1. RecordIgnored(b, c) = CloseIfRecovered(s, c)
    BY <1>1 DEF RecordIgnored
  <2>2. /\ s \in BreakerType
        /\ s.state = "half_open"
        /\ s.failures = <<>> /\ s.openIn = b.openIn
        /\ s.halfOpenInFlight = b.halfOpenInFlight - 1
    BY <1>0, <1>1, ReleaseSlotProperties DEF WellFormed
  <2>3. s.halfOpenInFlight <= c.halfOpenMaxRequests /\ s.openIn = 0
    BY <1>0, <1>1, <2>2, ConfigFields DEF WellFormed, BreakerType
  <2> HIDE DEF s
  <2> QED
    BY <1>1, <2>1, <2>2, <2>3, CloseIfRecoveredProperties DEF SlotReturned
<1>2. CASE ~(b.state = "half_open" /\ b.halfOpenInFlight > 0)
  BY <1>0, <1>2 DEF RecordIgnored, SlotReturned, BreakerType
<1> QED
  BY <1>1, <1>2

\* Time leaves everything but the timer and the ages alone, and never turns
\* the timer back up.
LEMMA ElapseProperties ==
  ASSUME NEW b, NEW c, LegalConfig(c), WellFormed(b, c)
  PROVE  /\ WellFormed(Elapse(b), c)
         /\ Elapse(b).state = b.state
         /\ Elapse(b).halfOpenInFlight = b.halfOpenInFlight
         /\ Elapse(b).openIn \in {b.openIn, b.openIn - 1}
         /\ b.state = "open" /\ b.openIn > 0 => Elapse(b).openIn = b.openIn - 1
<1> DEFINE n == Len(b.failures)
           fs == [i \in 1..n |-> IF b.failures[i] <= Horizon
                                 THEN b.failures[i] + 1 ELSE b.failures[i]]
           aged == [b EXCEPT !.failures = fs]
<1>0. b \in BreakerType
  BY DEF WellFormed
<1>1. n \in Nat /\ \A i \in 1..n : b.failures[i] \in 0..(Horizon + 1)
  BY <1>0, LenProperties, ElementOfSeq DEF BreakerType
<1>2. \A i \in 1..n : fs[i] \in 0..(Horizon + 1)
  BY <1>1, HorizonAssumption
<1>3. fs \in [1..n -> 0..(Horizon + 1)]
  BY <1>2
<1>4. fs \in Seq(0..(Horizon + 1)) /\ Len(fs) = n
  <2> HIDE DEF fs, n
  <2>1. n \in Nat
    BY <1>1
  <2>2. fs \in Seq(0..(Horizon + 1))
    BY <1>3, <2>1, SeqDef
  <2> QED
    BY <1>3, <2>1, <2>2, LenProperties
<1>5. Ordered(fs)
  BY <1>1, <1>4, HorizonAssumption DEF WellFormed, Ordered
<1>6. b.state # "closed" => fs = <<>>
  BY <1>4, EmptySeq DEF WellFormed
<1>7. Elapse(b) = IF b.state = "open" /\ b.openIn > -Horizon
                  THEN [aged EXCEPT !.openIn = b.openIn - 1] ELSE aged
  BY <1>0 DEF Elapse, BreakerType
<1> HIDE DEF n, fs
<1>8. /\ aged \in BreakerType
      /\ aged.openIn = b.openIn
      /\ aged.failures = fs
      /\ aged.state = b.state
      /\ aged.halfOpenInFlight = b.halfOpenInFlight
      /\ aged.halfOpenSuccesses = b.halfOpenSuccesses
  BY <1>0, <1>4 DEF BreakerType
<1> HIDE DEF aged
<1>9. /\ Elapse(b) \in BreakerType
      /\ Elapse(b).openIn \in {b.openIn, b.openIn - 1}
      /\ b.state = "open" /\ b.openIn > 0 => Elapse(b).openIn = b.openIn - 1
      /\ Elapse(b).failures = fs
      /\ Elapse(b).state = b.state
      /\ Elapse(b).halfOpenInFlight = b.halfOpenInFlight
      /\ Elapse(b).halfOpenSuccesses = b.halfOpenSuccesses
  <2>1. CASE b.state = "open" /\ b.openIn > -Horizon
    <3>1. b.openIn - 1 \in (-Horizon)..Horizon
      BY <1>0, <2>1, HorizonAssumption DEF BreakerType
    <3>2. Elapse(b) = [aged EXCEPT !.openIn = b.openIn - 1]
      BY <1>7, <2>1
    <3> QED
      BY <1>8, <3>1, <3>2 DEF BreakerType
  <2>2. CASE ~(b.state = "open" /\ b.openIn > -Horizon)
    <3>1. ~(b.state = "open" /\ b.openIn > 0)
      BY <1>0, <2>2, HorizonAssumption DEF BreakerType
    <3> QED
      BY <1>7, <1>8, <2>2, <3>1
  <2> QED
    BY <2>1, <2>2
<1>10. Len(fs) = Len(b.failures)
  BY <1>4 DEF n
<1>11. b.state # "open" => Elapse(b).openIn = b.openIn
  BY <1>7, <1>8
<1>12. Elapse(b).openIn <= c.timeout
  BY <1>0, <1>9, ConfigFields, HorizonAssumption DEF WellFormed, BreakerType
<1> QED
  BY <1>5, <1>6, <1>9, <1>10, <1>11, <1>12 DEF WellFormed
\* normalizeConfig (breaker.go:246-263) replaces what is not positive: its
\* result has every field, and the default wherever the section has none.
LEMMA NormalizedFields ==
  ASSUME NEW cfg
  PROVE  /\ \A f \in ConfigField : NormalizeConfig(cfg)[f] =
                IF cfg[f] <= 0 THEN DefaultConfig[f] ELSE cfg[f]
         /\ LegalConfig(cfg) => NormalizeConfig(cfg) = cfg
BY DEF NormalizeConfig, LegalConfig

\* reconcileLocked (breaker.go:221-244) makes a breaker of one configuration
\* well formed in another: it opens, closes and clamps where that is needed, and
\* an open circuit keeps the time it has been open.
LEMMA ReconcileProperties ==
  ASSUME NEW b, NEW old, NEW new, LegalConfig(old), LegalConfig(new), WellFormed(b, old)
  PROVE  LET r == ReconcileLocked(b, old, new) IN
         /\ WellFormed(r, new)
         /\ b.state = "open" =>
               /\ r.state = "open"
               /\ r.openIn = -Horizon \/ new.timeout - r.openIn = old.timeout - b.openIn
         /\ b.state = "half_open" => r.state \in {"half_open", "closed"}
         /\ b.state = "closed" /\ r.state # "closed" =>
               r.state = "open" /\ Len(b.failures) >= new.failureThreshold
<1> DEFINE r == ReconcileLocked(b, old, new)
           fs == PruneFailures(b.failures, new)
           p == [b EXCEPT !.failures = fs]
<1>0. b.state \in {"closed", "half_open", "open"} /\ b \in BreakerType
  BY DEF WellFormed, BreakerType, CircuitState
<1>1. /\ fs \in Seq(0..(Horizon + 1)) /\ Len(fs) \in Nat
      /\ Len(fs) <= Len(b.failures) /\ Len(b.failures) \in Nat
      /\ Ordered(fs)
  BY <1>0, PruneProperties, PruneOrdered, LenProperties DEF WellFormed, BreakerType
<1>2. b.failures = <<>> => fs = <<>>
  BY <1>1, EmptySeq
<1> HIDE DEF fs
<1>3. /\ p \in BreakerType /\ p.failures = fs
      /\ \A f \in {"state", "openIn", "halfOpenSuccesses", "halfOpenInFlight"} : p[f] = b[f]
  BY <1>0, <1>1 DEF BreakerType
<1>4. r = CASE p.state = "closed" ->
                 IF Len(p.failures) >= new.failureThreshold THEN OpenLocked(p, new) ELSE p
            [] p.state = "open" ->
                 [p EXCEPT !.openIn = Clamp(@ - old.timeout + new.timeout, -Horizon, Horizon)]
            [] p.state = "half_open" ->
                 CloseIfRecovered([p EXCEPT !.halfOpenInFlight =
                                      Clamp(@, 0, new.halfOpenMaxRequests)], new)
  BY DEF ReconcileLocked, fs
<1> HIDE DEF p, r
<1>5. CASE b.state = "closed"
  <2>1. CASE Len(fs) >= new.failureThreshold
    <3>1. r = OpenLocked(p, new)
      BY <1>3, <1>4, <1>5, <2>1
    <3>2. Len(b.failures) >= new.failureThreshold
      BY <1>1, <2>1, ConfigFields
    <3> QED
      BY <1>5, <3>1, <3>2, OpenLockedWellFormed DEF r, OpenLocked
  <2>2. CASE ~(Len(fs) >= new.failureThreshold)
    <3>1. r = p
      BY <1>3, <1>4, <1>5, <2>2
    <3>2. Len(fs) < new.failureThreshold
      BY <1>1, <2>2, ConfigFields
    <3>3. b.openIn <= new.timeout
      BY <1>0, <1>5, ConfigFields DEF WellFormed, BreakerType
    <3>4. WellFormed(p, new)
      BY <1>0, <1>1, <1>3, <1>5, <3>2, <3>3, ConfigFields DEF WellFormed
    <3> QED
      BY <1>3, <1>5, <3>1, <3>4 DEF r
  <2> QED
    BY <2>1, <2>2
<1>6. CASE b.state = "open"
  <2> DEFINE t == Clamp(b.openIn - old.timeout + new.timeout, -Horizon, Horizon)
  <2>1. /\ t \in (-Horizon)..Horizon /\ t <= new.timeout
        /\ t = -Horizon \/ new.timeout - t = old.timeout - b.openIn
    BY <1>0, <1>6, ConfigFields, HorizonAssumption DEF Clamp, WellFormed, BreakerType
  <2>2. r = [p EXCEPT !.openIn = t]
    BY <1>3, <1>4, <1>6
  <2> HIDE DEF t
  <2>3. /\ r \in BreakerType /\ r.openIn = t /\ r.failures = fs
        /\ \A f \in {"state", "halfOpenSuccesses", "halfOpenInFlight"} : r[f] = b[f]
    BY <1>3, <2>1, <2>2 DEF BreakerType
  <2>4. WellFormed(r, new)
    BY <1>1, <1>2, <1>6, <2>1, <2>3, ConfigFields DEF WellFormed
  <2> QED
    BY <1>6, <2>1, <2>3, <2>4 DEF r
<1>7. CASE b.state = "half_open"
  <2> DEFINE n == Clamp(b.halfOpenInFlight, 0, new.halfOpenMaxRequests)
             q == [p EXCEPT !.halfOpenInFlight = n]
  <2>1. n \in Nat /\ n <= new.halfOpenMaxRequests
    BY <1>0, ConfigFields DEF Clamp, BreakerType
  <2>2. r = CloseIfRecovered(q, new)
    BY <1>3, <1>4, <1>7
  <2> HIDE DEF n
  <2>3. /\ q \in BreakerType /\ q.halfOpenInFlight = n /\ q.failures = fs
        /\ q.state = "half_open" /\ q.openIn = b.openIn
    BY <1>3, <1>7, <2>1 DEF BreakerType
  <2> HIDE DEF q
  <2>4. q.failures = <<>>
    BY <1>2, <1>7, <2>3 DEF WellFormed
  <2>5. q.openIn = 0
    BY <1>7, <2>3 DEF WellFormed
  <2> QED
    BY <1>7, <2>1, <2>2, <2>3, <2>4, <2>5, CloseIfRecoveredProperties DEF r
<1> QED
  BY <1>0, <1>5, <1>6, <1>7
=============================================================================
