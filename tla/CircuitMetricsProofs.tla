------------------------ MODULE CircuitMetricsProofs ------------------------
(***************************************************************************)
(* The safety properties of CircuitBreaker for every configuration and any *)
(* number of overlapping attempts, and the refinement of CircuitSpec; then *)
(* the transport around the breaker, which takes only steps of             *)
(* CircuitBreaker, and its counter of openings; last the two breakers of a *)
(* reload, for every pair of configurations.                               *)
(***************************************************************************)
EXTENDS CircuitMetrics, BreakerReload, BreakerProofs

\* The inductive invariant: the breaker is well formed between any two method
\* calls, and each of its slots is held by a probe that has not ended.
IInv ==
  /\ WellFormed(br, Cfg)
  /\ br.halfOpenInFlight <= Cardinality(probes)
  /\ probes \subseteq inFlight
  /\ inFlight \subseteq Attempt
  /\ resets \in {0, 1}
  /\ healthy \in BOOLEAN

\* There are finitely many probes, so that they can be counted.
LEMMA ProbesFinite ==
  ASSUME IInv
  PROVE  IsFiniteSet(probes) /\ Cardinality(probes) \in Nat
BY AttemptAssumption, FS_Subset, FS_CardinalityType DEF IInv

\* Admission takes one slot for one new probe.
LEMMA BeginPreserves ==
  ASSUME IInv, NEW a \in Attempt, Begin(a)
  PROVE  IInv'
<1>1. WellFormed(br', Cfg)
  BY CfgAssumption, AllowProperties DEF IInv, Begin
<1>2. br \in BreakerType /\ br' \in BreakerType
  BY <1>1 DEF IInv, WellFormed
<1>3. CASE ~Allowed(br, Cfg)
  <2>1. br' = br /\ UNCHANGED <<inFlight, probes, resets, healthy>>
    BY <1>3, CfgAssumption, AllowProperties DEF IInv, Begin
  <2> QED
    BY <2>1 DEF IInv
<1>4. CASE Allowed(br, Cfg)
  <2>1. /\ inFlight' = inFlight \cup {a}
        /\ probes' = ProbesOf(br', probes \cup {a})
        /\ UNCHANGED <<resets, healthy>>
    BY <1>4 DEF Begin
  <2>2. a \notin probes
    BY DEF Begin, IInv
  <2>3. Cardinality(probes \cup {a}) = Cardinality(probes) + 1
    BY <2>2, ProbesFinite, FS_AddElement
  <2>4. br'.halfOpenInFlight <= Cardinality(probes')
    <3>1. CASE br'.state = "half_open"
      <4>1. probes' = probes \cup {a}
        BY <2>1, <3>1 DEF ProbesOf
      <4>2. \/ br'.halfOpenInFlight <= br.halfOpenInFlight + 1
            \/ br'.halfOpenInFlight = 1
        BY <3>1, CfgAssumption, AllowProperties DEF IInv, Begin
      <4> QED
        BY <1>2, <2>3, <4>1, <4>2, ProbesFinite DEF IInv, BreakerType
    <3>2. CASE br'.state # "half_open"
      <4>1. probes' = {} /\ br'.halfOpenInFlight = 0
        BY <1>1, <2>1, <3>2 DEF ProbesOf, WellFormed
      <4> QED
        BY <4>1, FS_EmptySet
    <3> QED
      BY <3>1, <3>2
  <2>5. probes' \subseteq inFlight' /\ inFlight' \subseteq Attempt
    BY <2>1 DEF IInv, ProbesOf
  <2> QED
    BY <1>1, <2>1, <2>4, <2>5 DEF IInv
<1> QED
  BY <1>3, <1>4

\* An outcome that returns its slot may be recorded by a probe or by an attempt
\* admitted before: the counter drops at least as far as the set of probes.
LEMMA FinishPreserves ==
  ASSUME IInv, NEW a \in Attempt, NEW b, Finish(a, b),
         WellFormed(b, Cfg), SlotReturned(br, b)
  PROVE  IInv'
<1>1. /\ br' = b
      /\ inFlight' = inFlight \ {a}
      /\ probes' = ProbesOf(b, probes \ {a})
      /\ UNCHANGED <<resets, healthy>>
  BY DEF Finish
<1>2. br \in BreakerType /\ b \in BreakerType
  BY DEF IInv, WellFormed
<1>3. /\ Cardinality(probes \ {a}) \in Nat
      /\ Cardinality(probes \ {a}) >= Cardinality(probes) - 1
  <2>1. IsFiniteSet(probes \ {a})
    BY ProbesFinite, FS_RemoveElement
  <2>2. Cardinality(probes \ {a}) \in Nat
    BY <2>1, FS_CardinalityType
  <2>3. Cardinality(probes \ {a}) =
          IF a \in probes THEN Cardinality(probes) - 1 ELSE Cardinality(probes)
    BY ProbesFinite, FS_RemoveElement, Zenon
  <2> QED
    BY <2>2, <2>3, ProbesFinite
<1>4. b.halfOpenInFlight <= Cardinality(probes')
  <2>1. CASE b.state = "half_open"
    <3>1. probes' = probes \ {a}
      BY <1>1, <2>1 DEF ProbesOf
    <3>2. b.halfOpenInFlight =
            IF br.halfOpenInFlight > 0 THEN br.halfOpenInFlight - 1 ELSE 0
      BY <2>1 DEF SlotReturned
    <3> QED
      BY <1>2, <1>3, <3>1, <3>2, ProbesFinite DEF IInv, BreakerType
  <2>2. CASE b.state # "half_open"
    <3>1. probes' = {} /\ b.halfOpenInFlight = 0
      BY <1>1, <2>2 DEF ProbesOf, WellFormed
    <3> QED
      BY <3>1, FS_EmptySet
  <2> QED
    BY <2>1, <2>2
<1>5. probes' \subseteq inFlight' /\ inFlight' \subseteq Attempt
  BY <1>1 DEF IInv, ProbesOf
<1> QED
  BY <1>1, <1>4, <1>5 DEF IInv

\* A new breaker satisfies the invariant.
LEMMA InitIInv == Init => IInv
<1> SUFFICES ASSUME Init PROVE IInv
  OBVIOUS
<1>1. WellFormed(br, Cfg)
  BY NewBreakerWellFormed, CfgAssumption DEF Init
<1>2. br.halfOpenInFlight = 0
  BY DEF Init, NewBreaker
<1>3. Cardinality(probes) = 0
  BY FS_EmptySet DEF Init
<1>4. br.halfOpenInFlight <= Cardinality(probes)
  BY <1>2, <1>3
<1> QED
  BY <1>1, <1>4, Zenon DEF Init, IInv

\* Every step keeps the inductive invariant.
LEMMA NextIInv == IInv /\ [Next]_vars => IInv'
<1> SUFFICES ASSUME IInv, [Next]_vars
             PROVE  IInv'
  OBVIOUS
<1> USE CfgAssumption
<1>0. WellFormed(br, Cfg)
  BY DEF IInv
<1>1. ASSUME NEW a \in Attempt, Begin(a) PROVE IInv'
  BY <1>1, BeginPreserves
<1>2. ASSUME NEW a \in Attempt, Succeed(a) PROVE IInv'
  BY <1>0, <1>2, RecordSuccessProperties, FinishPreserves DEF Succeed
<1>3. ASSUME NEW a \in Attempt, Fail(a) PROVE IInv'
  BY <1>0, <1>3, RecordFailureProperties, FinishPreserves DEF Fail, SlotReturned
<1>4. ASSUME NEW a \in Attempt, Ignore(a) PROVE IInv'
  BY <1>0, <1>4, RecordIgnoredProperties, FinishPreserves DEF Ignore
<1>5. CASE AdminReset
  <2>1. br' = NewBreaker /\ probes' = {}
    BY <1>5 DEF AdminReset, ForceClose
  <2>2. br'.halfOpenInFlight = 0 /\ WellFormed(br', Cfg)
    BY <2>1, NewBreakerWellFormed DEF NewBreaker
  <2> QED
    BY <1>5, <2>1, <2>2, FS_EmptySet DEF AdminReset, IInv
<1>6. CASE Tick
  <2>1. WellFormed(br', Cfg) /\ br'.halfOpenInFlight = br.halfOpenInFlight
    BY <1>0, <1>6, ElapseProperties DEF Tick
  <2> QED
    BY <1>6, <2>1 DEF Tick, IInv
<1>7. CASE TargetRecovers
  BY <1>7 DEF TargetRecovers, IInv
<1>8. CASE UNCHANGED vars
  BY <1>8 DEF vars, IInv
<1> QED
  BY <1>1, <1>2, <1>3, <1>4, <1>5, <1>6, <1>7, <1>8 DEF Next

-----------------------------------------------------------------------------
\* The inductive invariant holds in every reachable state.
THEOREM Invariant == Spec => []IInv
BY InitIInv, NextIInv, PTL DEF Spec

\* For every configuration and every number of concurrent attempts the fields
\* of breaker.go stay in range and the slot counter within its limit.
THEOREM TypeCorrect == Spec => []TypeOK
<1>1. IInv => TypeOK
  BY DEF IInv, TypeOK, WellFormed
<1> QED
  BY <1>1, Invariant, PTL

\* No probe slot leaks, whichever attempts report late (breaker.go:85-133).
THEOREM SlotSafety == Spec => []SlotsBackedByProbes
<1>1. IInv => SlotsBackedByProbes
  BY DEF IInv, SlotsBackedByProbes, WellFormed
<1> QED
  BY <1>1, Invariant, PTL

\* A closed circuit never sits at its failure threshold (breaker.go:103-121).
THEOREM ThresholdSafety == Spec => []FailuresBelowThreshold
<1>1. IInv => FailuresBelowThreshold
  BY DEF IInv, FailuresBelowThreshold, WellFormed, BreakerType, CircuitState
<1> QED
  BY <1>1, Invariant, PTL

\* The failures stay in time order, so pruning a prefix is exact.
THEOREM OrderSafety == Spec => []FailuresOrdered
<1>1. IInv => FailuresOrdered
  BY DEF IInv, FailuresOrdered, WellFormed, Ordered
<1> QED
  BY <1>1, Invariant, PTL

\* Neither RecordSuccess nor RecordIgnored misses the moment to close.
THEOREM CloseSafety == Spec => []NoMissedClose
<1>1. IInv => NoMissedClose
  BY DEF IInv, NoMissedClose, WellFormed
<1> QED
  BY <1>1, Invariant, PTL

-----------------------------------------------------------------------------
\* The abstract step each method call takes: Allow probes, RecordFailure trips,
\* the other two outcomes recover, ForceClose resets and the clock waits.
LEMMA RefineStep == IInv /\ [Next]_vars => [Circuit!CNext]_(Circuit!cvars)
<1> SUFFICES ASSUME IInv, [Next]_vars
             PROVE  Circuit!CNext \/ UNCHANGED <<br.state, CoolDown, resets>>
  BY DEF Circuit!cvars
<1> USE CfgAssumption
<1>0. WellFormed(br, Cfg) /\ br.state \in {"closed", "half_open", "open"}
  BY Zenon DEF IInv, WellFormed, BreakerType, CircuitState
<1>1. ASSUME NEW a \in Attempt, Begin(a)
      PROVE  Circuit!Probe \/ UNCHANGED <<br.state, CoolDown, resets>>
  BY <1>0, <1>1, AllowProperties DEF Begin, Circuit!Probe, CoolDown, TimerElapsed,
     WellFormed, BreakerType
<1>2. ASSUME NEW a \in Attempt, Succeed(a)
      PROVE  Circuit!Recover \/ UNCHANGED <<br.state, CoolDown, resets>>
  BY <1>0, <1>2, RecordSuccessProperties DEF Succeed, Finish, Circuit!Recover, CoolDown
<1>3. ASSUME NEW a \in Attempt, Fail(a)
      PROVE  Circuit!Trip \/ UNCHANGED <<br.state, CoolDown, resets>>
  <2>1. br' = RecordFailure(br, Cfg) /\ UNCHANGED resets
    BY <1>3 DEF Fail, Finish
  <2>2. Cfg.timeout > 0
    BY ConfigFields
  <2> QED
    BY <1>0, <2>1, <2>2, RecordFailureProperties DEF Circuit!Trip, CoolDown
<1>4. ASSUME NEW a \in Attempt, Ignore(a)
      PROVE  Circuit!Recover \/ UNCHANGED <<br.state, CoolDown, resets>>
  BY <1>0, <1>4, RecordIgnoredProperties DEF Ignore, Finish, Circuit!Recover, CoolDown
<1>5. CASE AdminReset
  BY <1>5 DEF AdminReset, ForceClose, NewBreaker, Circuit!Reset, Circuit!CNext, CoolDown
<1>6. CASE Tick
  <2>1. br.openIn \in Int
    BY <1>0, HorizonAssumption DEF WellFormed, BreakerType
  <2>2. /\ br'.state = br.state
        /\ br'.openIn \in {br.openIn, br.openIn - 1}
        /\ br.state = "open" /\ br.openIn > 0 => br'.openIn = br.openIn - 1
        /\ UNCHANGED resets
    BY <1>0, <1>6, ElapseProperties DEF Tick
  <2>3. CASE CoolDown > 0
    BY <2>1, <2>2, <2>3 DEF Circuit!Wait, Circuit!CNext, CoolDown
  <2>4. CASE ~(CoolDown > 0)
    BY <2>1, <2>2, <2>4 DEF CoolDown
  <2> QED
    BY <2>3, <2>4
<1>7. CASE TargetRecovers
  BY <1>7 DEF TargetRecovers, CoolDown
<1>8. CASE UNCHANGED vars
  BY <1>8 DEF vars, CoolDown
<1> QED
  BY <1>1, <1>2, <1>3, <1>4, <1>5, <1>6, <1>7, <1>8 DEF Next, Circuit!CNext

\* breaker.go implements the three-state circuit of CircuitSpec: no outcome,
\* however late, shortens or extends the cool-down or skips a state.
THEOREM Refinement == Spec => CircuitRefinement
<1>1. Init => Circuit!CInit
  BY DEF Init, NewBreaker, Circuit!CInit, CoolDown
<1> QED
  BY <1>1, RefineStep, Invariant, PTL DEF Spec, CircuitRefinement, Circuit!CSpec

-----------------------------------------------------------------------------
\* Every step of the transport is one of the breaker's, or leaves it alone.
LEMMA StepOfBreaker == [MNext]_mvars => [Next]_vars
<1> SUFFICES ASSUME [MNext]_mvars PROVE [Next]_vars
  OBVIOUS
<1>1. CASE UNCHANGED mvars
  BY <1>1 DEF mvars
<1>2. ASSUME NEW a \in Attempt, AllowStep(a) \/ Ends(a) \/ Bookkeeping(a)
      PROVE  [Next]_vars
  BY <1>2 DEF AllowStep, Ends, Bookkeeping, RecordOther, FailureReads, FailureRecords,
     SyncCounts, SyncSets, FailureCounts, Next
<1>3. CASE Others \/ Recovery
  BY <1>3 DEF Others, Recovery, Next
<1> QED BY <1>1, <1>2, <1>3 DEF MNext

\* RoundTrip uses the breaker as CircuitBreaker says, so the theorems about it
\* hold under the transport (resilient.go:167-312).
THEOREM UsesBreaker == MSpec => Spec
BY StepOfBreaker, PTL DEF MSpec, MInit, Spec

-----------------------------------------------------------------------------
\* The breaker is seen to open only in a step that opens it: a cool-down that
\* has run out does not start again by itself.
LEMMA SeenToOpen ==
    ASSUME IInv, [Next]_vars, ObservedState(br) # "open", ObservedState(br') = "open"
    PROVE  br.state # "open" /\ br'.state = "open"
<1>1. br'.state = "open"
  BY DEF ObservedState, TimerElapsed
<1>2. ASSUME br.state = "open" PROVE FALSE
  <2>1. br.openIn <= 0 /\ ~(br'.openIn <= 0)
    BY <1>1, <1>2 DEF ObservedState, TimerElapsed
  <2>2. \A a \in Attempt : ~Begin(a)
    BY <1>1, <1>2, <2>1 DEF Begin, Allow, EnterHalfOpen, TimerElapsed, HasFreeSlot
  <2>3. \A a \in Attempt : Succeed(a) \/ Fail(a) \/ Ignore(a) => br' = br
    BY <1>2 DEF Succeed, Fail, Ignore, Finish, RecordSuccess, RecordFailure, RecordIgnored
  <2>4. AdminReset => br'.state = "closed"
    BY DEF AdminReset, ForceClose, NewBreaker
  <2>5. Tick => br'.openIn \in {br.openIn, br.openIn - 1}
    BY ElapseProperties, CfgAssumption DEF Tick, IInv
  <2>6. br.openIn \in Int
    BY HorizonAssumption DEF IInv, WellFormed, BreakerType
  <2> QED BY <1>1, <2>1, <2>2, <2>3, <2>4, <2>5, <2>6 DEF Next, TargetRecovers, vars
<1> QED BY <1>1, <1>2

CallRecord ==
    [pc : Phase, before : CircuitState, count : {0, 1},
     own : BOOLEAN, saw : BOOLEAN, disturbed : BOOLEAN]

\* What a call that is between its two readings may rely on: no opening seen
\* means the circuit is not seen open, and undisturbed it is as it was read.
Tracked(a) ==
    LET c == call[a] IN
    /\ c.pc \in {"record", "after"} /\ ~c.saw /\ c.before # "open" =>
          ObservedState(br) # "open"
    /\ c.pc = "record" /\ ~c.disturbed => c.before = ObservedState(br)
    /\ c.pc = "after" /\ c.own /\ ~c.disturbed =>
          c.before # "open" /\ ObservedState(br) = "open"

\* The inductive invariant.
MInv == IInv /\ call \in [Attempt -> CallRecord] /\ \A a \in Attempt : Tracked(a)

\* Nothing has been read or counted at the start.
LEMMA MInitMInv == MInit => MInv
<1> SUFFICES ASSUME MInit PROVE MInv
  OBVIOUS
<1>1. IInv
  BY InitIInv DEF MInit
<1>2. IdleCall \in CallRecord
  BY DEF IdleCall, CallRecord, Phase, CircuitState
<1>3. call \in [Attempt -> CallRecord]
  BY <1>2 DEF MInit
<1>4. \A a \in Attempt : Tracked(a)
  BY DEF MInit, IdleCall, Tracked
<1> QED BY <1>1, <1>3, <1>4 DEF MInv

\* A step of others keeps what a call relies on: Witnessed records it.
LEMMA OthersTracked ==
    ASSUME MInv, [Next]_vars, NEW S, NEW a \in Attempt, a \notin S,
           call'[a] = Witnessed(S)[a]
    PROVE  call'[a] \in CallRecord /\ Tracked(a)'
<1> DEFINE opens == br.state # "open" /\ br'.state = "open"
           moves == ObservedState(br) # ObservedState(br')
<1>1. call[a] \in CallRecord /\ Tracked(a)
  BY Zenon DEF MInv
<1>2. CASE call[a].pc \notin {"record", "after"}
  <2>1. call'[a] = call[a]
    BY <1>2 DEF Witnessed
  <2> QED BY <1>1, <1>2, <2>1 DEF Tracked
<1>3. CASE call[a].pc \in {"record", "after"}
  <2>1. call'[a] = [call[a] EXCEPT !.saw = call[a].saw \/ opens,
                                   !.disturbed = call[a].disturbed \/ moves]
    BY <1>1, <1>3 DEF Witnessed, CallRecord
  <2>2. /\ call'[a].saw = (call[a].saw \/ opens)
        /\ call'[a].disturbed = (call[a].disturbed \/ moves)
        /\ call'[a].pc = call[a].pc /\ call'[a].before = call[a].before
        /\ call'[a].own = call[a].own
    BY <1>1, <2>1 DEF CallRecord
  <2>3. call'[a] \in CallRecord
    BY <1>1, <2>1, Zenon DEF CallRecord
  <2>4. ~opens => ObservedState(br) = "open" \/ ObservedState(br') # "open"
    BY SeenToOpen DEF MInv
  <2> HIDE DEF opens
  <2>5. Tracked(a)'
    BY <1>1, <2>2, <2>4, Zenon DEF Tracked
  <2> QED BY <2>3, <2>5
<1> QED BY <1>2, <1>3

\* A step of one call that changes the breaker.
LEMMA BreakerStep ==
    ASSUME MInv, [Next]_vars, NEW a \in Attempt, NEW q \in CallRecord,
           call' = [Witnessed({a}) EXCEPT ![a] = q], Tracked(a)'
    PROVE  MInv'
<1>1. DOMAIN Witnessed({a}) = Attempt
  BY DEF Witnessed
<1>2. \A x \in Attempt \ {a} : call'[x] = Witnessed({a})[x]
  BY <1>1
<1>3. \A x \in Attempt \ {a} : call'[x] \in CallRecord /\ Tracked(x)'
  BY <1>2, OthersTracked
<1>4. call'[a] = q /\ DOMAIN call' = Attempt /\ call' = [x \in Attempt |-> call'[x]]
  BY <1>1
<1>5. call' \in [Attempt -> CallRecord]
  BY <1>3, <1>4, Zenon
<1>6. IInv'
  BY NextIInv DEF MInv
<1> QED BY <1>3, <1>5, <1>6 DEF MInv

\* A step of one call that leaves the breaker alone and ends outside the two
\* readings, or begins them.
LEMMA CallStep ==
    ASSUME MInv, UNCHANGED vars, NEW a \in Attempt, NEW q \in CallRecord,
           call' = [call EXCEPT ![a] = q], Tracked(a)'
    PROVE  MInv'
<1>1. call' \in [Attempt -> CallRecord]
  BY DEF MInv
<1>2. \A x \in Attempt \ {a} : call'[x] = call[x] /\ Tracked(x)
  BY DEF MInv
<1>3. \A x \in Attempt \ {a} : Tracked(x)'
  BY <1>2 DEF Tracked, vars
<1>4. IInv'
  BY NextIInv DEF MInv
<1> QED BY <1>1, <1>3, <1>4 DEF MInv

\* The steps of a call outside its two readings.
LEMMA OutsideMInv ==
    ASSUME MInv, NEW a \in Attempt,
           AllowStep(a) \/ RecordOther(a) \/ Bookkeeping(a)
    PROVE  MInv'
<1>1. call[a] \in CallRecord /\ DOMAIN call = Attempt
  BY DEF MInv
<1>2. CASE AllowStep(a) \/ RecordOther(a)
  <2> DEFINE q == [call[a] EXCEPT !.pc = "count"]
  <2>1. call[a].pc \in {"idle", "upstream"}
    BY <1>2 DEF AllowStep, RecordOther
  <2>2. call' = [Witnessed({a}) EXCEPT ![a] = q]
    BY <1>2 DEF AllowStep, RecordOther, Goes, Witnessed
  <2>3. q \in CallRecord /\ q.pc = "count"
    BY <1>1 DEF CallRecord, Phase
  <2>4. Tracked(a)'
    BY <2>2, <2>3 DEF Witnessed, Tracked
  <2>5. [Next]_vars
    BY <1>2 DEF AllowStep, RecordOther, Next
  <2> QED BY <2>2, <2>3, <2>4, <2>5, BreakerStep
<1>3. CASE SyncCounts(a)
  <2> DEFINE q == [call[a] EXCEPT !.pc = "set", !.count = OpenCount(br)]
  <2>1. call' = [call EXCEPT ![a] = q]
    BY <1>1, <1>3, Zenon DEF SyncCounts
  <2>2. q \in CallRecord /\ q.pc = "set"
    BY <1>1, Zenon DEF CallRecord, Phase, OpenCount
  <2>3. Tracked(a)'
    BY <1>1, <2>1, <2>2 DEF Tracked
  <2> QED BY <1>3, <2>1, <2>2, <2>3, CallStep, ZenonT(20) DEF SyncCounts
<1>4. CASE SyncSets(a)
  <2> DEFINE q == [IdleCall EXCEPT !.pc = IF a \in inFlight THEN "upstream" ELSE "idle"]
  <2>1. call' = [call EXCEPT ![a] = q]
    BY <1>4 DEF SyncSets
  <2>2. q \in CallRecord /\ q.pc \in {"upstream", "idle"}
    BY Zenon DEF IdleCall, CallRecord, Phase, CircuitState
  <2>3. Tracked(a)'
    BY <1>1, <2>1, <2>2 DEF Tracked
  <2> QED BY <1>4, <2>1, <2>2, <2>3, CallStep, ZenonT(20) DEF SyncSets
<1>5. CASE FailureCounts(a)
  <2> DEFINE q == [call[a] EXCEPT !.pc = "count"]
  <2>1. call' = [call EXCEPT ![a] = q]
    BY <1>5 DEF FailureCounts
  <2>2. q \in CallRecord /\ q.pc = "count"
    BY <1>1 DEF CallRecord, Phase
  <2>3. Tracked(a)'
    BY <1>1, <2>1, <2>2 DEF Tracked
  <2> QED BY <1>5, <2>1, <2>2, <2>3, CallStep, ZenonT(20) DEF FailureCounts
<1> QED BY <1>2, <1>3, <1>4, <1>5 DEF Bookkeeping

\* The first reading.
LEMMA FailureReadsMInv == ASSUME MInv, NEW a \in Attempt, FailureReads(a) PROVE MInv'
<1> DEFINE q == [call[a] EXCEPT !.pc = "record", !.before = ObservedState(br)]
<1>1. call[a] \in CallRecord /\ DOMAIN call = Attempt
  BY DEF MInv
<1>2. ObservedState(br) \in CircuitState
  BY DEF MInv, IInv, WellFormed, BreakerType, ObservedState, CircuitState
<1>3. call' = [call EXCEPT ![a] = q]
  BY <1>1, Zenon DEF FailureReads
<1>4. q \in CallRecord /\ q.pc = "record" /\ q.before = ObservedState(br)
  BY <1>1, <1>2, Zenon DEF CallRecord, Phase
<1>5. Tracked(a)'
  BY <1>1, <1>3, <1>4 DEF Tracked, FailureReads, vars
<1> QED BY <1>3, <1>4, <1>5, CallStep, ZenonT(20) DEF FailureReads

\* A circuit that RecordFailure opens is seen open: its timer has just started.
LEMMA OpensSeen ==
    ASSUME IInv, NEW a \in Attempt, Fail(a), br.state # "open", br'.state = "open"
    PROVE  ObservedState(br) # "open" /\ ObservedState(br') = "open"
<1>1. br' = RecordFailure(br, Cfg)
  BY DEF Fail, Finish
<1>2. br'.openIn = Cfg.timeout
  BY <1>1, CfgAssumption, RecordFailureProperties DEF IInv
<1>3. Cfg.timeout \in Nat /\ Cfg.timeout > 0
  BY CfgAssumption, ConfigFields
<1> QED BY <1>2, <1>3 DEF ObservedState, TimerElapsed

\* RecordFailure, between the two readings.
LEMMA FailureRecordsMInv == ASSUME MInv, NEW a \in Attempt, FailureRecords(a) PROVE MInv'
<1> DEFINE opens == br.state # "open" /\ br'.state = "open"
           q == [call[a] EXCEPT !.pc = "after", !.own = opens, !.saw = call[a].saw \/ opens]
<1>1. call[a] \in CallRecord /\ DOMAIN call = Attempt /\ Tracked(a) /\ IInv
  BY DEF MInv
<1>2. call[a].pc = "record" /\ Fail(a) /\ [Next]_vars
  BY DEF FailureRecords, Next
<1>3. Witnessed({a})[a] = call[a] /\ DOMAIN Witnessed({a}) = Attempt
  BY DEF Witnessed
<1>4. call' = [Witnessed({a}) EXCEPT ![a] = q]
  BY <1>1, <1>3, Zenon DEF FailureRecords
<1>5. q \in CallRecord
  BY <1>1, Zenon DEF CallRecord, Phase
<1>6. /\ q.pc = "after" /\ q.own = opens /\ q.saw = (call[a].saw \/ opens)
      /\ q.before = call[a].before /\ q.disturbed = call[a].disturbed
  BY <1>1 DEF CallRecord
<1>7. call'[a] = q
  BY <1>3, <1>4
<1>8. ~opens => ObservedState(br) = "open" \/ ObservedState(br') # "open"
  BY <1>1, <1>2, SeenToOpen
<1>9. opens => ObservedState(br) # "open" /\ ObservedState(br') = "open"
  BY <1>1, <1>2, OpensSeen, Zenon
<1> HIDE DEF q, opens
<1>10. Tracked(a)'
  BY <1>1, <1>2, <1>6, <1>7, <1>8, <1>9, ZenonT(20) DEF Tracked
<1> QED BY <1>2, <1>4, <1>5, <1>10, BreakerStep

\* The administrator, the clock and the target.
LEMMA OthersMInv == ASSUME MInv, Others \/ Recovery PROVE MInv'
<1>1. [Next]_vars
  BY DEF Others, Recovery, Next
<1>2. IInv'
  BY <1>1, NextIInv DEF MInv
<1>3. CASE Others
  <2>1. call' = Witnessed({})
    BY <1>3 DEF Others
  <2>2. \A a \in Attempt : call'[a] \in CallRecord /\ Tracked(a)'
    BY <1>1, <2>1, OthersTracked
  <2>3. call' \in [Attempt -> CallRecord]
    BY <2>1, <2>2 DEF Witnessed
  <2> QED BY <1>2, <2>2, <2>3 DEF MInv
<1>4. CASE Recovery
  BY <1>2, <1>4 DEF Recovery, TargetRecovers, MInv, Tracked
<1> QED BY <1>3, <1>4

\* Every step keeps the invariant.
LEMMA MNextMInv == MInv /\ [MNext]_mvars => MInv'
<1> SUFFICES ASSUME MInv, [MNext]_mvars PROVE MInv'
  OBVIOUS
<1>1. CASE UNCHANGED mvars
  <2>1. IInv'
    BY <1>1, NextIInv DEF mvars, MInv
  <2> QED BY <1>1, <2>1 DEF mvars, vars, MInv, Tracked
<1>2. CASE MNext
  BY <1>2, OutsideMInv, FailureReadsMInv, FailureRecordsMInv, OthersMInv DEF MNext, Ends
<1> QED BY <1>1, <1>2

\* The inductive invariant: what each call has seen of the breaker between its
\* readings (resilient.go:437-446) is in step with the breaker.
THEOREM MInvariant == MSpec => []MInv
BY MInitMInv, MNextMInv, PTL DEF MSpec

\* An increment of gateway_circuit_opens_total stands for an opening, and a call
\* that opened the circuit undisturbed increments it (resilient.go:437-446).
THEOREM CountSafety == MSpec => []OpeningsCounted
<1>1. MInv => OpeningsCounted
  BY DEF MInv, Tracked, OpeningsCounted, Counts
<1> QED BY <1>1, MInvariant, PTL

-----------------------------------------------------------------------------
(* A breaker and its clone across a reload. *)

\* The inductive invariant: each breaker is well formed in its configuration,
\* the clone from the moment it is made.
RInv ==
    /\ WellFormed(old, OldCfg)
    /\ WellFormed(new, NormalizeConfig(NewCfg))
    /\ phase \in {"serving", "built", "swapped"}
    /\ at \in [Call -> {"idle", "entered", "sent"}]
    /\ on \in [Call -> {"old", "new"}]
    /\ copied \in BOOLEAN /\ recovered \in BOOLEAN

\* The breaker of either snapshot is well formed in a legal configuration.
LEMMA EitherBreaker ==
  ASSUME RInv, NEW g \in {"old", "new"}
  PROVE  LegalConfig(ConfigOf(g)) /\ WellFormed(BreakerOf(g), ConfigOf(g))
BY OldCfgAssumption, NewCfgAssumption DEF RInv, ConfigOf, BreakerOf

\* Both registries start with fresh breakers.
LEMMA ReloadStart == ReloadInit => RInv
BY OldCfgAssumption, NewCfgAssumption, NewBreakerWellFormed, ZenonT(20) DEF ReloadInit, RInv

\* A method call on one breaker leaves the other alone.
LEMMA SetPreserves ==
  ASSUME RInv, NEW g \in {"old", "new"}, NEW b, WellFormed(b, ConfigOf(g)), SetBreaker(g, b)
  PROVE  WellFormed(old', OldCfg) /\ WellFormed(new', NormalizeConfig(NewCfg))
BY DEF SetBreaker, ConfigOf, RInv

\* An outcome is recorded on the breaker that admitted the attempt.
LEMMA OutcomePreserves ==
  ASSUME RInv, NEW a \in Call, NEW b, WellFormed(b, ConfigOf(on[a])), Record(a, b)
  PROVE  RInv'
<1>1. on[a] \in {"old", "new"} /\ SetBreaker(on[a], b)
  BY DEF RInv, Record
<1>2. WellFormed(old', OldCfg) /\ WellFormed(new', NormalizeConfig(NewCfg))
  BY <1>1, SetPreserves
<1> QED
  BY <1>2 DEF RInv, Record

\* Every step keeps the invariant: the methods of a breaker keep it well formed,
\* and reconcileLocked makes the clone well formed in the new configuration.
LEMMA ReloadStep == RInv /\ [ReloadNext]_reloadVars => RInv'
<1> SUFFICES ASSUME RInv, [ReloadNext]_reloadVars PROVE RInv'
  OBVIOUS
<1>1. ASSUME NEW a \in Call, Enter(a) PROVE RInv'
  BY <1>1 DEF Enter, RInv, Current
<1>2. ASSUME NEW a \in Call PROVE on[a] \in {"old", "new"}
  BY DEF RInv
<1>3. ASSUME NEW a \in Call, Admit(a) PROVE RInv'
  <2>1. WellFormed(Allow(BreakerOf(on[a]), ConfigOf(on[a])), ConfigOf(on[a]))
    BY <1>2, EitherBreaker, AllowProperties
  <2>2. WellFormed(old', OldCfg) /\ WellFormed(new', NormalizeConfig(NewCfg))
    BY <1>2, <1>3, <2>1, SetPreserves DEF Admit
  <2> QED
    BY <1>3, <2>2 DEF Admit, RInv
<1>4. ASSUME NEW a \in Call, CallSucceeds(a) PROVE RInv'
  BY <1>2, <1>4, EitherBreaker, RecordSuccessProperties, OutcomePreserves DEF CallSucceeds
<1>5. ASSUME NEW a \in Call, CallFails(a) PROVE RInv'
  BY <1>2, <1>5, EitherBreaker, RecordFailureProperties, OutcomePreserves DEF CallFails
<1>6. ASSUME NEW a \in Call, CallIgnored(a) PROVE RInv'
  BY <1>2, <1>6, EitherBreaker, RecordIgnoredProperties, OutcomePreserves DEF CallIgnored
<1>7. CASE BuildSnapshot
  <2>1. WellFormed(new', NormalizeConfig(NewCfg))
    BY <1>7, OldCfgAssumption, NewCfgAssumption, ReconcileProperties
       DEF BuildSnapshot, CloneWithConfig, RInv
  <2> QED
    BY <1>7, <2>1 DEF BuildSnapshot, RInv
<1>8. CASE SwapSnapshot
  BY <1>8 DEF SwapSnapshot, RInv
<1>9. CASE ResetCurrent
  <2>1. Current \in {"old", "new"}
    BY DEF Current
  <2>2. WellFormed(NewBreaker, ConfigOf(Current))
    BY <2>1, EitherBreaker, NewBreakerWellFormed
  <2>3. WellFormed(old', OldCfg) /\ WellFormed(new', NormalizeConfig(NewCfg))
    BY <1>9, <2>1, <2>2, SetPreserves DEF ResetCurrent, ForceClose
  <2>4. copied' \in BOOLEAN /\ UNCHANGED <<phase, at, on, recovered>>
    BY <1>9 DEF ResetCurrent
  <2> QED
    BY <2>3, <2>4 DEF RInv
<1>10. CASE TimePasses
  BY <1>10, OldCfgAssumption, NewCfgAssumption, ElapseProperties DEF TimePasses, RInv
<1>11. CASE Recovers
  BY <1>11 DEF Recovers, RInv
<1>12. CASE UNCHANGED reloadVars
  BY <1>12 DEF reloadVars, RInv
<1> QED
  BY <1>1, <1>3, <1>4, <1>5, <1>6, <1>7, <1>8, <1>9, <1>10, <1>11, <1>12 DEF ReloadNext

\* The invariant holds throughout.
THEOREM ReloadInvariant == ReloadSpec => []RInv
BY ReloadStart, ReloadStep, PTL DEF ReloadSpec

\* Every breaker is a breaker, on both sides of the swap.
THEOREM ReloadTypes == ReloadSpec => []ReloadTypeOK
<1>1. RInv => ReloadTypeOK
  BY DEF RInv, ReloadTypeOK, WellFormed
<1> QED
  BY <1>1, ReloadInvariant, PTL

\* No reload, whatever it changes and whenever it clones, leaves a breaker past
\* a threshold of the configuration it then has (breaker.go:221-244).
THEOREM ReloadWithinThresholds == ReloadSpec => []WithinThresholds
<1>1. RInv => WithinThresholds
  BY EitherBreaker DEF WithinThresholds, WellFormed
<1> QED
  BY <1>1, ReloadInvariant, PTL

\* A reload passes no verdict of its own on the target (breaker.go:221-244).
THEOREM ReloadPassesNoVerdict == ReloadSpec => ReloadKeepsVerdict
<1> DEFINE c == NormalizeConfig(NewCfg)
           Preserved == phase = "serving" /\ phase' = "built" =>
             CASE old.state = "open" ->
                    /\ new'.state = "open"
                    /\ \/ new'.openIn = -Horizon
                       \/ c.timeout - new'.openIn = OldCfg.timeout - old.openIn
               [] old.state = "half_open" -> new'.state \in {"half_open", "closed"}
               [] old.state = "closed" ->
                    new'.state = "open" => Len(old.failures) >= c.failureThreshold
<1>1. RInv /\ [ReloadNext]_reloadVars => [Preserved]_reloadVars
  <2> SUFFICES ASSUME RInv, ReloadNext, phase = "serving", phase' = "built" PROVE Preserved
    BY ZenonT(20)
  <2>1. new' = ReconcileLocked(old, OldCfg, c)
    BY DEF ReloadNext, Enter, Admit, CallSucceeds, CallFails, CallIgnored, Record,
       BuildSnapshot, CloneWithConfig, SwapSnapshot, ResetCurrent, TimePasses, Recovers
  <2>2. old.state \in {"open", "half_open", "closed"}
    BY DEF RInv, WellFormed, BreakerType, CircuitState
  <2> HIDE DEF c
  <2>3. /\ old.state = "open" =>
             /\ new'.state = "open"
             /\ new'.openIn = -Horizon \/ c.timeout - new'.openIn = OldCfg.timeout - old.openIn
        /\ old.state = "half_open" => new'.state \in {"half_open", "closed"}
        /\ old.state = "closed" /\ new'.state # "closed" =>
             new'.state = "open" /\ Len(old.failures) >= c.failureThreshold
    BY <2>1, OldCfgAssumption, NewCfgAssumption, ReconcileProperties DEF RInv, c
  <2> QED
    BY <2>2, <2>3, Zenon
<1> QED
  BY <1>1, ReloadInvariant, PTL DEF ReloadSpec, ReloadKeepsVerdict
=============================================================================
