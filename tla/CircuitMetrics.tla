--------------------------- MODULE CircuitMetrics ---------------------------
(***************************************************************************)
(* CircuitBreakerTransport.RoundTrip around the breaker of one target: the *)
(* readings of its state before and after a failure is recorded, which     *)
(* decide whether the counter of openings moves, and the gauge of open     *)
(* circuits, which is counted and then set.  The breaker's mutex is        *)
(* released between all of these calls.                                    *)
(***************************************************************************)
EXTENDS CircuitBreaker

VARIABLES
    call,    \* per attempt: where it is in RoundTrip, and what it has read
    opened,  \* gateway_circuit_opens_total, modulo 2
    gauge    \* gateway_open_circuits

mvars == <<vars, call, opened, gauge>>

Phase == {"idle", "upstream", "record", "after", "count", "set"}

\* before and count are local variables of the code.  The rest is history: this
\* call has opened the circuit, somebody has since the reading of before, and
\* somebody else has changed the state since then.
IdleCall ==
    [pc |-> "idle", before |-> "closed", count |-> 0,
     own |-> FALSE, saw |-> FALSE, disturbed |-> FALSE]

MInit ==
    /\ Init
    /\ call = [a \in Attempt |-> IdleCall]
    /\ opened = 0
    /\ gauge = 0

OpenCount(b) == IF ObservedState(b) = "open" THEN 1 ELSE 0

\* The breaker goes from br to br' by a step of the calls in by: what the other
\* calls that are between their two readings would find.
Witnessed(by) ==
    [a \in Attempt |->
        IF a \notin by /\ call[a].pc \in {"record", "after"}
        THEN [call[a] EXCEPT
                !.saw = @ \/ (br.state # "open" /\ br'.state = "open"),
                !.disturbed = @ \/ ObservedState(br) # ObservedState(br')]
        ELSE call[a]]

Goes(a, calls, phase) == call' = [calls EXCEPT ![a].pc = phase]

\* Allow, admitted or not, is followed by syncOpenCircuitGauge.
AllowStep(a) ==
    /\ call[a].pc = "idle"
    /\ Begin(a)
    /\ Goes(a, Witnessed({a}), "count")
    /\ UNCHANGED <<opened, gauge>>

\* openCircuitCount, and SetOpenCircuits with what it has returned.
SyncCounts(a) ==
    /\ call[a].pc = "count"
    /\ call' = [call EXCEPT ![a].pc = "set", ![a].count = OpenCount(br)]
    /\ UNCHANGED <<vars, opened, gauge>>

\* Faulty variant: the gauge only goes up.
SyncSetsHigher(a) ==
    /\ call[a].pc = "set"
    /\ gauge' = IF call[a].count > gauge THEN call[a].count ELSE gauge
    /\ call' = [call EXCEPT ![a] =
                  [IdleCall EXCEPT !.pc = IF a \in inFlight THEN "upstream" ELSE "idle"]]
    /\ UNCHANGED <<vars, opened>>

SyncSets(a) ==
    /\ call[a].pc = "set"
    /\ gauge' = call[a].count
    /\ call' = [call EXCEPT ![a] =
                  [IdleCall EXCEPT !.pc = IF a \in inFlight THEN "upstream" ELSE "idle"]]
    /\ UNCHANGED <<vars, opened>>

\* recordBreakerSuccess and recordBreakerIgnored.
RecordOther(a) ==
    /\ call[a].pc = "upstream"
    /\ Succeed(a) \/ Ignore(a)
    /\ Goes(a, Witnessed({a}), "count")
    /\ UNCHANGED <<opened, gauge>>

\* recordBreakerFailure: before, RecordFailure, after.
FailureReads(a) ==
    /\ call[a].pc = "upstream" /\ ~healthy
    /\ call' = [call EXCEPT ![a].pc = "record", ![a].before = ObservedState(br)]
    /\ UNCHANGED <<vars, opened, gauge>>

FailureRecords(a) ==
    /\ call[a].pc = "record"
    /\ Fail(a)
    /\ LET opens == br.state # "open" /\ br'.state = "open" IN
       call' = [Witnessed({a}) EXCEPT ![a].pc = "after", ![a].own = opens,
                                    ![a].saw = @ \/ opens]
    /\ UNCHANGED <<opened, gauge>>

\* Faulty variant: the reading before the failure is not looked at.
CountsAlways(a) == ObservedState(br) = "open"

\* Whether the call will increment the counter.
Counts(a) == call[a].before # "open" /\ ObservedState(br) = "open"

FailureCounts(a) ==
    /\ call[a].pc = "after"
    /\ opened' = IF Counts(a) THEN 1 - opened ELSE opened
    /\ call' = [call EXCEPT ![a].pc = "count"]
    /\ UNCHANGED <<vars, gauge>>

\* The administrator's reset and the clock touch neither metric.
Others ==
    /\ AdminReset \/ Tick
    /\ call' = Witnessed({})
    /\ UNCHANGED <<opened, gauge>>

Recovery ==
    /\ \A a \in Attempt : call[a].pc # "record"
    /\ TargetRecovers
    /\ UNCHANGED <<call, opened, gauge>>

Ends(a) == RecordOther(a) \/ FailureReads(a) \/ FailureRecords(a)
Bookkeeping(a) == SyncCounts(a) \/ SyncSets(a) \/ FailureCounts(a)

MNext ==
    \/ \E a \in Attempt : AllowStep(a) \/ Ends(a) \/ Bookkeeping(a)
    \/ Others
    \/ Recovery

\* The fairness of CircuitBreaker, and the goroutines of the attempts go on.
MSpec ==
    /\ MInit /\ [][MNext]_mvars
    /\ WF_mvars(Tick /\ Others)
    /\ \A a \in Attempt : WF_mvars(Ends(a)) /\ WF_mvars(Bookkeeping(a))
    /\ WF_mvars(\E a \in Attempt : AllowStep(a))

-----------------------------------------------------------------------------
\* An increment of the counter stands for an opening that happened between the
\* two readings, and a call that opened the circuit itself does increment it,
\* unless somebody else moved the breaker between its readings
\* (resilient.go:438-444).
OpeningsCounted ==
    \A a \in Attempt : call[a].pc = "after" =>
        /\ Counts(a) => call[a].saw
        /\ call[a].own /\ ~call[a].disturbed => Counts(a)

\* The gauge of open circuits is counted in one step and set in another, and
\* neither the timer nor a reset sets it; still, once the circuit has settled
\* and requests keep coming, so does the gauge (resilient.go:458-464).
GaugeSettles ==
    \A n \in {0, 1} : <>[](OpenCount(br) = n) => <>[](gauge = n)
=============================================================================
