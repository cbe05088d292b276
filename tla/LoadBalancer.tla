---------------------------- MODULE LoadBalancer ----------------------------
(***************************************************************************)
(* loadbalancer.New (internal/transport/loadbalancer/balancer.go): a route *)
(* has one balancer for its lifetime, chosen by the strategy of its        *)
(* configuration.  The goroutines of the round-robin and of the            *)
(* least-connections balancer stand in the same variables.                 *)
(***************************************************************************)
EXTENDS Integers, Sequences, FiniteSets, Functions

CONSTANTS
    Goroutine,
    Targets,     \* the route's targets in order; an address may repeat
    RawWeight,   \* the weight written in the configuration, per position
    ExcludeSets, \* the sets of addresses a retry may exclude
    Wrap,        \* RoundRobin.next is an unsigned integer modulo Wrap (2^64)
    History,     \* how many past selections RoundRobin's history keeps
    None

ASSUME LoadBalancerAssumption ==
    /\ IsFiniteSet(Goroutine)
    /\ Targets \in Seq(Range(Targets)) /\ Targets # <<>>
    /\ None \notin DOMAIN Targets
    /\ RawWeight \in Seq(Int) /\ Len(RawWeight) = Len(Targets)
    /\ Wrap \in Nat \ {0}
    /\ History \in Nat \ {0}

VARIABLES
    strategy,
    phase, exclude,                    \* per goroutine
    next, start, recent,               \* RoundRobin
    currentWeight, served, pristine,   \* Weighted
    active, at, best, bestActive, alone \* LeastConn

ofRoundRobin == <<next, start, recent>>
ofWeighted == <<currentWeight, served, pristine>>
ofLeastConn == <<active, at, best, bestActive, alone>>
vars == <<strategy, phase, exclude, ofRoundRobin, ofWeighted, ofLeastConn>>

RR == INSTANCE RoundRobin
WT == INSTANCE Weighted
LC == INSTANCE LeastConn

\* New; a strategy Validate does not know never gets here.
Init ==
    /\ strategy \in {"round_robin", "weighted", "least_conn"}
    /\ RR!Init /\ WT!Init /\ LC!Init

RoundRobin(step) ==
    /\ strategy = "round_robin" /\ step
    /\ UNCHANGED <<strategy, ofWeighted, ofLeastConn>>

Weighted(step) ==
    /\ strategy = "weighted" /\ step
    /\ UNCHANGED <<strategy, phase, exclude, ofRoundRobin, ofLeastConn>>

LeastConn(step) ==
    /\ strategy = "least_conn" /\ step
    /\ UNCHANGED <<strategy, ofRoundRobin, ofWeighted>>

Next == RoundRobin(RR!Next) \/ Weighted(WT!Next) \/ LeastConn(LC!Next)

\* Every goroutine runs; new calls keep coming.
Fairness ==
    \A g \in Goroutine :
        /\ WF_vars(RoundRobin(RR!Call(g)))
        /\ WF_vars(RoundRobin(RR!Load(g)))
        /\ WF_vars(RoundRobin(RR!Swap(g)))

FairSpec == Init /\ [][Next]_vars /\ Fairness

-----------------------------------------------------------------------------
\* Types of the variables.
TypeOK ==
    /\ strategy = "round_robin" => RR!TypeOK
    /\ strategy = "least_conn" => LC!TypeOK

\* Round robin: whatever the goroutines do to each other and whichever targets
\* retries exclude, among History consecutive selections every target that none
\* of them excluded was selected (round_robin.go:24-49).
NobodySkipped ==
    Len(recent) = History =>
        \A t \in Range(Targets) :
            \/ \E i \in 1..History : recent[i].target = t
            \/ \E i \in 1..History : t \in recent[i].ex

\* Round robin is lock-free: however the compare-and-swaps interleave, as long
\* as calls find a candidate, selections keep completing (round_robin.go:41).
SelectionsComplete ==
    []<>(strategy = "round_robin" /\ \E g \in Goroutine : phase[g] = "swap") =>
        []<>(<<\E g \in Goroutine : phase[g] = "swap" /\ phase'[g] = "idle">>_vars)

\* Weighted: as long as nothing has been excluded, every round of W selections
\* (W the sum of the weights) serves each position exactly its weight, and
\* within a round no position gets ahead of its share by a whole selection.
Proportional == WT!Proportional

\* Least connections: the counters are exactly the selections not yet given
\* back, so they never go negative and nothing leaks (least_conn.go:51-61).
CountsSelections ==
    \A i \in LC!Index :
        active[i] = Cardinality({g \in Goroutine : phase[g] = "using" /\ best[g] = i})

\* Least connections: a Select during which no counter changed increments a
\* candidate with the fewest connections, the first in the route's order.
UndisturbedPicksLeast ==
    \A g \in Goroutine :
        phase[g] = "add" /\ alone[g] =>
            \A i \in LC!Index :
                Targets[i] \notin exclude[g] =>
                    \/ active[best[g]] < active[i]
                    \/ active[best[g]] = active[i] /\ best[g] <= i
=============================================================================
