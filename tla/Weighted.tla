------------------------------ MODULE Weighted ------------------------------
(***************************************************************************)
(* The weighted balancer (internal/transport/loadbalancer/weighted.go):    *)
(* smooth weighted round robin under a mutex.  Every candidate gains its   *)
(* weight, the richest is selected and pays the sum of the gains.          *)
(***************************************************************************)
EXTENDS Integers, Sequences

CONSTANTS
    Targets,     \* the route's targets in order; an address may repeat
    RawWeight,   \* the weight written in the configuration, per position
    ExcludeSets  \* the sets of addresses a retry may exclude

VARIABLES
    currentWeight,
    served,  \* history: selections per position in the current round
    pristine \* history: nothing has been excluded so far

vars == <<currentWeight, served, pristine>>

Index == DOMAIN Targets

\* Faulty variant: the configured weights are ignored.
WeightOne(i) == 1

\* effectiveWeight
Weight(i) == IF RawWeight[i] <= 0 THEN 1 ELSE RawWeight[i]

\* The sum of f over the positions, taken in their order.
SumOver(f) ==
    LET sum[n \in 0 .. Len(Targets)] == IF n = 0 THEN 0 ELSE sum[n - 1] + f[n]
    IN  sum[Len(Targets)]

TotalWeight(I) == SumOver([i \in Index |-> IF i \in I THEN Weight(i) ELSE 0])

Init ==
    /\ currentWeight = [i \in Index |-> 0]
    /\ served = [i \in Index |-> 0]
    /\ pristine = TRUE

\* The current weights once every candidate has gained its own.
Gained(I) == [i \in Index |-> currentWeight[i] + (IF i \in I THEN Weight(i) ELSE 0)]

\* The scan keeps the first of the candidates with the greatest weight.
Best(w, I) ==
    CHOOSE i \in I : \A j \in I : w[j] < w[i] \/ (w[j] = w[i] /\ i <= j)

\* What the configuration asks for: in a round of RoundLength selections every
\* position gets its share.
Share(i) == IF RawWeight[i] > 0 THEN RawWeight[i] ELSE 1
RoundLength == SumOver([i \in Index |-> Share(i)])

\* History: selections made in the current round.
Round == SumOver(served)

\* Select with a set of excluded addresses; with no candidate it returns
\* ErrNoTargets and changes nothing.
Select(ex) ==
    LET candidates == {i \in Index : Targets[i] \notin ex}
        w == Gained(candidates)
        best == Best(w, candidates)
        opening == IF Round = RoundLength THEN [i \in Index |-> 0] ELSE served
    IN  /\ candidates # {}
        /\ currentWeight' = [w EXCEPT ![best] = @ - TotalWeight(candidates)]
        /\ pristine' = (pristine /\ ex = {})
        /\ served' = IF pristine' THEN [opening EXCEPT ![best] = @ + 1]
                     ELSE [i \in Index |-> 0]

Next == \E ex \in ExcludeSets : Select(ex)

-----------------------------------------------------------------------------
\* Proportion: as long as nothing has been excluded, every round of W
\* selections (W the sum of the weights) serves each position exactly its
\* weight, and within a round no position gets ahead of its share by a whole
\* selection (smooth weighted round robin, weighted.go:34-64).  There is no
\* such bound the other way: of nine targets with the weights 1, 3, 1, 1, 3, 3,
\* 3, 3 and 1, one falls more than a selection behind.
Proportional ==
    pristine =>
        \A i \in Index :
            /\ RoundLength * served[i] - Round * Share(i) < RoundLength
            /\ Round = RoundLength => served[i] = Share(i)
=============================================================================
