----------------------------- MODULE LeastConn ------------------------------
(***************************************************************************)
(* The least-connections balancer (internal/transport/loadbalancer/        *)
(* least_conn.go).  Select reads one atomic counter after another, without *)
(* a lock, and increments the counter of the target it settled on; Done    *)
(* decrements it, once.                                                    *)
(***************************************************************************)
EXTENDS Integers, Sequences

CONSTANTS
    Goroutine,
    Targets,     \* the route's targets in order
    ExcludeSets, \* the sets of addresses a retry may exclude
    None

VARIABLES
    active,   \* leastConnTarget.active, per position
    phase,    \* per goroutine: "idle", "scan", "add" or "using"
    at,       \* the position the scan has reached
    best,     \* the position it prefers so far, or None
    bestActive,
    exclude,
    alone     \* history: no counter changed since this Select began

vars == <<active, phase, at, best, bestActive, exclude, alone>>

Index == DOMAIN Targets

Init ==
    /\ active = [i \in Index |-> 0]
    /\ phase = [g \in Goroutine |-> "idle"]
    /\ at = [g \in Goroutine |-> 1]
    /\ best = [g \in Goroutine |-> None]
    /\ bestActive = [g \in Goroutine |-> 0]
    /\ exclude = [g \in Goroutine |-> {}]
    /\ alone = [g \in Goroutine |-> TRUE]

Call(g) ==
    /\ phase[g] = "idle"
    /\ \E ex \in ExcludeSets : exclude' = [exclude EXCEPT ![g] = ex]
    /\ phase' = [phase EXCEPT ![g] = "scan"]
    /\ alone' = [alone EXCEPT ![g] = TRUE]
    /\ UNCHANGED <<active, at, best, bestActive>>

\* Faulty variant: a tie goes to the later target.
PrefersLater(g, i) ==
    /\ Targets[i] \notin exclude[g]
    /\ best[g] = None \/ active[i] <= bestActive[g]

Prefers(g, i) ==
    /\ Targets[i] \notin exclude[g]
    /\ best[g] = None \/ active[i] < bestActive[g]

\* One iteration of the scan; past the last target, ErrNoTargets or Add.
Look(g) ==
    LET i == at[g] IN
    /\ phase[g] = "scan"
    /\ i \in Index
    /\ at' = [at EXCEPT ![g] = i + 1]
    /\ best' = IF Prefers(g, i) THEN [best EXCEPT ![g] = i] ELSE best
    /\ bestActive' = IF Prefers(g, i) THEN [bestActive EXCEPT ![g] = active[i]]
                                      ELSE bestActive
    /\ UNCHANGED <<active, phase, exclude, alone>>

ScanEnds(g) ==
    /\ phase[g] = "scan"
    /\ at[g] \notin Index
    /\ phase' = [phase EXCEPT ![g] = IF best[g] = None THEN "idle" ELSE "add"]
    /\ at' = [at EXCEPT ![g] = 1]
    /\ exclude' = IF best[g] = None THEN [exclude EXCEPT ![g] = {}] ELSE exclude
    /\ UNCHANGED <<active, best, bestActive, alone>>

\* A counter changes under the scans of the other goroutines.
Disturb(g) == [h \in Goroutine |-> alone[h] /\ (h = g \/ phase[h] \notin {"scan", "add"})]

\* Faulty variant: the selection is not counted.
AddNothing(g) ==
    /\ phase[g] = "add"
    /\ phase' = [phase EXCEPT ![g] = "using"]
    /\ bestActive' = [bestActive EXCEPT ![g] = 0]
    /\ exclude' = [exclude EXCEPT ![g] = {}]
    /\ alone' = Disturb(g)
    /\ UNCHANGED <<active, at, best>>

\* best.active.Add(1)
Add(g) ==
    /\ phase[g] = "add"
    /\ active' = [active EXCEPT ![best[g]] = @ + 1]
    /\ phase' = [phase EXCEPT ![g] = "using"]
    /\ bestActive' = [bestActive EXCEPT ![g] = 0]
    /\ exclude' = [exclude EXCEPT ![g] = {}]
    /\ alone' = Disturb(g)
    /\ UNCHANGED <<at, best>>

\* Done, the first time; the sync.Once makes later calls do nothing.
Done(g) ==
    /\ phase[g] = "using"
    /\ active' = [active EXCEPT ![best[g]] = @ - 1]
    /\ phase' = [phase EXCEPT ![g] = "idle"]
    /\ best' = [best EXCEPT ![g] = None]
    /\ alone' = Disturb(g)
    /\ UNCHANGED <<at, bestActive, exclude>>

Next == \E g \in Goroutine : Call(g) \/ Look(g) \/ ScanEnds(g) \/ Add(g) \/ Done(g)

-----------------------------------------------------------------------------
\* Types of the variables.
TypeOK ==
    /\ active \in [Index -> Nat]
    /\ phase \in [Goroutine -> {"idle", "scan", "add", "using"}]
    /\ at \in [Goroutine -> 1..(Len(Targets) + 1)]
    /\ best \in [Goroutine -> Index \cup {None}]
    /\ bestActive \in [Goroutine -> Nat]
=============================================================================
