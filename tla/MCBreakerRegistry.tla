------------------------- MODULE MCBreakerRegistry -------------------------
(***************************************************************************)
(* A small instance of BreakerRegistry.                                    *)
(***************************************************************************)
EXTENDS BreakerRegistry, TLC

CONSTANTS t1, t2, s1

Owned(m) == {<<t, m[t]>> : t \in {u \in Target : m[u] # Absent}}
RoutingOf(m) == [routes |-> Owned(m), owner |-> m]

\* The second configuration drops t2 and keeps t1 where it was.
Retire == << RoutingOf((t1 :> s1) @@ (t2 :> s1)), RoutingOf((t1 :> s1) @@ (t2 :> Absent)) >>

\* No goroutine is between two steps of the registry's methods.
Quiet == \A p \in Proc : pc[p] \in {"idle", "use"}

\* Statements the code does not satisfy.
\*
\* With no call in progress the table has no target without a breaker: a request
\* of the old snapshot can attach a breaker again that the reload retires.
NoGhostTarget ==
    Quiet => \A t \in Target : targetStates[t] # Absent => breakers[t] # Absent

\* A reload does not touch the breakers the stored snapshot routes to before
\* the new snapshot has replaced it.
LiveRegistryUntouched ==
    [][\A t \in Target :
          breakers[t] # Absent /\ Snapshots[cur].owner[t] # Absent =>
              breakers'[t] = breakers[t]]_registryVars

RequestSymmetry == Permutations(Request)
=============================================================================
