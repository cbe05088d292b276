-------------------------- MODULE BreakerRegistry --------------------------
(***************************************************************************)
(* The registry of circuit breakers (registry.go): the map from targets to *)
(* breakers, filled on first use by concurrent requests and trimmed by a   *)
(* reload, and the gateway_circuit_state gauge that every breaker updates  *)
(* from its state-change callback.                                         *)
(*                                                                         *)
(* r.breakers is a sync.Map, r.statesMu guards the gauge and its target    *)
(* table, b.mu guards a breaker's state and callback and is held while the *)
(* callback runs.  A step of the model ends wherever a goroutine holds     *)
(* neither b.mu nor statesMu; breakersMu spans several steps.              *)
(***************************************************************************)
EXTENDS Naturals, Sequences, FiniteSets

CONSTANTS
    Target, Service,
    Request,     \* goroutines that serve requests
    Reloader,    \* the goroutine that reloads the configuration
    Object,      \* breakers that can be allocated
    Absent,
    Snapshots    \* the routings of successive configurations

\* A routing: the targets and services its routes pair, and the map that
\* circuitBreakerTargetServices makes of them (the last route wins).
Routing == [routes: SUBSET (Target \X Service), owner: [Target -> Service \cup {Absent}]]

ASSUME SnapshotsAssumption ==
    /\ Snapshots \in Seq(Routing) /\ Snapshots # <<>>
    /\ \A i \in 1..Len(Snapshots), t \in Target :
          LET s == Snapshots[i].owner[t] IN
          IF s = Absent THEN \A x \in Service : <<t, x>> \notin Snapshots[i].routes
                      ELSE <<t, s>> \in Snapshots[i].routes

Proc == Request \cup {Reloader}
BreakerState == {"closed", "open", "half_open"}
Entry == [service: Service, state: BreakerState]

ASSUME NamesAssumption ==
    /\ Absent \notin Target \cup Service \cup Object \cup Request \cup Entry
    /\ Reloader \notin Request

VARIABLES
    cur,          \* index of the snapshot that m.current holds
    breakers,     \* r.breakers
    breakersMu,   \* the holder of r.breakersMu
    state,        \* the state of each breaker
    callback,     \* the service its callback reports to, Absent for nil
    home,         \* the target it was created for, Absent if not allocated
    targetStates, \* r.targetStates
    gauge,        \* gateway_circuit_state per service, Absent for no series
    pc,           \* what each goroutine does next
    local,        \* its target, service, breaker and the state it read
    todo          \* targets the reload's Range has still to visit

registryVars == <<cur, breakers, breakersMu, state, callback, home,
                  targetStates, gauge, pc, local, todo>>

\* aggregateServiceStateLocked and serviceHasTargetsLocked over a table: the
\* states of a service's targets, and the worst of them.
StatesOf(table, s) ==
    {table[t].state : t \in {u \in Target : table[u] # Absent /\ table[u].service = s}}

Worst(states) ==
    IF states = {} THEN Absent
    ELSE CHOOSE st \in states : /\ "open" \in states => st = "open"
                               /\ "half_open" \in states => st # "closed"

Aggregate(table, s) == Worst(StatesOf(table, s))

\* setGauge recomputes the new service's series and, when the target changed
\* service, the old one's, deleting it when no target is left.
SetGauge(t, s, st) ==
    LET table == [targetStates EXCEPT ![t] = [service |-> s, state |-> st]]
        touched == {s} \cup (IF targetStates[t] = Absent THEN {} ELSE {targetStates[t].service})
    IN  /\ targetStates' = table
        /\ gauge' = [x \in Service |->
                        IF x \in touched THEN Aggregate(table, x) ELSE gauge[x]]

RemoveTarget(t) ==
    IF targetStates[t] = Absent
    THEN UNCHANGED <<targetStates, gauge>>
    ELSE LET table == [targetStates EXCEPT ![t] = Absent]
             s == targetStates[t].service
         IN  /\ targetStates' = table
             /\ gauge' = [gauge EXCEPT ![s] = Aggregate(table, s)]

NoLocal == [target |-> Absent, service |-> Absent, obj |-> Absent, seen |-> Absent]

RegistryInit ==
    /\ cur = 1
    /\ breakers = [t \in Target |-> Absent]
    /\ breakersMu = Absent
    /\ state = [o \in Object |-> "closed"]
    /\ callback = [o \in Object |-> Absent]
    /\ home = [o \in Object |-> Absent]
    /\ targetStates = [t \in Target |-> Absent]
    /\ gauge = [s \in Service |-> Absent]
    /\ pc = [p \in Proc |-> "idle"]
    /\ local = [p \in Proc |-> NoLocal]
    /\ todo = {}

Goto(p, l) == pc' = [pc EXCEPT ![p] = l]
Unlock(p) == breakersMu' = IF breakersMu = p THEN Absent ELSE breakersMu
Set(p, f, v) == local' = [local EXCEPT ![p][f] = v]

\* After ensureBreakerService a request has its breaker; the reload's Range
\* goes on with the next target.
Resume(p) == Goto(p, IF p = Reloader THEN "range" ELSE "use")

-----------------------------------------------------------------------------
\* BreakerForService

Arrive(r) ==
    /\ pc[r] = "idle"
    /\ \E route \in Snapshots[cur].routes :
          local' = [local EXCEPT ![r].target = route[1], ![r].service = route[2]]
    /\ Goto(r, "load")
    /\ UNCHANGED <<cur, breakers, breakersMu, state, callback, home,
                   targetStates, gauge, todo>>

\* The lock-free lookup.
Load(r) ==
    LET b == breakers[local[r].target] IN
    /\ pc[r] = "load"
    /\ Set(r, "obj", b)
    /\ Goto(r, IF b = Absent THEN "lock" ELSE "ensure")
    /\ UNCHANGED <<cur, breakers, breakersMu, state, callback, home,
                   targetStates, gauge, todo>>

\* Faulty variant: no second lookup under the mutex.
LockNoRecheck(r) ==
    /\ pc[r] = "lock"
    /\ breakersMu = Absent
    /\ breakersMu' = r
    /\ \E o \in {x \in Object : home[x] = Absent} :
          /\ Set(r, "obj", o)
          /\ home' = [home EXCEPT ![o] = local[r].target]
          /\ Goto(r, "attach_new")
    /\ UNCHANGED <<cur, breakers, state, callback, targetStates, gauge, todo>>

\* breakersMu.Lock and the second lookup; a new breaker starts closed.
Lock(r) ==
    LET b == breakers[local[r].target] IN
    /\ pc[r] = "lock"
    /\ breakersMu = Absent
    /\ breakersMu' = r
    /\ IF b # Absent
       THEN Set(r, "obj", b) /\ Goto(r, "ensure") /\ UNCHANGED home
       ELSE \E o \in {x \in Object : home[x] = Absent} :
               /\ Set(r, "obj", o)
               /\ home' = [home EXCEPT ![o] = local[r].target]
               /\ Goto(r, "attach_new")
    /\ UNCHANGED <<cur, breakers, state, callback, targetStates, gauge, todo>>

\* ensureBreakerService, up to its early return.
Ensure(p) ==
    LET e == targetStates[local[p].target]
        bound == e # Absent /\ e.service = local[p].service
    IN  /\ pc[p] = "ensure"
        /\ IF bound THEN Resume(p) /\ Unlock(p)
                    ELSE Goto(p, "attach") /\ UNCHANGED breakersMu
        /\ UNCHANGED <<cur, breakers, state, callback, home, targetStates,
                       gauge, local, todo>>

\* attachBreaker: setStateChangeCallback returns the state it saw under b.mu.
Attach(p) ==
    LET o == local[p].obj IN
    /\ pc[p] \in {"attach", "attach_new"}
    /\ callback' = [callback EXCEPT ![o] = local[p].service]
    /\ Set(p, "seen", state[o])
    /\ Goto(p, IF pc[p] = "attach" THEN "report" ELSE "report_new")
    /\ UNCHANGED <<cur, breakers, breakersMu, state, home, targetStates, gauge, todo>>

\* attachBreaker, second half: b.mu is free again when setGauge runs.
Report(p) ==
    /\ pc[p] \in {"report", "report_new"}
    /\ SetGauge(local[p].target, local[p].service, local[p].seen)
    /\ Set(p, "seen", Absent)
    /\ IF pc[p] = "report_new"
       THEN Goto(p, "store") /\ UNCHANGED breakersMu
       ELSE Resume(p) /\ Unlock(p)
    /\ UNCHANGED <<cur, breakers, state, callback, home, todo>>

Store(r) ==
    /\ pc[r] = "store"
    /\ breakers' = [breakers EXCEPT ![local[r].target] = local[r].obj]
    /\ Goto(r, "use")
    /\ Unlock(r)
    /\ UNCHANGED <<cur, state, callback, home, targetStates, gauge, local, todo>>

-----------------------------------------------------------------------------
\* Faulty variant: the callback is not called.
TransitionSilent(o, st) ==
    state' = [state EXCEPT ![o] = st] /\ UNCHANGED <<targetStates, gauge>>

\* The breaker's own transitions, callback included (breaker.go:169-203).
Transition(o, st) ==
    /\ state' = [state EXCEPT ![o] = st]
    /\ IF callback[o] = Absent
       THEN UNCHANGED <<targetStates, gauge>>
       ELSE SetGauge(home[o], callback[o], st)

\* Allow, RecordSuccess, RecordFailure or RecordIgnored changes the state.
Use(r) ==
    LET o == local[r].obj IN
    /\ pc[r] = "use"
    /\ \E st \in BreakerState :
          /\ <<state[o], st>> \in {<<"closed", "open">>, <<"open", "half_open">>,
                                  <<"half_open", "open">>, <<"half_open", "closed">>}
          /\ Transition(o, st)
    /\ UNCHANGED <<cur, breakers, breakersMu, callback, home, pc, local, todo>>

Depart(r) ==
    /\ pc[r] = "use"
    /\ Goto(r, "idle")
    /\ local' = [local EXCEPT ![r] = NoLocal]
    /\ UNCHANGED <<cur, breakers, breakersMu, state, callback, home,
                   targetStates, gauge, todo>>

\* One iteration of Registry.Reset.
Reset(t) ==
    /\ breakers[t] # Absent
    /\ Transition(breakers[t], "closed")
    /\ UNCHANGED <<cur, breakers, breakersMu, callback, home, pc, local, todo>>

-----------------------------------------------------------------------------
\* Reload with an unchanged circuit_breaker section: the live registry is
\* reconciled with the next routing, then the snapshot is stored.

BeginReload ==
    /\ pc[Reloader] = "idle"
    /\ cur < Len(Snapshots)
    /\ todo' = Target
    /\ Goto(Reloader, "range")
    /\ UNCHANGED <<cur, breakers, breakersMu, state, callback, home,
                   targetStates, gauge, local>>

\* Range visits each key once, in any order, and skips the absent.
Visit(t) ==
    LET s == Snapshots[cur + 1].owner[t] IN
    /\ pc[Reloader] = "range"
    /\ t \in todo
    /\ todo' = todo \ {t}
    /\ IF breakers[t] = Absent
       THEN UNCHANGED <<local, pc>>
       ELSE /\ local' = [local EXCEPT ![Reloader].target = t,
                                      ![Reloader].service = s,
                                      ![Reloader].obj = breakers[t]]
            /\ Goto(Reloader, IF s = Absent THEN "detach" ELSE "ensure")
    /\ UNCHANGED <<cur, breakers, breakersMu, state, callback, home,
                   targetStates, gauge>>

Detach ==
    /\ pc[Reloader] = "detach"
    /\ callback' = [callback EXCEPT ![local[Reloader].obj] = Absent]
    /\ Goto(Reloader, "delete")
    /\ UNCHANGED <<cur, breakers, breakersMu, state, home, targetStates,
                   gauge, local, todo>>

Delete ==
    /\ pc[Reloader] = "delete"
    /\ breakers' = [breakers EXCEPT ![local[Reloader].target] = Absent]
    /\ Goto(Reloader, "remove")
    /\ UNCHANGED <<cur, breakersMu, state, callback, home, targetStates,
                   gauge, local, todo>>

Remove ==
    /\ pc[Reloader] = "remove"
    /\ RemoveTarget(local[Reloader].target)
    /\ Goto(Reloader, "range")
    /\ UNCHANGED <<cur, breakers, breakersMu, state, callback, home, local, todo>>

SwapSnapshot ==
    /\ pc[Reloader] = "range"
    /\ todo = {}
    /\ cur' = cur + 1
    /\ Goto(Reloader, "idle")
    /\ local' = [local EXCEPT ![Reloader] = NoLocal]
    /\ UNCHANGED <<breakers, breakersMu, state, callback, home, targetStates,
                   gauge, todo>>

RegistryNext ==
    \/ \E r \in Request : \/ Arrive(r) \/ Load(r) \/ Lock(r) \/ Store(r)
                          \/ Use(r) \/ Depart(r)
    \/ \E p \in Proc : Ensure(p) \/ Attach(p) \/ Report(p)
    \/ \E t \in Target : Reset(t) \/ Visit(t)
    \/ BeginReload \/ Detach \/ Delete \/ Remove \/ SwapSnapshot

RegistrySpec == RegistryInit /\ [][RegistryNext]_registryVars

-----------------------------------------------------------------------------
\* Types of the variables, and breakersMu held only inside BreakerForService.
RegistryTypeOK ==
    /\ cur \in 1..Len(Snapshots)
    /\ breakers \in [Target -> Object \cup {Absent}]
    /\ breakersMu \in Request \cup {Absent}
    /\ state \in [Object -> BreakerState]
    /\ callback \in [Object -> Service \cup {Absent}]
    /\ home \in [Object -> Target \cup {Absent}]
    /\ targetStates \in [Target -> Entry \cup {Absent}]
    /\ gauge \in [Service -> BreakerState \cup {Absent}]
    /\ breakersMu # Absent => pc[breakersMu] \notin {"idle", "load", "lock", "use"}
    /\ todo \subseteq Target

\* The targets that no configuration drops.
Kept == {t \in Target : \A i \in 1..Len(Snapshots) : Snapshots[i].owner[t] # Absent}

\* Those that every route of every configuration pairs with the same service.
Settled == {t \in Kept : \E s \in Service : \A i \in 1..Len(Snapshots), x \in Service :
                           <<t, x>> \in Snapshots[i].routes => x = s}

\* However many requests meet a target for the first time at once, and
\* whatever is reloaded meanwhile, those that have its breaker have the one
\* the registry holds: no failure is counted where nobody looks (registry.go:57).
OneBreakerPerTarget ==
    \A r \in Request :
        pc[r] = "use" /\ local[r].target \in Kept =>
            breakers[local[r].target] = local[r].obj

\* Each series shows the aggregate of the target table, and exists exactly
\* while the service has a target in it; and the table shows the state every
\* breaker is in, under the service its callback reports to, as long as all
\* routes to its target are of one service (registry.go:150-200).
GaugeTracksBreakers ==
    /\ \A s \in Service : gauge[s] = Aggregate(targetStates, s)
    /\ \A t \in Settled :
        breakers[t] # Absent =>
            /\ targetStates[t] = [service |-> callback[breakers[t]],
                                  state |-> state[breakers[t]]]
            /\ home[breakers[t]] = t
=============================================================================
