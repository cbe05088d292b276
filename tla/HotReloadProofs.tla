-------------------------- MODULE HotReloadProofs ---------------------------
(***************************************************************************)
(* What a hot reload leaves intact under the requests in flight: the       *)
(* configuration snapshot and its watcher (HotReload, for any contents,    *)
(* any number of probes and of edits), and the registry of circuit         *)
(* breakers that the old and the new snapshot share (BreakerRegistry, for  *)
(* any targets, routings and number of requests).                          *)
(***************************************************************************)
EXTENDS HotReload, BreakerRegistry, TLAPS

\* A write before the directory is watched is remembered as a gap.
GapRecorded == watcher = "adding" /\ file # lastRead => gap

\* The queue never holds more than the kernel keeps: when it is full and not of
\* other files' events alone, one of the file is among them.
QueueBounded == events + others <= Queue

\* The timer stays set until the reload it started has ended.
ReloadHasTimer == watcher \in {"read", "build", "store", "flag", "set_ready"} => timer

\* The snapshot about to be stored passed validation against the one in use,
\* which exists as soon as there is a watcher.
StoreIsAcceptable ==
    /\ watcher = "store" => got \in Valid /\ Server[got] = Server[current]
    /\ watcher # "absent" => current # None
    /\ main = "boot" => current = None

\* A probe is late only if the drain has begun.
LateMeansDraining == \A p \in Probe : late[p] => draining

\* The inductive invariant: a write is on its way, and what a reload carries
\* from one of its steps to the next still holds.
IInv ==
    /\ TypeOK
    /\ NoLostEdit
    /\ DrainIsFinal
    /\ GapRecorded
    /\ QueueBounded
    /\ ReloadHasTimer
    /\ StoreIsAcceptable
    /\ LateMeansDraining

\* The gateway starts in the invariant.
LEMMA InitIInv == Init => IInv
<1> SUFFICES ASSUME Init PROVE IInv
  OBVIOUS
<1>1. TypeOK
  <2>1. late \in [Probe -> BOOLEAN] /\ gap \in BOOLEAN
    BY Zenon DEF Init
  <2>2. timer \in BOOLEAN /\ ready \in BOOLEAN /\ draining \in BOOLEAN
    BY Zenon DEF Init
  <2> QED BY <2>1, <2>2, ReloadAssumption DEF Init, TypeOK, Location
<1>2. NoLostEdit /\ GapRecorded /\ QueueBounded /\ ReloadHasTimer /\ StoreIsAcceptable
  BY ReloadAssumption DEF Init, Watched, NoLostEdit, GapRecorded, QueueBounded, ReloadHasTimer, StoreIsAcceptable
<1>3. DrainIsFinal /\ LateMeansDraining
  BY DEF Init, DrainIsFinal, LateMeansDraining
<1> QED BY <1>1, <1>2, <1>3 DEF IInv

\* The operator's write keeps the invariant: it raises an event, or it is
\* recorded as made too early.
LEMMA WriteIInv == ASSUME IInv, NEW c \in Content, Write(c) PROVE IInv'
<1>1. TypeOK'
  BY ReloadAssumption DEF IInv, TypeOK, Write, reloadVars, probeVars, Location
<1>2. QueueBounded'
  BY ReloadAssumption DEF IInv, TypeOK, Write, QueueBounded, Room
<1>5. NoLostEdit'
  <2>1. CASE ~Watched \/ others = Queue
    BY <2>1, Zenon DEF Write, reloadVars, Watched, NoLostEdit
  <2>2. CASE Watched /\ others # Queue
    <3>1. events' > 0
      BY <2>2, ReloadAssumption DEF IInv, TypeOK, Write, QueueBounded, Room
    <3> QED BY <3>1 DEF NoLostEdit
  <2> QED BY <2>1, <2>2
<1>3. (DrainIsFinal /\ LateMeansDraining)'
  BY DEF IInv, Write, probeVars, DrainIsFinal, LateMeansDraining
<1>4. (GapRecorded /\ ReloadHasTimer /\ StoreIsAcceptable)'
  BY Zenon DEF IInv, Write, reloadVars, GapRecorded, ReloadHasTimer, StoreIsAcceptable
<1> QED BY <1>1, <1>2, <1>3, <1>4, <1>5 DEF IInv

\* A change of another file takes room in the queue and nothing else.
LEMMA OtherFileIInv == ASSUME IInv, OtherFile PROVE IInv'
<1>1. TypeOK'
  BY ReloadAssumption DEF IInv, TypeOK, OtherFile, reloadVars, probeVars
<1>2. (NoLostEdit /\ GapRecorded /\ QueueBounded /\ ReloadHasTimer /\ StoreIsAcceptable)'
  BY ReloadAssumption DEF IInv, TypeOK, OtherFile, reloadVars, NoLostEdit, GapRecorded,
     QueueBounded, ReloadHasTimer, StoreIsAcceptable, Watched, Room
<1>3. (DrainIsFinal /\ LateMeansDraining)'
  BY DEF IInv, OtherFile, probeVars, DrainIsFinal, LateMeansDraining
<1> QED BY <1>1, <1>2, <1>3 DEF IInv

\* Starting the process keeps the invariant.
LEMMA BootIInv == ASSUME IInv, Boot PROVE IInv'
<1>1. TypeOK'
  BY ReloadAssumption, ZenonT(40) DEF IInv, TypeOK, Boot, probeVars, Location, Serving, Cancelled
<1>2. (NoLostEdit /\ GapRecorded /\ QueueBounded /\ ReloadHasTimer)'
  BY DEF IInv, TypeOK, Boot, Watched, NoLostEdit, GapRecorded, QueueBounded, ReloadHasTimer
<1>3. StoreIsAcceptable'
  BY ReloadAssumption DEF IInv, TypeOK, Boot, StoreIsAcceptable
<1>4. (DrainIsFinal /\ LateMeansDraining)'
  BY DEF IInv, Boot, probeVars, DrainIsFinal, LateMeansDraining
<1> QED BY <1>1, <1>2, <1>3, <1>4 DEF IInv

\* So does every step of the watcher.
LEMMA ReloadingIInv == ASSUME IInv, Reloading PROVE IInv'
<1> USE DEF operatorVars, probeVars, Watched
<1>1. DrainIsFinal' /\ LateMeansDraining'
  BY DEF IInv, DrainIsFinal, LateMeansDraining, Reloading, WatchDirectory, HandleEvent,
         SkipEvent, TimerFires, ReadConfig, BuildSnapshot, StoreSnapshot, CheckDraining,
         SetReady, WatcherStops
<1>2. CASE WatchDirectory
  BY <1>1, <1>2 DEF IInv, TypeOK, NoLostEdit, GapRecorded, QueueBounded, ReloadHasTimer,
         StoreIsAcceptable, WatchDirectory, Location
<1>3. CASE HandleEvent
  <2>1. TypeOK' /\ QueueBounded'
    BY <1>3, ReloadAssumption DEF IInv, TypeOK, QueueBounded, HandleEvent, Location
  <2>2. (NoLostEdit /\ GapRecorded /\ ReloadHasTimer /\ StoreIsAcceptable)'
    BY <1>3 DEF IInv, TypeOK, NoLostEdit, GapRecorded, ReloadHasTimer,
       StoreIsAcceptable, HandleEvent
  <2> QED BY <1>1, <2>1, <2>2 DEF IInv
<1>11. CASE SkipEvent
  <2>1. TypeOK' /\ QueueBounded'
    BY <1>11, ReloadAssumption DEF IInv, TypeOK, QueueBounded, SkipEvent, reloadVars, Location
  <2>2. (NoLostEdit /\ GapRecorded /\ ReloadHasTimer /\ StoreIsAcceptable)'
    BY <1>11 DEF IInv, TypeOK, NoLostEdit, GapRecorded, ReloadHasTimer,
       StoreIsAcceptable, SkipEvent, reloadVars
  <2> QED BY <1>1, <2>1, <2>2 DEF IInv
<1>4. CASE TimerFires
  BY <1>1, <1>4 DEF IInv, TypeOK, NoLostEdit, GapRecorded, QueueBounded, ReloadHasTimer,
         StoreIsAcceptable, TimerFires, Location
<1>5. CASE ReadConfig
  BY <1>1, <1>5 DEF IInv, TypeOK, NoLostEdit, GapRecorded, QueueBounded, ReloadHasTimer,
         StoreIsAcceptable, ReadConfig, Location
<1>6. CASE BuildSnapshot
  BY Zenon, <1>1, <1>6 DEF IInv, TypeOK, NoLostEdit, GapRecorded, QueueBounded, ReloadHasTimer,
         StoreIsAcceptable, BuildSnapshot, Acceptable, Location
<1>7. CASE StoreSnapshot
  BY <1>1, <1>7, ReloadAssumption DEF IInv, TypeOK, NoLostEdit, GapRecorded,
         QueueBounded, ReloadHasTimer, StoreIsAcceptable, StoreSnapshot, Location
<1>8. CASE CheckDraining
  BY Zenon, <1>1, <1>8 DEF IInv, TypeOK, NoLostEdit, GapRecorded, QueueBounded, ReloadHasTimer,
         StoreIsAcceptable, CheckDraining, Location
<1>9. CASE SetReady
  BY Zenon, <1>1, <1>9 DEF IInv, TypeOK, NoLostEdit, GapRecorded, QueueBounded, ReloadHasTimer,
         StoreIsAcceptable, SetReady, Location
<1>10. CASE WatcherStops
  BY Zenon, <1>1, <1>10 DEF IInv, TypeOK, NoLostEdit, GapRecorded, QueueBounded, ReloadHasTimer,
         StoreIsAcceptable, WatcherStops, Location
<1> QED BY <1>2, <1>3, <1>4, <1>5, <1>6, <1>7, <1>8, <1>9, <1>10, <1>11
     DEF Reloading

\* The steps of the shutdown touch only main and the two flags.
LEMMA ShutdownIInv ==
    ASSUME IInv, ServerError \/ BeginShutdown \/ FlipReady \/ CancelWatcher
    PROVE  IInv'
<1> USE DEF ServerError, BeginShutdown, FlipReady, CancelWatcher, operatorVars, reloadVars,
            probeVars
<1>1. TypeOK'
  BY Zenon DEF IInv, TypeOK, Serving, Cancelled
<1>2. (NoLostEdit /\ GapRecorded /\ QueueBounded /\ ReloadHasTimer /\ StoreIsAcceptable)'
  BY DEF IInv, Watched, NoLostEdit, GapRecorded, QueueBounded, ReloadHasTimer, StoreIsAcceptable
<1>3. (DrainIsFinal /\ LateMeansDraining)'
  BY DEF IInv, DrainIsFinal, LateMeansDraining
<1> QED BY <1>1, <1>2, <1>3 DEF IInv

\* A probe that begins late finds the draining flag set, whatever ready says.
LEMMA ProbeIInv ==
    ASSUME IInv, NEW p \in Probe, ProbeArrives(p) \/ LoadReady(p) \/ LoadDraining(p)
    PROVE  IInv'
<1> USE DEF ProbeArrives, LoadReady, LoadDraining, Answer, operatorVars, reloadVars
<1>1. TypeOK'
  BY DEF IInv, TypeOK
<1>2. (NoLostEdit /\ GapRecorded /\ QueueBounded /\ ReloadHasTimer /\ StoreIsAcceptable)'
  BY DEF IInv, Watched, NoLostEdit, GapRecorded, QueueBounded, ReloadHasTimer, StoreIsAcceptable
<1>3. LateMeansDraining'
  BY DEF IInv, TypeOK, LateMeansDraining
<1>4. DrainIsFinal'
  BY DEF IInv, TypeOK, DrainIsFinal, LateMeansDraining
<1> QED BY <1>1, <1>2, <1>3, <1>4 DEF IInv

\* Every step keeps the invariant.
LEMMA NextIInv == IInv /\ [Next]_vars => IInv'
<1> SUFFICES ASSUME IInv, [Next]_vars PROVE IInv'
  OBVIOUS
<1>1. CASE UNCHANGED vars
  BY <1>1 DEF vars, IInv, TypeOK, Watched, NoLostEdit, DrainIsFinal, GapRecorded, QueueBounded,
       ReloadHasTimer, StoreIsAcceptable, LateMeansDraining
<1>2. CASE Next
  BY <1>2, WriteIInv, OtherFileIInv, BootIInv, ReloadingIInv, ShutdownIInv, ProbeIInv DEF Next
<1> QED BY <1>1, <1>2

\* The inductive invariant holds in every reachable state.
THEOREM Invariant == Spec => []IInv
BY InitIInv, NextIInv, PTL DEF Spec

\* No write made while the watcher runs is ever lost, for any interleaving of
\* writes with the reloads they cause (watcher.go:72-104).
THEOREM EditSafety == Spec => []NoLostEdit
<1>1. IInv => NoLostEdit  BY DEF IInv
<1> QED BY <1>1, Invariant, PTL

\* Once the shutdown has begun no later probe of /ready succeeds, whatever a
\* racing reload does to the ready flag (manager.go:116-147).
THEOREM DrainSafety == Spec => []DrainIsFinal
<1>1. IInv => DrainIsFinal  BY DEF IInv
<1> QED BY <1>1, Invariant, PTL

\* No reload moves the process to other startup-only settings
\* (manager.go:344-362).
THEOREM SettingsSafety == Spec => StartupSettingsStay
<1>1. IInv /\ [Next]_vars => [current # None => Server[current'] = Server[current]]_vars
  <2> SUFFICES ASSUME IInv, Next, current # None
               PROVE  Server[current'] = Server[current]
    BY DEF vars
  <2>1. CASE Boot
    BY <2>1 DEF Boot, IInv, StoreIsAcceptable
  <2>2. CASE StoreSnapshot
    BY <2>2 DEF StoreSnapshot, IInv, StoreIsAcceptable
  <2>3. CASE current' = current
    BY <2>3
  <2> QED
    BY <2>1, <2>2, <2>3 DEF Next, Reloading, Write, OtherFile, SkipEvent, ServerError, BeginShutdown, FlipReady,
       CancelWatcher, WatchDirectory, HandleEvent, TimerFires, ReadConfig, BuildSnapshot,
       CheckDraining, SetReady, WatcherStops, ProbeArrives, LoadReady, LoadDraining,
       reloadVars
<1> QED BY <1>1, Invariant, PTL DEF Spec, StartupSettingsStay

-----------------------------------------------------------------------------
(* The registry of circuit breakers. *)

\* Where a goroutine can be: with a breaker it allocated and has not published,
\* with one it found, or retiring one.
Label == {"idle", "load", "lock", "ensure", "attach", "report", "attach_new", "report_new",
          "store", "use", "range", "detach", "delete", "remove"}
Fresh == {"attach_new", "report_new", "store"}
Bound == {"ensure", "attach", "report", "use"}
Retiring == {"detach", "delete", "remove"}
Local == [target : Target \cup {Absent}, service : Service \cup {Absent},
          obj : Object \cup {Absent}, seen : BreakerState \cup {Absent}]

\* Some configuration routes t to s; the service of t in the first one.
Routed(t, s) == \E i \in 1 .. Len(Snapshots) : <<t, s>> \in Snapshots[i].routes
Owner(t) == Snapshots[1].owner[t]

RegShape ==
    /\ cur \in 1..Len(Snapshots)
    /\ breakers \in [Target -> Object \cup {Absent}]
    /\ breakersMu \in Request \cup {Absent}
    /\ state \in [Object -> BreakerState]
    /\ callback \in [Object -> Service \cup {Absent}]
    /\ home \in [Object -> Target \cup {Absent}]
    /\ targetStates \in [Target -> Entry \cup {Absent}]
    /\ pc \in [Proc -> Label]
    /\ local \in [Proc -> Local]
    /\ todo \subseteq Target
    /\ pc[Reloader] # "idle" => cur < Len(Snapshots)

\* A goroutine works on a target for a service that some configuration routes
\* to it, and reports a state it has read.
WorkInv == \A p \in Proc : pc[p] \in {"load", "lock"} \cup Bound \cup Fresh =>
    /\ local[p].target \in Target /\ local[p].service \in Service
    /\ Routed(local[p].target, local[p].service)
    /\ pc[p] \in {"report", "report_new"} => local[p].seen \in BreakerState

\* The breaker a goroutine holds was made for the target it works on.
HoldInv == \A p \in Proc : pc[p] \in Bound \cup Fresh \cup Retiring =>
    /\ local[p].obj \in Object /\ home[local[p].obj] = local[p].target /\ local[p].target \in Target

\* Whoever holds a published breaker of a target that every configuration keeps
\* holds the one in the map, and nobody retires it.
KeptInv == \A p \in Proc : local[p].target \in Kept =>
    /\ pc[p] \in Bound => breakers[local[p].target] = local[p].obj
    /\ pc[p] \notin Retiring

\* A breaker that is not published yet is made under breakersMu for a target that
\* has none, by a request.
FreshInv == \A p \in Proc :
    /\ pc[p] \in Fresh => breakersMu = p /\ breakers[local[p].target] = Absent
    /\ pc[p] \in Fresh \cup {"load", "lock", "use"} => p \in Request

\* The map holds each breaker under the target it was made for.
HomeInv == \A t \in Target : breakers[t] # Absent => home[breakers[t]] = t

\* The callback of a settled target reports to its one service, and the entry has
\* followed the breaker.
TrackInv == \A t \in Settled : breakers[t] # Absent =>
    /\ callback[breakers[t]] = Owner(t)
    /\ targetStates[t] = [service |-> Owner(t), state |-> state[breakers[t]]]

\* A settled target is attached once, and what its new breaker is about to report
\* or to publish is already in step.
ReadyInv == \A p \in Proc : local[p].target \in Settled =>
    /\ pc[p] \notin {"attach", "report"}
    /\ pc[p] \in {"report_new", "store"} => callback[local[p].obj] = Owner(local[p].target)
    /\ pc[p] = "report_new" => local[p].seen = state[local[p].obj]
    /\ pc[p] = "store" => targetStates[local[p].target] =
           [service |-> Owner(local[p].target), state |-> state[local[p].obj]]

SettledInv == TrackInv /\ ReadyInv

\* The inductive invariant of the registry.
RegInv == RegShape /\ WorkInv /\ HoldInv /\ KeptInv /\ FreshInv /\ HomeInv /\ SettledInv

-----------------------------------------------------------------------------
\* The routes of a configuration and the map made of them agree.
LEMMA SnapshotFacts ==
  ASSUME NEW i \in 1 .. Len(Snapshots)
  PROVE  /\ \A e \in Snapshots[i].routes :
                e[1] \in Target /\ e[2] \in Service /\ Routed(e[1], e[2])
         /\ \A t \in Target : Snapshots[i].owner[t] # Absent =>
                Snapshots[i].owner[t] \in Service /\ Routed(t, Snapshots[i].owner[t])
         /\ \A t \in Kept : Snapshots[i].owner[t] # Absent
<1>1. Snapshots[i] \in Routing
  BY SnapshotsAssumption
<1>2. /\ Snapshots[i].routes \subseteq Target \X Service
      /\ Snapshots[i].owner \in [Target -> Service \cup {Absent}]
  BY <1>1 DEF Routing
<1>3. ASSUME NEW e \in Snapshots[i].routes
      PROVE  e[1] \in Target /\ e[2] \in Service /\ Routed(e[1], e[2])
  <2>1. e[1] \in Target /\ e[2] \in Service /\ e = <<e[1], e[2]>>
    BY <1>2, <1>3
  <2> QED BY <1>3, <2>1 DEF Routed
<1>4. ASSUME NEW t \in Target, Snapshots[i].owner[t] # Absent
      PROVE  Snapshots[i].owner[t] \in Service /\ Routed(t, Snapshots[i].owner[t])
  BY <1>2, <1>4, SnapshotsAssumption DEF Routed
<1> QED BY <1>3, <1>4 DEF Kept

\* A settled target has one service, the one the first configuration gives it.
LEMMA SettledFacts ==
  /\ Settled \subseteq Kept /\ Kept \subseteq Target
  /\ \A t \in Settled : Owner(t) \in Service
  /\ \A t \in Settled, s \in Service : Routed(t, s) => s = Owner(t)
<1>1. Settled \subseteq Kept /\ Kept \subseteq Target
  BY DEF Settled, Kept
<1>2. ASSUME NEW t \in Settled PROVE Owner(t) \in Service /\ Routed(t, Owner(t))
  <2>1. 1 \in 1 .. Len(Snapshots)
    BY SnapshotsAssumption
  <2> QED BY <1>1, <2>1, SnapshotFacts DEF Owner
<1>3. ASSUME NEW t \in Settled, NEW s \in Service, Routed(t, s) PROVE s = Owner(t)
  <2>1. PICK x \in Service : \A i \in 1 .. Len(Snapshots), y \in Service :
                               <<t, y>> \in Snapshots[i].routes => y = x
    BY DEF Settled
  <2> QED BY <1>2, <1>3, <2>1, Zenon DEF Routed
<1> QED BY <1>1, <1>2, <1>3

\* What Set does to one field.
LEMMA SetField ==
  ASSUME RegShape, NEW p \in Proc, NEW v
  PROVE  /\ Set(p, "obj", v) =>
                /\ local'[p].obj = v /\ local'[p].target = local[p].target
                /\ local'[p].service = local[p].service /\ local'[p].seen = local[p].seen
                /\ \A q \in Proc : q # p => local'[q] = local[q]
                /\ v \in Object \cup {Absent} => local' \in [Proc -> Local]
         /\ Set(p, "seen", v) =>
                /\ local'[p].seen = v /\ local'[p].target = local[p].target
                /\ local'[p].service = local[p].service /\ local'[p].obj = local[p].obj
                /\ \A q \in Proc : q # p => local'[q] = local[q]
                /\ v \in BreakerState \cup {Absent} => local' \in [Proc -> Local]
BY DEF RegShape, Set, Local

\* A request takes its target and service from the routes of its snapshot.
LEMMA RegArrive ==
  ASSUME RegInv, NEW r \in Request, Arrive(r)
  PROVE  RegInv'
<1> USE NamesAssumption, SettledFacts DEF RegInv, Proc, Label, Fresh, Bound, Retiring, Local
<1>1. PICK route \in Snapshots[cur].routes :
          local' = [local EXCEPT ![r].target = route[1], ![r].service = route[2]]
  BY Zenon DEF Arrive
<1>0. route[1] \in Target /\ route[2] \in Service /\ Routed(route[1], route[2])
  BY SnapshotFacts, Zenon DEF RegShape
<1>8. RegShape'
  <2>1. local \in [Proc -> Local] /\ r \in Proc
    BY DEF RegShape
  <2>2. local' \in [Proc -> Local]
    BY ONLY <1>0, <1>1, <2>1, ZenonT(40) DEF Local
  <2>3. pc' \in [Proc -> Label] /\ pc'[Reloader] = pc[Reloader]
    BY DEF RegShape, Arrive, Goto
  <2> QED BY <2>2, <2>3 DEF RegShape, Arrive
<1>2. WorkInv'
  BY <1>0, <1>1 DEF RegShape, WorkInv, Arrive, Goto
<1>3. HoldInv'
  BY DEF RegShape, WorkInv, HoldInv, Arrive, Goto
<1>4. KeptInv'
  BY DEF RegShape, WorkInv, HoldInv, KeptInv, FreshInv, Arrive, Goto
<1>5. FreshInv'
  BY DEF RegShape, WorkInv, HoldInv, FreshInv, Arrive, Goto
<1>6. HomeInv'
  BY ZenonT(20) DEF RegShape, WorkInv, HoldInv, FreshInv, HomeInv, Arrive, Goto
<1>7. SettledInv'
  BY DEF RegShape, WorkInv, HoldInv, KeptInv, FreshInv, HomeInv, SettledInv, TrackInv, ReadyInv, Arrive, Goto
<1> QED BY <1>8, <1>2, <1>3, <1>4, <1>5, <1>6, <1>7

\* A breaker that the lock-free lookup finds was made for that target.
LEMMA RegLoad ==
  ASSUME RegInv, NEW r \in Request, Load(r)
  PROVE  RegInv'
<1> USE NamesAssumption, SettledFacts DEF RegInv, Proc, Label, Fresh, Bound, Retiring, Local
<1>1. RegShape'
  <2>1. local' \in [Proc -> Local]
    BY SetField DEF RegShape, WorkInv, Load
  <2>2. pc' \in [Proc -> Label] /\ pc'[Reloader] = pc[Reloader]
    BY Zenon DEF RegShape, Load, Goto
  <2> QED BY <2>1, <2>2, Zenon DEF RegShape, Load
<1>2. WorkInv'
  BY DEF RegShape, WorkInv, Load, Goto, Set
<1>3. HoldInv'
  BY SetField DEF RegShape, WorkInv, HoldInv, HomeInv, Load, Goto
<1>4. KeptInv'
  BY DEF RegShape, WorkInv, HoldInv, KeptInv, FreshInv, Load, Goto, Set
<1>5. FreshInv'
  BY Zenon, ZenonT(40) DEF RegShape, WorkInv, HoldInv, FreshInv, Load, Goto, Set
<1>6. HomeInv'
  BY Zenon DEF RegShape, WorkInv, HoldInv, FreshInv, HomeInv, Load, Goto, Set
<1>7. SettledInv'
  BY DEF RegShape, WorkInv, HoldInv, KeptInv, FreshInv, HomeInv, SettledInv, TrackInv, ReadyInv, Load, Goto, Set
<1> QED BY <1>1, <1>2, <1>3, <1>4, <1>5, <1>6, <1>7

\* Under breakersMu the second lookup decides: the breaker that is there, or a
\* new one for a target that has none.
LEMMA RegLock ==
  ASSUME RegInv, NEW r \in Request, Lock(r)
  PROVE  RegInv'
<1> USE NamesAssumption, SettledFacts DEF RegInv, Proc, Label, Fresh, Bound, Retiring, Local
<1>1. RegShape'
  <2>1. local' \in [Proc -> Local]
    BY SetField DEF RegShape, WorkInv, Lock
  <2>2. pc' \in [Proc -> Label] /\ pc'[Reloader] = pc[Reloader]
    BY Zenon, ZenonT(40) DEF RegShape, Lock, Goto
  <2>3. home' \in [Object -> Target \cup {Absent}]
    BY DEF RegShape, WorkInv, Lock
  <2> QED BY <2>1, <2>2, <2>3, Zenon DEF RegShape, Lock
<1>2. WorkInv'
  BY DEF RegShape, WorkInv, Lock, Goto, Set
<1>3. HoldInv'
  <2>1. CASE breakers[local[r].target] # Absent
    BY <2>1, SetField DEF RegShape, WorkInv, HoldInv, HomeInv, Lock, Goto
  <2>2. CASE breakers[local[r].target] = Absent
    BY <2>2, SetField DEF RegShape, WorkInv, HoldInv, Lock, Goto
  <2> QED BY <2>1, <2>2, Zenon
<1>4. KeptInv'
  BY DEF RegShape, WorkInv, HoldInv, KeptInv, FreshInv, Lock, Goto, Set
<1>5. FreshInv'
  BY DEF RegShape, WorkInv, HoldInv, FreshInv, Lock, Goto, Set
<1>6. HomeInv'
  BY DEF RegShape, WorkInv, HoldInv, FreshInv, HomeInv, Lock, Goto, Set
<1>7. SettledInv'
  BY DEF RegShape, WorkInv, HoldInv, KeptInv, FreshInv, HomeInv, SettledInv, TrackInv, ReadyInv, Lock, Goto, Set
<1> QED BY <1>1, <1>2, <1>3, <1>4, <1>5, <1>6, <1>7, Zenon

\* A new breaker is published only after its callback and its entry are there.
LEMMA RegStore ==
  ASSUME RegInv, NEW r \in Request, Store(r)
  PROVE  RegInv'
<1> USE NamesAssumption, SettledFacts DEF RegInv, Proc, Label, Fresh, Bound, Retiring, Local
<1>1. RegShape'
  BY Zenon DEF RegShape, BreakerState, Entry, Store, Goto, Unlock
<1>2. WorkInv'
  BY Zenon DEF RegShape, WorkInv, Store, Goto, Unlock
<1>3. HoldInv'
  BY DEF RegShape, WorkInv, HoldInv, Store, Goto, Unlock
<1>4. KeptInv'
  BY DEF RegShape, WorkInv, HoldInv, KeptInv, FreshInv, Store, Goto, Unlock
<1>5. FreshInv'
  BY Zenon DEF RegShape, WorkInv, HoldInv, FreshInv, Store, Goto, Unlock
<1>6. HomeInv'
  BY Zenon, ZenonT(40) DEF RegShape, WorkInv, HoldInv, FreshInv, HomeInv, Store, Goto, Unlock
<1>7. SettledInv'
  BY DEF RegShape, WorkInv, HoldInv, KeptInv, FreshInv, HomeInv, SettledInv, TrackInv, ReadyInv, Store, Goto, Unlock
<1> QED BY <1>1, <1>2, <1>3, <1>4, <1>5, <1>6, <1>7, Zenon

\* A breaker that changes its state reports it, if it is attached, for the
\* target it was made for.
LEMMA TransitionFacts ==
  ASSUME RegShape, NEW o \in Object, NEW st \in BreakerState, home[o] \in Target, Transition(o, st)
  PROVE  /\ state' = [state EXCEPT ![o] = st] /\ state' \in [Object -> BreakerState]
         /\ targetStates' \in [Target -> Entry \cup {Absent}]
         /\ callback[o] = Absent => targetStates' = targetStates
         /\ callback[o] # Absent => targetStates' = [targetStates EXCEPT ![home[o]] =
                [service |-> callback[o], state |-> st]]
BY DEF RegShape, Transition, SetGauge, Entry

\* The table follows the breaker of a settled target, and a transition of any
\* other breaker leaves that target's entry alone.
LEMMA TransitionSettled ==
  ASSUME RegInv, NEW o \in Object, NEW st \in BreakerState, home[o] \in Target,
         home[o] \in Kept => breakers[home[o]] = o,
         Transition(o, st), UNCHANGED <<breakers, callback, pc, local>>
  PROVE  SettledInv'
<1>1. /\ state' = [state EXCEPT ![o] = st]
      /\ callback[o] = Absent => targetStates' = targetStates
      /\ callback[o] # Absent => targetStates' = [targetStates EXCEPT ![home[o]] =
             [service |-> callback[o], state |-> st]]
  BY TransitionFacts, Zenon DEF RegInv
<1>2. state \in [Object -> BreakerState] /\ targetStates \in [Target -> Entry \cup {Absent}]
      /\ breakers \in [Target -> Object \cup {Absent}]
  BY DEF RegInv, RegShape
<1>3. \A t \in Target : t # home[o] => targetStates'[t] = targetStates[t]
  BY <1>1, <1>2, Zenon
<1>4. \A x \in Object : x # o => state'[x] = state[x]
  BY <1>1, <1>2, Zenon
<1>5. ASSUME NEW t \in Settled, breakers[t] # Absent
      PROVE  /\ callback[breakers[t]] = Owner(t)
             /\ targetStates'[t] = [service |-> Owner(t), state |-> state'[breakers[t]]]
  <2>1. /\ callback[breakers[t]] = Owner(t)
        /\ targetStates[t] = [service |-> Owner(t), state |-> state[breakers[t]]]
        /\ t \in Target /\ t \in Kept /\ breakers[t] \in Object /\ home[breakers[t]] = t
        /\ Owner(t) # Absent
    BY <1>2, <1>5, SettledFacts, NamesAssumption DEF RegInv, SettledInv, TrackInv, ReadyInv, HomeInv
  <2>2. CASE home[o] = t
    <3>1. breakers[t] = o
      BY <2>1, <2>2, Zenon
    <3>2. targetStates' = [targetStates EXCEPT ![t] = [service |-> Owner(t), state |-> st]]
      BY <1>1, <2>1, <2>2, <3>1, Zenon
    <3>3. state'[o] = st
      BY <1>1, <1>2, Zenon
    <3> QED BY ONLY <1>2, <2>1, <3>1, <3>2, <3>3, Zenon
  <2>3. CASE home[o] # t
    BY <1>3, <1>4, <2>1, <2>3, Zenon
  <2> QED BY <2>2, <2>3, ZenonT(40)
<1>6. ASSUME NEW p \in Proc, local[p].target \in Settled, pc[p] \in Fresh
      PROVE  /\ state'[local[p].obj] = state[local[p].obj]
             /\ targetStates'[local[p].target] = targetStates[local[p].target]
  <2>1. /\ local[p].target \in Kept /\ local[p].target \in Target /\ local[p].obj \in Object
        /\ home[local[p].obj] = local[p].target /\ breakers[local[p].target] = Absent
    BY <1>6, SettledFacts, Zenon DEF RegInv, HoldInv, FreshInv
  <2>2. home[o] # local[p].target
    BY <2>1, NamesAssumption, Zenon
  <2> QED BY <1>3, <1>4, <2>1, <2>2, Zenon
<1>7. TrackInv'
  BY ONLY <1>5, UNCHANGED <<breakers, callback, pc, local>>, Zenon DEF TrackInv
<1>8. ReadyInv'
  BY ONLY RegInv, <1>6, UNCHANGED <<breakers, callback, pc, local>>, Zenon
     DEF RegInv, SettledInv, ReadyInv, Fresh
<1> QED BY ONLY <1>7, <1>8 DEF SettledInv

\* A request moves its breaker, and the callback moves the entry along.
LEMMA RegUse ==
  ASSUME RegInv, NEW r \in Request, Use(r)
  PROVE  RegInv'
<1> DEFINE o == local[r].obj
<1>1. PICK st \in BreakerState : Transition(o, st)
  BY DEF Use
<1>2. /\ o \in Object /\ home[o] = local[r].target /\ home[o] \in Target
      /\ home[o] \in Kept => breakers[home[o]] = o
  BY DEF RegInv, HoldInv, KeptInv, Use, Bound, Proc
<1>3. UNCHANGED <<cur, breakers, breakersMu, callback, home, pc, local, todo>>
  BY Zenon DEF Use
<1> HIDE DEF o
<1>4. WorkInv' /\ HoldInv'
  BY ONLY RegInv, <1>3, Zenon DEF RegInv, WorkInv, HoldInv
<1>5. KeptInv' /\ FreshInv' /\ HomeInv'
  BY ONLY RegInv, <1>3, Zenon DEF RegInv, KeptInv, FreshInv, HomeInv
<1>6. RegShape'
  <2>1. state' \in [Object -> BreakerState] /\ targetStates' \in [Target -> Entry \cup {Absent}]
    BY <1>1, <1>2, TransitionFacts, Zenon DEF RegInv
  <2> QED BY ONLY RegInv, <1>3, <2>1, Zenon DEF RegInv, RegShape
<1>7. SettledInv'
  BY ONLY RegInv, <1>1, <1>2, <1>3, TransitionSettled
<1> QED BY ONLY <1>4, <1>5, <1>6, <1>7 DEF RegInv

\* A request that ends leaves nothing behind.
LEMMA RegDepart ==
  ASSUME RegInv, NEW r \in Request, Depart(r)
  PROVE  RegInv'
<1> USE NamesAssumption, SettledFacts DEF RegInv, Proc, Label, Fresh, Bound, Retiring, Local
<1>1. RegShape'
  BY Zenon DEF RegShape, BreakerState, Entry, Depart, Goto, NoLocal
<1>2. WorkInv'
  BY Zenon DEF RegShape, WorkInv, Depart, Goto, NoLocal
<1>3. HoldInv'
  BY Zenon DEF RegShape, WorkInv, HoldInv, Depart, Goto, NoLocal
<1>4. KeptInv'
  BY Zenon DEF RegShape, WorkInv, HoldInv, KeptInv, FreshInv, Depart, Goto, NoLocal
<1>5. FreshInv'
  BY Zenon, Zenon DEF RegShape, WorkInv, HoldInv, FreshInv, Depart, Goto, NoLocal
<1>6. HomeInv'
  BY DEF RegShape, WorkInv, HoldInv, FreshInv, HomeInv, Depart, Goto, NoLocal
<1>7. SettledInv'
  BY Zenon DEF RegShape, WorkInv, HoldInv, KeptInv, FreshInv, HomeInv, SettledInv, TrackInv, ReadyInv, Depart, Goto, NoLocal
<1> QED BY <1>1, <1>2, <1>3, <1>4, <1>5, <1>6, <1>7, Zenon

\* A settled target that has a breaker is found bound: nothing is attached twice.
LEMMA RegEnsure ==
  ASSUME RegInv, NEW p \in Proc, Ensure(p)
  PROVE  RegInv'
<1> DEFINE e == targetStates[local[p].target]
           bound == e # Absent /\ e.service = local[p].service
<1>1. /\ pc[p] = "ensure" /\ pc'[p] = IF bound THEN IF p = Reloader THEN "range" ELSE "use"
                                               ELSE "attach"
      /\ pc' \in [Proc -> Label] /\ \A q \in Proc : q # p => pc'[q] = pc[q]
  BY Zenon DEF RegInv, RegShape, Label, Ensure, Goto, Resume
<1>2. UNCHANGED <<cur, breakers, state, callback, home, targetStates, local, todo>>
  BY Zenon DEF Ensure
<1>3. breakersMu' = breakersMu \/ (breakersMu = p /\ breakersMu' = Absent)
  BY Zenon DEF Ensure, Unlock
<1>4. ASSUME local[p].target \in Settled PROVE bound
  <2>1. /\ breakers[local[p].target] \in Object /\ breakers[local[p].target] # Absent
        /\ local[p].service = Owner(local[p].target)
        /\ local[p].target \in Target
    BY <1>1, <1>4, SettledFacts, NamesAssumption
       DEF RegInv, RegShape, WorkInv, HoldInv, KeptInv, Bound
  <2>2. /\ e = [service |-> local[p].service, state |-> state[breakers[local[p].target]]]
        /\ e \in Entry \cup {Absent}
    BY <1>4, <2>1, Zenon DEF RegInv, RegShape, SettledInv, TrackInv
  <2>3. state[breakers[local[p].target]] \in BreakerState /\ local[p].service \in Service
    BY <1>4, <2>1, SettledFacts, Zenon DEF RegInv, RegShape
  <2>4. [service |-> local[p].service, state |-> state[breakers[local[p].target]]] \in Entry
    BY ONLY <2>3 DEF Entry
  <2>5. e # Absent
    BY ONLY <2>2, <2>4, NamesAssumption, Zenon
  <2>6. e.service = local[p].service
    BY ONLY <2>2
  <2> QED BY ONLY <2>5, <2>6, ZenonT(20)
<1> HIDE DEF bound
<1>5. RegShape'
  <2>1. pc'[Reloader] # "idle" => pc[Reloader] # "idle"
    BY ONLY <1>1, Zenon DEF Proc
  <2> QED BY ONLY RegInv, <1>1, <1>2, <1>3, <2>1 DEF RegInv, RegShape
<1>6. WorkInv'
  BY ONLY RegInv, <1>1, <1>2, Zenon DEF RegInv, WorkInv, Bound, Fresh
<1>7. HoldInv'
  BY ONLY RegInv, <1>1, <1>2, Zenon DEF RegInv, HoldInv, Bound, Fresh, Retiring
<1>8. KeptInv' /\ HomeInv'
  BY ONLY RegInv, <1>1, <1>2, Zenon DEF RegInv, KeptInv, HomeInv, Bound, Retiring
<1>9. FreshInv'
  BY ONLY RegInv, <1>1, <1>2, <1>3, p \in Proc, ZenonT(40) DEF RegInv, FreshInv, Fresh, Proc
<1>10. TrackInv' /\ ReadyInv'
  BY ONLY RegInv, <1>1, <1>2, <1>4 DEF RegInv, SettledInv, TrackInv, ReadyInv
<1> QED BY ONLY <1>5, <1>6, <1>7, <1>8, <1>9, <1>10 DEF RegInv, SettledInv

\* Only a new breaker of a settled target is given a callback.
LEMMA RegAttach ==
  ASSUME RegInv, NEW p \in Proc, Attach(p)
  PROVE  RegInv'
<1> DEFINE o == local[p].obj
<1>1. /\ pc[p] \in {"attach", "attach_new"}
      /\ pc'[p] = IF pc[p] = "attach" THEN "report" ELSE "report_new"
      /\ pc' \in [Proc -> Label] /\ \A q \in Proc : q # p => pc'[q] = pc[q]
  BY Zenon DEF RegInv, RegShape, Label, Attach, Goto
<1>2. /\ o \in Object /\ home[o] = local[p].target
      /\ local[p].service \in Service /\ state[o] \in BreakerState
      /\ local[p].target \in Settled =>
            /\ pc[p] = "attach_new" /\ local[p].service = Owner(local[p].target)
            /\ breakers[local[p].target] = Absent
  BY <1>1, SettledFacts, ZenonT(40)
     DEF RegInv, RegShape, WorkInv, HoldInv, FreshInv, SettledInv, ReadyInv, Bound, Fresh
<1>3. UNCHANGED <<cur, breakers, breakersMu, state, home, targetStates, todo>>
  BY Zenon DEF Attach
<1>4. /\ local' \in [Proc -> Local] /\ \A q \in Proc : q # p => local'[q] = local[q]
      /\ local'[p].target = local[p].target /\ local'[p].service = local[p].service
      /\ local'[p].obj = o /\ local'[p].seen = state[o]
  BY <1>2, SetField DEF RegInv, Attach
<1>5. callback' = [callback EXCEPT ![o] = local[p].service]
  BY Zenon DEF Attach
<1> HIDE DEF o
<1>6. /\ callback'[o] = local[p].service /\ \A x \in Object : x # o => callback'[x] = callback[x]
      /\ callback' \in [Object -> Service \cup {Absent}]
  BY <1>2, <1>5, Zenon DEF RegInv, RegShape
<1>7. RegShape'
  <2>1. pc'[Reloader] # "idle" => pc[Reloader] # "idle"
    BY ONLY <1>1 DEF Proc
  <2> QED BY ONLY RegInv, <1>1, <1>3, <1>4, <1>6, <2>1, Zenon DEF RegInv, RegShape
<1>8. WorkInv'
  BY ONLY RegInv, <1>1, <1>2, <1>3, <1>4, ZenonT(40) DEF RegInv, WorkInv, Bound, Fresh
<1>9. HoldInv'
  BY ONLY RegInv, <1>1, <1>2, <1>3, <1>4 DEF RegInv, HoldInv, Bound, Fresh, Retiring, o
<1>10. KeptInv' /\ HomeInv'
  <2>1. KeptInv'
    <3>1. \A q \in Proc : local'[q].target = local[q].target /\ local'[q].obj = local[q].obj
      BY ONLY <1>4 DEF o
    <3>2. \A q \in Proc : /\ pc'[q] \in Bound => pc[q] \in Bound
                          /\ pc'[q] \in Retiring => pc[q] \in Retiring
      BY ONLY <1>1 DEF Bound, Retiring
    <3> QED BY ONLY RegInv, <1>3, <3>1, <3>2, ZenonT(40) DEF RegInv, KeptInv
  <2>2. HomeInv'
    BY ONLY RegInv, <1>3 DEF RegInv, HomeInv
  <2> QED BY ONLY <2>1, <2>2
<1>11. FreshInv'
  BY ONLY RegInv, <1>1, <1>3, <1>4, ZenonT(40) DEF RegInv, FreshInv, Fresh
<1>12. TrackInv'
  <2>1. ASSUME NEW t \in Settled, breakers[t] # Absent PROVE breakers[t] \in Object \ {o}
    BY <1>2, <2>1, SettledFacts, ZenonT(20) DEF RegInv, RegShape, HomeInv
  <2> QED BY ONLY RegInv, <1>3, <1>6, <2>1, Zenon DEF RegInv, SettledInv, TrackInv
<1>13. ReadyInv'
  <2>1. ASSUME NEW q \in Proc, q # p, local[q].target \in Settled, pc[q] \in {"report_new", "store"}
        PROVE  callback'[local[q].obj] = callback[local[q].obj]
    <3>1. /\ breakersMu = q /\ local[q].obj \in Object
          /\ home[local[q].obj] = local[q].target
      BY <2>1, Zenon DEF RegInv, HoldInv, FreshInv, Fresh
    <3>2. pc[p] # "attach_new"
      BY <2>1, <3>1, ZenonT(40) DEF RegInv, FreshInv, Fresh
    <3> QED BY <1>2, <1>6, <2>1, <3>1, <3>2, Zenon
  <2>2. ASSUME local[p].target \in Settled
        PROVE  /\ pc'[p] = "report_new" /\ callback'[local'[p].obj] = Owner(local'[p].target)
               /\ local'[p].seen = state'[local'[p].obj]
    BY ONLY <1>1, <1>2, <1>3, <1>4, <1>6, <2>2
  <2>3. ASSUME NEW q \in Proc, local'[q].target \in Settled
        PROVE  /\ pc'[q] \notin {"attach", "report"}
               /\ pc'[q] \in {"report_new", "store"} =>
                     callback'[local'[q].obj] = Owner(local'[q].target)
               /\ pc'[q] = "report_new" => local'[q].seen = state'[local'[q].obj]
               /\ pc'[q] = "store" => targetStates'[local'[q].target] =
                     [service |-> Owner(local'[q].target), state |-> state'[local'[q].obj]]
    <3>1. CASE q = p
      BY ONLY <1>4, <2>2, <2>3, <3>1, Zenon
    <3>2. CASE q # p
      <4>1. pc'[q] = pc[q] /\ local'[q] = local[q]
        BY ONLY <1>1, <1>4, <3>2, q \in Proc, Zenon
      <4>2. local[q].target \in Settled
        BY ONLY <2>3, <4>1
      <4>3. /\ pc[q] \notin {"attach", "report"}
            /\ pc[q] \in {"report_new", "store"} => callback[local[q].obj] = Owner(local[q].target)
            /\ pc[q] = "report_new" => local[q].seen = state[local[q].obj]
            /\ pc[q] = "store" => targetStates[local[q].target] =
                  [service |-> Owner(local[q].target), state |-> state[local[q].obj]]
        BY ONLY RegInv, <4>2, q \in Proc, Zenon DEF RegInv, SettledInv, ReadyInv
      <4> QED BY ONLY <1>3, <2>1, <3>2, <4>1, <4>2, <4>3, q \in Proc, ZenonT(40)
    <3> QED BY ONLY <3>1, <3>2, Zenon
  <2> QED BY ONLY <2>3 DEF ReadyInv
<1> QED BY ONLY <1>7, <1>8, <1>9, <1>10, <1>11, <1>12, <1>13, Zenon DEF RegInv, SettledInv

\* The state seen under b.mu is still the state when a new breaker reports it:
\* nobody else can reach it yet.
LEMMA RegReport ==
  ASSUME RegInv, NEW p \in Proc, Report(p)
  PROVE  RegInv'
<1>1. /\ pc[p] \in {"report", "report_new"}
      /\ pc'[p] = IF pc[p] = "report_new" THEN "store" ELSE IF p = Reloader THEN "range" ELSE "use"
      /\ pc' \in [Proc -> Label] /\ \A q \in Proc : q # p => pc'[q] = pc[q]
  BY Zenon, Zenon DEF RegInv, RegShape, Label, Report, Goto, Resume
<1>2. /\ local' \in [Proc -> Local] /\ \A q \in Proc : q # p => local'[q] = local[q]
      /\ local'[p].target = local[p].target /\ local'[p].service = local[p].service
      /\ local'[p].obj = local[p].obj
  BY SetField, Zenon DEF RegInv, Report
<1>3. UNCHANGED <<cur, breakers, state, callback, home, todo>>
  BY Zenon DEF Report
<1>4. /\ local[p].target \in Target /\ local[p].service \in Service /\ local[p].seen \in BreakerState
      /\ Routed(local[p].target, local[p].service)
      /\ local[p].target \in Kept /\ pc[p] = "report" => breakers[local[p].target] = local[p].obj
      /\ pc[p] = "report_new" => p \in Request /\ breakersMu = p
      /\ breakersMu \in Request \cup {Absent}
  BY <1>1, Zenon DEF RegInv, RegShape, WorkInv, KeptInv, FreshInv, Bound, Fresh
<1>5. /\ pc[p] = "report_new" => breakersMu' = breakersMu
      /\ breakersMu' = breakersMu \/ (breakersMu = p /\ breakersMu' = Absent)
  BY Zenon DEF Report, Unlock
<1>6. targetStates' = [targetStates EXCEPT ![local[p].target] =
                          [service |-> local[p].service, state |-> local[p].seen]]
  BY DEF Report, SetGauge
<1>7. targetStates \in [Target -> Entry \cup {Absent}] /\ targetStates' \in [Target -> Entry \cup {Absent}]
  <2>1. targetStates \in [Target -> Entry \cup {Absent}]
    BY Zenon DEF RegInv, RegShape
  <2>2. [service |-> local[p].service, state |-> local[p].seen] \in Entry
    BY ONLY <1>4, ZenonT(20) DEF Entry
  <2> QED BY ONLY <1>6, <2>1, <2>2, Zenon
<1>8. RegShape'
  <2>1. pc'[Reloader] # "idle" => pc[Reloader] # "idle"
    BY ONLY <1>1 DEF Proc
  <2> QED BY ONLY RegInv, <1>1, <1>2, <1>3, <1>4, <1>5, <1>7, <2>1 DEF RegInv, RegShape
<1>9. WorkInv' /\ HoldInv'
  BY ONLY RegInv, <1>1, <1>2, <1>3, <1>4, ZenonT(40) DEF RegInv, WorkInv, HoldInv, Bound, Fresh, Retiring
<1>10. KeptInv' /\ HomeInv'
  BY ONLY RegInv, <1>1, <1>2, <1>3, <1>4, ZenonT(40) DEF RegInv, KeptInv, HomeInv, Bound, Retiring
<1>11. FreshInv'
  BY ONLY RegInv, <1>1, <1>2, <1>3, <1>4, <1>5, Zenon DEF RegInv, FreshInv, Fresh, Proc
<1>12. SettledInv'
  <2>1. ASSUME local[p].target \in Settled
        PROVE  /\ pc[p] = "report_new" /\ breakers[local[p].target] = Absent
               /\ local[p].service = Owner(local[p].target) /\ local[p].seen = state[local[p].obj]
               /\ callback[local[p].obj] = Owner(local[p].target)
               /\ \A q \in Proc : local[q].target = local[p].target /\ pc[q] = "store" => q = p
    BY <1>1, <1>4, <2>1, SettledFacts, Zenon DEF RegInv, SettledInv, TrackInv, ReadyInv, FreshInv, Fresh
  <2>2. /\ targetStates'[local[p].target] = [service |-> local[p].service, state |-> local[p].seen]
        /\ \A t \in Target : t # local[p].target => targetStates'[t] = targetStates[t]
    BY ONLY <1>4, <1>6, <1>7
  <2>3. ASSUME NEW t \in Settled, breakers[t] # Absent PROVE targetStates'[t] = targetStates[t]
    BY ONLY <2>1, <2>2, <2>3, SettledFacts, Zenon
  <2>4. ASSUME NEW q \in Proc, q # p, local[q].target \in Settled, pc[q] = "store"
        PROVE  targetStates'[local[q].target] = targetStates[local[q].target]
    BY ONLY <2>1, <2>2, <2>4, SettledFacts, Zenon
  <2>5. TrackInv'
    BY ONLY RegInv, <1>3, <2>3, ZenonT(40) DEF RegInv, SettledInv, TrackInv
  <2>6. ReadyInv'
    <3>1. ASSUME NEW q \in Proc, local'[q].target \in Settled
          PROVE  /\ pc'[q] \notin {"attach", "report"}
                 /\ pc'[q] \in {"report_new", "store"} =>
                       callback'[local'[q].obj] = Owner(local'[q].target)
                 /\ pc'[q] = "report_new" => local'[q].seen = state'[local'[q].obj]
                 /\ pc'[q] = "store" => targetStates'[local'[q].target] =
                       [service |-> Owner(local'[q].target), state |-> state'[local'[q].obj]]
      <4>1. CASE q = p
        <5>1. local[p].target \in Settled
          BY ONLY <1>2, <3>1, <4>1, ZenonT(20)
        <5>2. pc'[p] = "store"
          BY ONLY <1>1, <2>1, <5>1
        <5> QED BY ONLY <1>2, <1>3, <2>1, <2>2, <4>1, <5>1, <5>2
      <4>2. CASE q # p
        <5>1. pc'[q] = pc[q] /\ local'[q] = local[q]
          BY ONLY <1>1, <1>2, <4>2, q \in Proc
        <5>2. local[q].target \in Settled
          BY ONLY <3>1, <5>1
        <5>3. /\ pc[q] \notin {"attach", "report"}
              /\ pc[q] \in {"report_new", "store"} => callback[local[q].obj] = Owner(local[q].target)
              /\ pc[q] = "report_new" => local[q].seen = state[local[q].obj]
              /\ pc[q] = "store" => targetStates[local[q].target] =
                    [service |-> Owner(local[q].target), state |-> state[local[q].obj]]
          BY ONLY RegInv, <5>2, q \in Proc, Zenon DEF RegInv, SettledInv, ReadyInv
        <5> QED BY ONLY <1>3, <2>4, <4>2, <5>1, <5>2, <5>3, q \in Proc, Zenon
      <4> QED BY ONLY <4>1, <4>2, ZenonT(40)
    <3> QED BY ONLY <3>1 DEF ReadyInv
  <2> QED BY ONLY <2>5, <2>6 DEF SettledInv
<1> QED BY ONLY <1>8, <1>9, <1>10, <1>11, <1>12 DEF RegInv

\* The administrator's reset moves a breaker like a request does.
LEMMA RegReset ==
  ASSUME RegInv, NEW t \in Target, Reset(t)
  PROVE  RegInv'
<1>1. Transition(breakers[t], "closed") /\ "closed" \in BreakerState
  BY DEF Reset, BreakerState
<1>2. breakers[t] \in Object /\ home[breakers[t]] = t
  BY Zenon DEF RegInv, RegShape, HomeInv, Reset
<1>3. UNCHANGED <<cur, breakers, breakersMu, callback, home, pc, local, todo>>
  BY DEF Reset
<1>4. WorkInv' /\ HoldInv'
  BY ONLY RegInv, <1>3, Zenon DEF RegInv, WorkInv, HoldInv
<1>5. KeptInv' /\ FreshInv' /\ HomeInv'
  BY ONLY RegInv, <1>3, Zenon DEF RegInv, KeptInv, FreshInv, HomeInv
<1>6. RegShape'
  <2>1. state' \in [Object -> BreakerState] /\ targetStates' \in [Target -> Entry \cup {Absent}]
    BY <1>1, <1>2, TransitionFacts, Zenon DEF RegInv
  <2> QED BY ONLY RegInv, <1>3, <2>1, Zenon DEF RegInv, RegShape
<1>7. SettledInv'
  BY <1>1, <1>2, <1>3, TransitionSettled
<1> QED BY ONLY <1>4, <1>5, <1>6, <1>7 DEF RegInv

\* The Range of a reload goes on with a target that is kept, or starts to retire
\* one that is not.
LEMMA RegVisit ==
  ASSUME RegInv, NEW t \in Target, Visit(t)
  PROVE  RegInv'
<1> USE NamesAssumption, SettledFacts DEF RegInv, Proc, Label, Fresh, Bound, Retiring, Local
<1> DEFINE s == Snapshots[cur + 1].owner[t]
<1>0. cur + 1 \in 1 .. Len(Snapshots) /\ pc[Reloader] = "range"
  BY SnapshotsAssumption DEF RegShape, Visit
<1>8. /\ s # Absent => s \in Service /\ Routed(t, s)
      /\ s = Absent => t \notin Kept
  BY <1>0, SnapshotFacts
<1>9. \/ UNCHANGED <<local, pc>>
      \/ /\ breakers[t] \in Object /\ home[breakers[t]] = t
         /\ local' = [local EXCEPT ![Reloader].target = t, ![Reloader].service = s,
                                   ![Reloader].obj = breakers[t]]
         /\ pc' = [pc EXCEPT ![Reloader] = IF s = Absent THEN "detach" ELSE "ensure"]
  BY DEF RegShape, HomeInv, Visit, Goto
<1> HIDE DEF s
<1>1. RegShape'
  BY DEF RegShape, BreakerState, Entry, Visit, Goto
<1>2. WorkInv'
  BY <1>0, <1>8, <1>9 DEF RegShape, WorkInv
<1>3. HoldInv'
  BY <1>0, <1>8, <1>9 DEF RegShape, HoldInv, Visit
<1>4. KeptInv'
  BY <1>0, <1>8, <1>9 DEF RegShape, KeptInv, Visit
<1>5. FreshInv'
  BY DEF RegShape, WorkInv, HoldInv, FreshInv, Visit, Goto
<1>6. HomeInv'
  BY Zenon DEF RegShape, WorkInv, HoldInv, FreshInv, HomeInv, Visit, Goto
<1>7. SettledInv'
  BY DEF RegShape, WorkInv, HoldInv, KeptInv, FreshInv, HomeInv, SettledInv, TrackInv, ReadyInv, Visit, Goto
<1> QED BY <1>1, <1>2, <1>3, <1>4, <1>5, <1>6, <1>7

\* A reload starts from the targets that have a breaker.
LEMMA RegBeginReload ==
  ASSUME RegInv, BeginReload
  PROVE  RegInv'
<1>1. /\ Reloader \in Proc /\ pc[Reloader] = "idle" /\ pc'[Reloader] = "range"
      /\ pc' \in [Proc -> Label] /\ \A p \in Proc : p # Reloader => pc'[p] = pc[p]
  BY DEF RegInv, RegShape, Proc, Label, BeginReload, Goto
<1>2. UNCHANGED <<cur, breakers, breakersMu, state, callback, home, targetStates, local>>
  BY Zenon DEF BeginReload
<1>3. RegShape'
  BY <1>1, <1>2, Zenon DEF RegInv, RegShape, BeginReload
<1>4. WorkInv'
  BY ONLY RegInv, <1>1, <1>2 DEF RegInv, WorkInv, Bound, Fresh
<1>5. HoldInv'
  BY ONLY RegInv, <1>1, <1>2, Zenon DEF RegInv, HoldInv, Bound, Fresh, Retiring
<1>6. KeptInv'
  BY ONLY RegInv, <1>1, <1>2, Zenon DEF RegInv, KeptInv, Bound, Retiring
<1>7. FreshInv'
  BY ONLY RegInv, <1>1, <1>2, Zenon DEF RegInv, FreshInv, Fresh
<1>8. HomeInv'
  BY ONLY RegInv, <1>1, <1>2, Zenon DEF RegInv, HomeInv
<1>20. TrackInv'
  BY ONLY RegInv, <1>1, <1>2, ZenonT(40) DEF RegInv, SettledInv, TrackInv
<1>21. ReadyInv'
  BY ONLY RegInv, <1>1, <1>2 DEF RegInv, SettledInv, ReadyInv
<1> QED BY ONLY <1>3, <1>4, <1>5, <1>6, <1>7, <1>8, <1>20, <1>21, Zenon DEF RegInv, SettledInv

\* Only a breaker of a target that is not kept loses its callback.
LEMMA RegDetach ==
  ASSUME RegInv, Detach
  PROVE  RegInv'
<1>1. /\ Reloader \in Proc /\ pc[Reloader] = "detach" /\ pc'[Reloader] = "delete"
      /\ pc' \in [Proc -> Label] /\ \A p \in Proc : p # Reloader => pc'[p] = pc[p]
  BY Zenon DEF RegInv, RegShape, Proc, Label, Detach, Goto
<1>2. UNCHANGED <<cur, breakers, breakersMu, state, home, targetStates, local, todo>>
  BY Zenon DEF Detach
<1>9. /\ callback' = [callback EXCEPT ![local[Reloader].obj] = Absent]
      /\ callback' \in [Object -> Service \cup {Absent}]
  BY Zenon, ZenonT(40) DEF RegInv, RegShape, Detach
<1>10. /\ home[local[Reloader].obj] = local[Reloader].target /\ local[Reloader].target \notin Kept
       /\ callback \in [Object -> Service \cup {Absent}]
  BY ONLY RegInv, <1>1 DEF RegInv, RegShape, HoldInv, KeptInv, Retiring
<1>11. ASSUME NEW o \in Object, home[o] \in Kept PROVE callback'[o] = callback[o]
  BY ONLY <1>9, <1>10, <1>11, Zenon
<1>12. ASSUME NEW t \in Settled, breakers[t] # Absent
       PROVE  breakers[t] \in Object /\ home[breakers[t]] \in Kept
  BY <1>12, SettledFacts DEF RegInv, RegShape, HomeInv
<1>13. ASSUME NEW p \in Proc, local[p].target \in Settled, pc[p] \in {"report_new", "store"}
       PROVE  local[p].obj \in Object /\ home[local[p].obj] \in Kept
  BY <1>13, SettledFacts DEF RegInv, HoldInv, Fresh
<1>3. RegShape'
  BY <1>1, <1>2, <1>9 DEF RegInv, RegShape
<1>4. WorkInv'
  BY ONLY RegInv, <1>1, <1>2, Zenon DEF RegInv, WorkInv, Bound, Fresh
<1>5. HoldInv'
  BY ONLY RegInv, <1>1, <1>2, Zenon DEF RegInv, HoldInv, Bound, Fresh, Retiring
<1>6. KeptInv'
  BY ONLY RegInv, <1>1, <1>2, Zenon DEF RegInv, KeptInv, Bound, Retiring
<1>7. FreshInv'
  BY ONLY RegInv, <1>1, <1>2, Zenon DEF RegInv, FreshInv, Fresh
<1>8. HomeInv'
  BY ONLY RegInv, <1>1, <1>2, Zenon DEF RegInv, HomeInv
<1>20. TrackInv'
  BY ONLY RegInv, <1>1, <1>2, <1>11, <1>12 DEF RegInv, SettledInv, TrackInv
<1>21. ReadyInv'
  BY ONLY RegInv, <1>1, <1>2, <1>11, <1>13, ZenonT(40) DEF RegInv, SettledInv, ReadyInv
<1> QED BY ONLY <1>3, <1>4, <1>5, <1>6, <1>7, <1>8, <1>20, <1>21, Zenon DEF RegInv, SettledInv

\* Only a target that is not kept loses its breaker.
LEMMA RegDelete ==
  ASSUME RegInv, Delete
  PROVE  RegInv'
<1>1. /\ Reloader \in Proc /\ pc[Reloader] = "delete" /\ pc'[Reloader] = "remove"
      /\ pc' \in [Proc -> Label] /\ \A p \in Proc : p # Reloader => pc'[p] = pc[p]
  BY ZenonT(20) DEF RegInv, RegShape, Proc, Label, Delete, Goto
<1>2. UNCHANGED <<cur, breakersMu, state, callback, home, targetStates, local, todo>>
  BY Zenon DEF Delete
<1>9. /\ breakers' = [breakers EXCEPT ![local[Reloader].target] = Absent]
      /\ breakers \in [Target -> Object \cup {Absent}] /\ breakers' \in [Target -> Object \cup {Absent}]
  BY Zenon DEF RegInv, RegShape, Delete
<1>10. local[Reloader].target \notin Kept
  BY ONLY RegInv, <1>1, Zenon DEF RegInv, KeptInv, Retiring
<1>11. \A t \in Kept : t \in Target /\ breakers'[t] = breakers[t]
  BY ONLY <1>9, <1>10, SettledFacts
<1>12. \A t \in Target : breakers'[t] = breakers[t] \/ breakers'[t] = Absent
  BY ONLY <1>9
<1>13. \A p \in Proc : pc[p] \in Fresh => local[p].target \in Target
  BY ONLY RegInv, ZenonT(20) DEF RegInv, HoldInv
<1>3. RegShape'
  BY <1>1, <1>2, <1>9 DEF RegInv, RegShape
<1>4. WorkInv'
  BY ONLY RegInv, <1>1, <1>2, Zenon DEF RegInv, WorkInv, Bound, Fresh
<1>5. HoldInv'
  BY ONLY RegInv, <1>1, <1>2, Zenon DEF RegInv, HoldInv, Bound, Fresh, Retiring
<1>6. KeptInv'
  BY ONLY RegInv, <1>1, <1>2, <1>11, Zenon DEF RegInv, KeptInv, Bound, Retiring
<1>7. FreshInv'
  BY ONLY RegInv, <1>1, <1>2, <1>12, <1>13, Zenon DEF RegInv, FreshInv, Fresh
<1>8. HomeInv'
  BY ONLY RegInv, <1>1, <1>2, <1>12, ZenonT(40) DEF RegInv, HomeInv
<1>20. TrackInv'
  BY ONLY RegInv, <1>1, <1>2, <1>11, SettledFacts DEF RegInv, SettledInv, TrackInv
<1>21. ReadyInv'
  BY ONLY RegInv, <1>1, <1>2, Zenon DEF RegInv, SettledInv, ReadyInv
<1> QED BY ONLY <1>3, <1>4, <1>5, <1>6, <1>7, <1>8, <1>20, <1>21 DEF RegInv, SettledInv

\* Only a target that is not kept loses its entry.
LEMMA RegRemove ==
  ASSUME RegInv, Remove
  PROVE  RegInv'
<1>1. /\ Reloader \in Proc /\ pc[Reloader] = "remove" /\ pc'[Reloader] = "range"
      /\ pc' \in [Proc -> Label] /\ \A p \in Proc : p # Reloader => pc'[p] = pc[p]
  BY Zenon DEF RegInv, RegShape, Proc, Label, Remove, Goto
<1>2. UNCHANGED <<cur, breakers, breakersMu, state, callback, home, local, todo>>
  BY DEF Remove
<1>9. /\ targetStates' = targetStates \/ targetStates' = [targetStates EXCEPT ![local[Reloader].target] = Absent]
      /\ targetStates \in [Target -> Entry \cup {Absent}] /\ targetStates' \in [Target -> Entry \cup {Absent}]
  BY Zenon DEF RegInv, RegShape, Remove, RemoveTarget
<1>10. local[Reloader].target \notin Kept
  BY ONLY RegInv, <1>1 DEF RegInv, KeptInv, Retiring
<1>11. \A t \in Settled : targetStates'[t] = targetStates[t]
  BY ONLY <1>9, <1>10, SettledFacts, ZenonT(40)
<1>3. RegShape'
  BY <1>1, <1>2, <1>9 DEF RegInv, RegShape
<1>4. WorkInv'
  BY ONLY RegInv, <1>1, <1>2, Zenon DEF RegInv, WorkInv, Bound, Fresh
<1>5. HoldInv'
  BY ONLY RegInv, <1>1, <1>2, Zenon DEF RegInv, HoldInv, Bound, Fresh, Retiring
<1>6. KeptInv'
  BY ONLY RegInv, <1>1, <1>2, Zenon DEF RegInv, KeptInv, Bound, Retiring
<1>7. FreshInv'
  BY ONLY RegInv, <1>1, <1>2, Zenon DEF RegInv, FreshInv, Fresh
<1>8. HomeInv'
  BY ONLY RegInv, <1>1, <1>2, Zenon DEF RegInv, HomeInv
<1>20. TrackInv'
  BY ONLY RegInv, <1>1, <1>2, <1>11, Zenon DEF RegInv, SettledInv, TrackInv
<1>21. ReadyInv'
  BY ONLY RegInv, <1>1, <1>2, <1>11, ZenonT(60) DEF RegInv, SettledInv, ReadyInv
<1> QED BY ONLY <1>3, <1>4, <1>5, <1>6, <1>7, <1>8, <1>20, <1>21 DEF RegInv, SettledInv

\* The new snapshot routes to kept targets as the old one did.
LEMMA RegSwapSnapshot ==
  ASSUME RegInv, SwapSnapshot
  PROVE  RegInv'
<1>1. /\ Reloader \in Proc /\ pc[Reloader] = "range" /\ pc'[Reloader] = "idle"
      /\ pc' \in [Proc -> Label] /\ \A p \in Proc : p # Reloader => pc'[p] = pc[p]
  BY DEF RegInv, RegShape, Proc, Label, SwapSnapshot, Goto
<1>2. UNCHANGED <<breakers, breakersMu, state, callback, home, targetStates, todo>>
  BY Zenon DEF SwapSnapshot
<1>9. /\ local' \in [Proc -> Local] /\ \A p \in Proc : p # Reloader => local'[p] = local[p]
      /\ local'[Reloader].target = Absent
  BY <1>1, Zenon DEF RegInv, RegShape, Local, SwapSnapshot, NoLocal
<1>10. cur' \in 1 .. Len(Snapshots)
  BY <1>1, SnapshotsAssumption DEF RegInv, RegShape, SwapSnapshot
<1>3. RegShape'
  BY <1>1, <1>2, <1>9, <1>10, Zenon DEF RegInv, RegShape
<1>4. WorkInv'
  BY ONLY RegInv, <1>1, <1>2, <1>9, Zenon DEF RegInv, WorkInv, Bound, Fresh
<1>5. HoldInv'
  BY ONLY RegInv, <1>1, <1>2, <1>9, ZenonT(20) DEF RegInv, HoldInv, Bound, Fresh, Retiring
<1>6. KeptInv'
  BY ONLY RegInv, <1>1, <1>2, <1>9 DEF RegInv, KeptInv, Bound, Retiring
<1>7. FreshInv'
  BY ONLY RegInv, <1>1, <1>2, <1>9, ZenonT(40) DEF RegInv, FreshInv, Fresh
<1>8. HomeInv'
  BY ONLY RegInv, <1>1, <1>2, Zenon DEF RegInv, HomeInv
<1>20. TrackInv'
  BY ONLY RegInv, <1>1, <1>2 DEF RegInv, SettledInv, TrackInv
<1>21. ReadyInv'
  <2>1. ASSUME NEW p \in Proc, p # Reloader PROVE pc'[p] = pc[p] /\ local'[p] = local[p]
    BY ONLY <1>1, <1>9, <2>1
  <2>2. ReadyInv /\ pc'[Reloader] = "idle"
    BY ONLY RegInv, <1>1 DEF RegInv, SettledInv
  <2> QED BY ONLY <1>2, <2>1, <2>2, Zenon DEF ReadyInv
<1> QED BY ONLY <1>3, <1>4, <1>5, <1>6, <1>7, <1>8, <1>20, <1>21 DEF RegInv, SettledInv

\* The empty registry.
LEMMA RegStart == RegistryInit => RegInv
<1> SUFFICES ASSUME RegistryInit PROVE RegInv
  OBVIOUS
<1> USE DEF RegistryInit, Proc
<1>1. RegShape
  BY SnapshotsAssumption DEF RegShape, NoLocal, Local, Label, BreakerState
<1>2. WorkInv /\ HoldInv /\ KeptInv /\ FreshInv
  BY Zenon DEF WorkInv, HoldInv, KeptInv, FreshInv, Fresh, Bound, Retiring
<1>3. HomeInv /\ SettledInv
  BY SettledFacts, Zenon DEF HomeInv, SettledInv, TrackInv, ReadyInv
<1> QED BY <1>1, <1>2, <1>3 DEF RegInv

\* Every step of a request or of a reload keeps the invariant.
LEMMA RegStep == RegInv /\ [RegistryNext]_registryVars => RegInv'
<1> SUFFICES ASSUME RegInv, [RegistryNext]_registryVars PROVE RegInv'
  BY Zenon
<1>1. CASE \E r \in Request : \/ Arrive(r) \/ Load(r) \/ Lock(r) \/ Store(r) \/ Use(r) \/ Depart(r)
  BY <1>1, RegArrive, RegLoad, RegLock, RegStore, RegUse, RegDepart
<1>2. CASE \E p \in Proc : Ensure(p) \/ Attach(p) \/ Report(p)
  BY <1>2, RegEnsure, RegAttach, RegReport
<1>3. CASE \E t \in Target : Reset(t) \/ Visit(t)
  BY <1>3, RegReset, RegVisit
<1>4. CASE BeginReload \/ Detach \/ Delete \/ Remove \/ SwapSnapshot
  BY <1>4, RegBeginReload, RegDetach, RegDelete, RegRemove, RegSwapSnapshot
<1>5. CASE UNCHANGED registryVars
  BY <1>5, Zenon DEF registryVars, RegInv, RegShape, WorkInv, HoldInv, KeptInv, FreshInv, HomeInv, SettledInv, TrackInv, ReadyInv
<1> QED BY <1>1, <1>2, <1>3, <1>4, <1>5 DEF RegistryNext

\* The inductive invariant holds in every reachable state.
LEMMA RegInvariant == RegistrySpec => []RegInv
BY RegStart, RegStep, PTL DEF RegistrySpec

\* Two requests that meet a target for the first time, a request and a reload:
\* whoever has the breaker of a target no configuration drops has the one in the
\* map (registry.go:57), for any targets, routings and number of requests.
THEOREM OneBreakerSafety == RegistrySpec => []OneBreakerPerTarget
<1>1. RegInv => OneBreakerPerTarget
  BY DEF RegInv, KeptInv, OneBreakerPerTarget, Bound, Proc
<1> QED BY <1>1, RegInvariant, PTL

-----------------------------------------------------------------------------
\* The series are those that setGauge would compute from the table now.
SeriesInv == gauge = [s \in Service |-> Aggregate(targetStates, s)]

\* A target's entry counts for no service but its own.
LEMMA AggregateElsewhere ==
  ASSUME NEW table \in [Target -> Entry \cup {Absent}], NEW t \in Target,
         NEW e \in Entry \cup {Absent}, NEW s \in Service,
         table[t] = Absent \/ table[t].service # s, e = Absent \/ e.service # s
  PROVE  Aggregate([table EXCEPT ![t] = e], s) = Aggregate(table, s)
<1> DEFINE changed == [table EXCEPT ![t] = e]
<1>1. \A u \in Target : /\ changed[u] # Absent /\ changed[u].service = s <=> table[u] # Absent /\ table[u].service = s
                        /\ u # t => changed[u] = table[u]
  BY Zenon
<1>2. {u \in Target : changed[u] # Absent /\ changed[u].service = s}
        = {u \in Target : table[u] # Absent /\ table[u].service = s}
  BY <1>1, Zenon
<1>3. \A u \in Target : table[u] # Absent /\ table[u].service = s => changed[u] = table[u]
  BY <1>1
<1> HIDE DEF changed
<1>4. StatesOf(changed, s) = StatesOf(table, s)
  BY <1>2, <1>3 DEF StatesOf
<1> QED BY <1>4, Zenon DEF Aggregate, changed

\* setGauge recomputes every series its change of the table touches.
LEMMA SetGaugeSeries ==
  ASSUME RegShape, SeriesInv, NEW t \in Target, NEW s \in Service, NEW st \in BreakerState,
         SetGauge(t, s, st)
  PROVE  SeriesInv'
<1> DEFINE e == [service |-> s, state |-> st]
           table == [targetStates EXCEPT ![t] = e]
           touched == {s} \cup (IF targetStates[t] = Absent THEN {} ELSE {targetStates[t].service})
<1>1. /\ targetStates' = table
      /\ gauge' = [x \in Service |-> IF x \in touched THEN Aggregate(table, x) ELSE gauge[x]]
  BY Zenon DEF SetGauge
<1>2. e \in Entry /\ e.service = s /\ targetStates \in [Target -> Entry \cup {Absent}]
  BY Zenon DEF Entry, RegShape
<1>3. ASSUME NEW x \in Service, x \notin touched
      PROVE  Aggregate(table, x) = gauge[x]
  <2>1. (targetStates[t] = Absent \/ targetStates[t].service # x) /\ e.service # x
    BY <1>2, <1>3, Zenon
  <2>2. Aggregate(table, x) = Aggregate(targetStates, x)
    BY <1>2, <2>1, AggregateElsewhere, ZenonT(40)
  <2> QED BY <2>2, Zenon DEF SeriesInv
<1> HIDE DEF table, touched, e
<1>4. gauge' = [x \in Service |-> Aggregate(table, x)]
  BY <1>1, <1>3
<1> QED BY <1>1, <1>4, Zenon DEF SeriesInv

\* removeTarget recomputes the series of the service that loses the target.
LEMMA RemoveTargetSeries ==
  ASSUME RegShape, SeriesInv, NEW t \in Target, RemoveTarget(t)
  PROVE  SeriesInv'
<1>1. CASE targetStates[t] = Absent
  BY <1>1 DEF RemoveTarget, SeriesInv
<1>2. CASE targetStates[t] # Absent
  <2> DEFINE table == [targetStates EXCEPT ![t] = Absent]
             s == targetStates[t].service
  <2>1. targetStates' = table /\ gauge' = [gauge EXCEPT ![s] = Aggregate(table, s)]
    BY <1>2 DEF RemoveTarget
  <2>2. targetStates \in [Target -> Entry \cup {Absent}]
    BY Zenon DEF RegShape
  <2>3. ASSUME NEW x \in Service, x # s PROVE Aggregate(table, x) = gauge[x]
    <3>1. Aggregate(table, x) = Aggregate(targetStates, x)
      BY <2>2, <2>3, AggregateElsewhere, ZenonT(40)
    <3> QED BY <3>1 DEF SeriesInv
  <2>4. gauge = [x \in Service |-> gauge[x]]
    BY DEF SeriesInv
  <2> HIDE DEF table, s
  <2>5. gauge' = [x \in Service |-> Aggregate(table, x)]
    BY <2>1, <2>3, <2>4
  <2> QED BY <2>1, <2>5 DEF SeriesInv
<1> QED BY <1>1, <1>2

\* Every step that changes the table leaves the series in keeping with it.
LEMMA SeriesStep == RegInv /\ SeriesInv /\ [RegistryNext]_registryVars => SeriesInv'
<1> SUFFICES ASSUME RegInv, SeriesInv, [RegistryNext]_registryVars PROVE SeriesInv'
  OBVIOUS
<1> USE DEF RegInv
<1>1. CASE UNCHANGED <<targetStates, gauge>>
  BY <1>1 DEF SeriesInv
<1>2. ASSUME NEW o \in Object, NEW st \in BreakerState, home[o] \in Target, Transition(o, st)
      PROVE  SeriesInv'
  <2>1. callback[o] \in Service \cup {Absent}
    BY DEF RegShape
  <2> QED BY <1>1, <1>2, <2>1, SetGaugeSeries, Zenon DEF Transition
<1>3. ASSUME NEW r \in Request, Use(r) PROVE SeriesInv'
  <2>1. local[r].obj \in Object /\ home[local[r].obj] \in Target
    BY <1>3, Zenon DEF HoldInv, Use, Bound, Proc
  <2> QED BY <1>2, <1>3, <2>1, Zenon DEF Use
<1>4. ASSUME NEW t \in Target, Reset(t) PROVE SeriesInv'
  <2>1. breakers[t] \in Object /\ home[breakers[t]] = t
    BY <1>4, Zenon DEF RegShape, HomeInv, Reset
  <2> QED BY <1>2, <1>4, <2>1, Zenon DEF Reset, BreakerState
<1>5. ASSUME NEW p \in Proc, Report(p) PROVE SeriesInv'
  <2>1. /\ local[p].target \in Target /\ local[p].service \in Service
        /\ local[p].seen \in BreakerState
    BY <1>5, Zenon DEF WorkInv, Report, Bound, Fresh
  <2> QED BY <1>5, <2>1, SetGaugeSeries, Zenon DEF Report
<1>6. CASE Remove
  <2>1. local[Reloader].target \in Target
    BY <1>6 DEF HoldInv, Remove, Retiring, Proc
  <2> QED BY <1>6, <2>1, RemoveTargetSeries, ZenonT(40) DEF Remove
<1>7. CASE \E r \in Request : Arrive(r) \/ Load(r) \/ Lock(r) \/ Store(r) \/ Depart(r)
  BY <1>1, <1>7 DEF Arrive, Load, Lock, Store, Depart
<1>8. CASE \E p \in Proc : Ensure(p) \/ Attach(p)
  BY <1>1, <1>8, ZenonT(40) DEF Ensure, Attach
<1>9. CASE (\E t \in Target : Visit(t)) \/ BeginReload \/ Detach \/ Delete \/ SwapSnapshot
             \/ UNCHANGED registryVars
  BY <1>1, <1>9 DEF Visit, BeginReload, Detach, Delete, SwapSnapshot, registryVars
<1> QED BY <1>3, <1>4, <1>5, <1>6, <1>7, <1>8, <1>9 DEF RegistryNext

\* The gauge is the aggregate of the table, and the table shows the state every
\* breaker of a settled target is in, at every moment: attachBreaker's report and
\* the callbacks never cross (registry.go:150-200), for any number of requests,
\* resets and reloads.
THEOREM GaugeSafety == RegistrySpec => []GaugeTracksBreakers
<1>1. RegistryInit => SeriesInv
  <2>1. ASSUME RegistryInit, NEW s \in Service PROVE Aggregate(targetStates, s) = Absent
    <3>1. {u \in Target : targetStates[u] # Absent /\ targetStates[u].service = s} = {}
      BY <2>1 DEF RegistryInit
    <3>2. StatesOf(targetStates, s) = {}
      BY <3>1 DEF StatesOf
    <3> QED BY <3>2, Zenon DEF Aggregate, Worst
  <2> QED BY <2>1 DEF RegistryInit, SeriesInv
<1>2. RegInv /\ SeriesInv => GaugeTracksBreakers
  BY SettledFacts, Zenon DEF RegInv, HomeInv, SettledInv, TrackInv, ReadyInv, SeriesInv, GaugeTracksBreakers
<1> QED BY <1>1, <1>2, RegInvariant, SeriesStep, PTL DEF RegistrySpec
=============================================================================
