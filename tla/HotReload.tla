----------------------------- MODULE HotReload ------------------------------
(***************************************************************************)
(* The life of a gateway process: main (cmd/gateway/main.go), the runtime  *)
(* manager (internal/runtime/manager.go) and the configuration watcher     *)
(* (internal/runtime/watcher.go).  An operator edits the file, fsnotify    *)
(* reports it, the debounce timer fires, the watcher reads, validates,     *)
(* builds and swaps the snapshot; meanwhile a signal may begin the         *)
(* shutdown and probes of /ready read two atomic flags one by one.         *)
(***************************************************************************)
EXTENDS Naturals

CONSTANTS
    Content,   \* what the configuration file may hold
    Valid,     \* the contents that decode and pass Validate
    Server,    \* the startup-only server settings of each valid content
    Probe,     \* concurrent requests for /ready
    MaxEdits,  \* bound on the operator's writes
    Queue,     \* events of the directory the kernel keeps for the watcher
    None

ASSUME ReloadAssumption ==
    /\ Valid \subseteq Content
    /\ MaxEdits \in Nat
    /\ Queue \in Nat \ {0}
    /\ None \notin Content

VARIABLES
    file,     \* what the file holds
    edits,    \* writes so far
    events,   \* fsnotify events of the file not yet received by the watcher
    others,   \* and those of other files of the directory
    gap,      \* history: the last write raised no event, because the directory
              \* was not watched yet or other files had filled the queue
    main,     \* where main is
    watcher,  \* where Watcher.Run is
    timer,    \* timerCh: TRUE once the debounce timer is running
    got,      \* the content the current reload has read
    lastRead, \* history: the content last read by main or by a reload
    current,  \* the content the current snapshot was built from
    ready, draining,
    probe,    \* per probe: "idle", "ready" (before the first load), "draining"
              \* (before the second), "yes" or "no"
    late      \* history: the probe began after BeginShutdown had

vars == <<file, edits, events, others, gap, main, watcher, timer, got, lastRead,
          current, ready, draining, probe, late>>

operatorVars == <<file, edits, events, others, gap>>
reloadVars == <<watcher, timer, got, lastRead, current>>
probeVars == <<probe, late>>

Init ==
    /\ file \in Valid
    /\ edits = 0 /\ events = 0 /\ others = 0 /\ gap = FALSE
    /\ main = "boot"
    /\ watcher = "absent" /\ timer = FALSE /\ got = None
    /\ lastRead = None /\ current = None
    /\ ready = FALSE /\ draining = FALSE
    /\ probe = [p \in Probe |-> "idle"]
    /\ late = [p \in Probe |-> FALSE]

-----------------------------------------------------------------------------
Watched == watcher \notin {"absent", "adding", "stopped"}
Room == events + others < Queue

\* The operator writes, truncates, replaces or removes the file.  Once the
\* directory is watched a write raises an event, unless the queue is full: then
\* the watcher gets an overflow error, which it logs.
Write(c) ==
    /\ edits < MaxEdits
    /\ c # file
    /\ file' = c
    /\ edits' = edits + 1
    /\ gap' = (watcher \in {"absent", "adding"} \/ (Watched /\ others = Queue))
    /\ events' = IF Watched /\ Room THEN events + 1 ELSE events
    /\ UNCHANGED <<others, main, reloadVars, ready, draining, probeVars>>

\* Another file of the watched directory changes.
OtherFile ==
    /\ Watched
    /\ Room
    /\ others' = others + 1
    /\ UNCHANGED <<file, edits, events, gap, main, reloadVars, ready, draining, probeVars>>

\* main: Load, Validate, NewManager, and the watcher's goroutine is started.
Boot ==
    /\ main = "boot"
    /\ IF file \in Valid
       THEN /\ main' = "serving"
            /\ watcher' = "adding"
            /\ lastRead' = file /\ current' = file
            /\ gap' = FALSE
            /\ ready' = TRUE
       ELSE /\ main' = "exited"
            /\ UNCHANGED <<watcher, lastRead, current, gap, ready>>
    /\ UNCHANGED <<file, edits, events, others, timer, got, draining, probeVars>>

\* Run watches the directory; when that fails it returns and the gateway
\* serves on without hot reload.
WatchDirectory ==
    /\ watcher = "adding"
    /\ watcher' \in {"select", "stopped"}
    /\ UNCHANGED <<operatorVars, main, timer, got, lastRead, current, ready,
                   draining, probeVars>>

\* An event of the configuration file (re)starts the timer.
HandleEvent ==
    /\ watcher = "select"
    /\ events > 0
    /\ events' = events - 1
    /\ timer' = TRUE
    /\ UNCHANGED <<file, edits, others, gap, main, watcher, got, lastRead, current,
                   ready, draining, probeVars>>

\* An event of another file is skipped.
SkipEvent ==
    /\ watcher = "select"
    /\ others > 0
    /\ others' = others - 1
    /\ UNCHANGED <<file, edits, events, gap, main, reloadVars, ready, draining, probeVars>>

\* The timer fires and ReloadFromPath begins.
TimerFires ==
    /\ watcher = "select"
    /\ timer
    /\ watcher' = "read"
    /\ UNCHANGED <<operatorVars, main, timer, got, lastRead, current, ready,
                   draining, probeVars>>

\* Faulty variant: the reload uses the configuration already in memory.
ReadConfigFromMemory ==
    /\ watcher = "read"
    /\ got' = current
    /\ lastRead' = file
    /\ watcher' = "build"
    /\ UNCHANGED <<operatorVars, main, timer, current, ready, draining, probeVars>>

\* config.Load
ReadConfig ==
    /\ watcher = "read"
    /\ got' = file
    /\ lastRead' = file
    /\ watcher' = "build"
    /\ UNCHANGED <<operatorVars, main, timer, current, ready, draining, probeVars>>

\* Decoding, Validate, and validateStartupOnlyServerConfig against the settings
\* the process was started with, which every accepted snapshot shares
\* (SettingsSafety in HotReloadProofs), the current one included.
Acceptable(c) == c \in Valid /\ Server[c] = Server[current]

\* buildSnapshot: a failure is logged and the old snapshot stays.
BuildSnapshot ==
    /\ watcher = "build"
    /\ IF Acceptable(got)
       THEN watcher' = "store" /\ UNCHANGED <<got, timer>>
       ELSE watcher' = "select" /\ got' = None /\ timer' = FALSE
    /\ UNCHANGED <<operatorVars, main, lastRead, current, ready, draining, probeVars>>

\* m.current.Store
StoreSnapshot ==
    /\ watcher = "store"
    /\ current' = got
    /\ got' = None
    /\ watcher' = "flag"
    /\ UNCHANGED <<operatorVars, main, timer, lastRead, ready, draining, probeVars>>

\* if !m.draining.Load()
CheckDraining ==
    /\ watcher = "flag"
    /\ IF draining THEN watcher' = "select" /\ timer' = FALSE
                   ELSE watcher' = "set_ready" /\ UNCHANGED timer
    /\ UNCHANGED <<operatorVars, main, got, lastRead, current, ready, draining, probeVars>>

\* Faulty variant: events that arrived during the reload are discarded.
SetReadyDrainsEvents ==
    /\ watcher = "set_ready"
    /\ ready' = TRUE
    /\ watcher' = "select"
    /\ timer' = FALSE
    /\ events' = 0
    /\ UNCHANGED <<file, edits, others, gap, main, got, lastRead, current, draining,
                   probeVars>>

\* m.ready.Store(true), and back in Run timerCh = nil.
SetReady ==
    /\ watcher = "set_ready"
    /\ ready' = TRUE
    /\ watcher' = "select"
    /\ timer' = FALSE
    /\ UNCHANGED <<operatorVars, main, got, lastRead, current, draining, probeVars>>

Cancelled == {"failed", "failed_draining", "stopped"}

\* Run returns at its next select once the context is cancelled.
WatcherStops ==
    /\ watcher = "select"
    /\ main \in Cancelled
    /\ watcher' = "stopped"
    /\ timer' = FALSE
    /\ UNCHANGED <<operatorVars, main, got, lastRead, current, ready, draining, probeVars>>

\* A listener fails: here main cancels the watcher first.
ServerError ==
    /\ main = "serving"
    /\ main' = "failed"
    /\ UNCHANGED <<operatorVars, reloadVars, ready, draining, probeVars>>

\* BeginShutdown stores two flags, on a signal or after ServerError.
BeginShutdown ==
    /\ main \in {"serving", "failed"}
    /\ draining' = TRUE
    /\ main' = IF main = "serving" THEN "draining" ELSE "failed_draining"
    /\ UNCHANGED <<operatorVars, reloadVars, ready, probeVars>>

FlipReady ==
    /\ main \in {"draining", "failed_draining"}
    /\ ready' = FALSE
    /\ main' = IF main = "draining" THEN "flipped" ELSE "stopped"
    /\ UNCHANGED <<operatorVars, reloadVars, draining, probeVars>>

CancelWatcher ==
    /\ main = "flipped"
    /\ main' = "stopped"
    /\ UNCHANGED <<operatorVars, reloadVars, ready, draining, probeVars>>

-----------------------------------------------------------------------------
Serving == Cancelled \cup {"serving", "draining", "flipped"}

\* GET /ready.  The listener is up once main serves, until Shutdown.
ProbeArrives(p) ==
    /\ main \in Serving
    /\ probe[p] \in {"idle", "yes", "no"}
    /\ probe' = [probe EXCEPT ![p] = "ready"]
    /\ late' = [late EXCEPT ![p] = draining]
    /\ UNCHANGED <<operatorVars, reloadVars, main, ready, draining>>

Answer(p, a) == probe' = [probe EXCEPT ![p] = a]

\* Manager.Ready: ready, then draining, then the snapshot.
LoadReady(p) ==
    /\ probe[p] = "ready"
    /\ Answer(p, IF ready THEN "draining" ELSE "no")
    /\ UNCHANGED <<operatorVars, reloadVars, main, ready, draining, late>>

\* Faulty variant: Ready looks at the ready flag only.
LoadDrainingSkipped(p) ==
    /\ probe[p] = "draining"
    /\ Answer(p, IF current # None THEN "yes" ELSE "no")
    /\ UNCHANGED <<operatorVars, reloadVars, main, ready, draining, late>>

LoadDraining(p) ==
    /\ probe[p] = "draining"
    /\ Answer(p, IF ~draining /\ current # None THEN "yes" ELSE "no")
    /\ UNCHANGED <<operatorVars, reloadVars, main, ready, draining, late>>

-----------------------------------------------------------------------------
Reloading ==
    \/ WatchDirectory \/ HandleEvent \/ SkipEvent \/ TimerFires \/ ReadConfig
    \/ BuildSnapshot \/ StoreSnapshot \/ CheckDraining \/ SetReady \/ WatcherStops

Next ==
    \/ \E c \in Content : Write(c)
    \/ OtherFile
    \/ Boot \/ ServerError \/ BeginShutdown \/ FlipReady \/ CancelWatcher
    \/ Reloading
    \/ \E p \in Probe : ProbeArrives(p) \/ LoadReady(p) \/ LoadDraining(p)

Spec == Init /\ [][Next]_vars

\* The goroutines of main and the watcher run.  The select of Run picks at
\* random among what is ready, so that events of other files, however many,
\* do not keep an event of the file or the timer waiting for ever.
FairSpec ==
    /\ Spec
    /\ WF_vars(Boot) /\ WF_vars(Reloading) /\ WF_vars(HandleEvent) /\ WF_vars(TimerFires)

-----------------------------------------------------------------------------
Location == {"absent", "adding", "select", "read", "build", "store", "flag",
             "set_ready", "stopped"}

\* Types of the variables.
TypeOK ==
    /\ file \in Content
    /\ edits \in 0..MaxEdits /\ events \in Nat /\ others \in Nat /\ gap \in BOOLEAN
    /\ main \in Serving \cup {"boot", "exited"}
    /\ watcher \in Location /\ timer \in BOOLEAN
    /\ got \in Content \cup {None}
    /\ lastRead \in Content \cup {None} /\ current \in Valid \cup {None}
    /\ ready \in BOOLEAN /\ draining \in BOOLEAN
    /\ probe \in [Probe -> {"idle", "ready", "draining", "yes", "no"}]
    /\ late \in [Probe -> BOOLEAN]

\* While the watcher runs, a write it has not read yet is on its way: an event
\* is waiting, the timer is running, or the reload in progress reads the file
\* next.  Neither writes during a reload nor writes whose own events found the
\* queue full are lost (watcher.go:72-104).
NoLostEdit ==
    Watched /\ file # lastRead =>
        \/ gap
        \/ events > 0
        \/ timer /\ watcher \in {"select", "read"}

\* A probe that begins after BeginShutdown has begun is never told the gateway
\* is ready, even by a reload that was past its own draining check and set the
\* ready flag afterwards (manager.go:116-131,133-147).
DrainIsFinal == \A p \in Probe : late[p] => probe[p] # "yes"

\* The process never leaves the server settings it was started with, whatever
\* it reloads (manager.go:344-362).
StartupSettingsStay ==
    [][current # None => Server[current'] = Server[current]]_vars

\* What the operator finally leaves in the file is what the gateway finally
\* serves, if it is acceptable, the watcher is alive and the write could raise
\* an event.
EditServed ==
    \A c \in Content :
        <>[](file = c /\ ~gap /\ watcher # "stopped" /\ current # None /\ Acceptable(c))
            => <>[](current = c)
=============================================================================
