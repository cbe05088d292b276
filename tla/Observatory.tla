----------------------------- MODULE Observatory -----------------------------
(***************************************************************************)
(* The scenario controller of the observatory (cmd/observatory): one slot  *)
(* for a scenario run, a k6 container per run, the chaos sequence that     *)
(* runs beside it, and the two handlers that interrupt it, stop and reset. *)
(* The mutex app.mu is released around every Docker or HTTP call, so each  *)
(* action below is one critical section or one remote call.  The Docker    *)
(* daemon may refuse to remove a container, and the process may end at any *)
(* moment, with app.close or without it, and be started again.             *)
(***************************************************************************)
EXTENDS Naturals, Sequences

CONSTANTS
    Run,     \* scenarioRun objects
    Name,    \* scenario names
    Script,  \* the chaos sequence of each scenario: <<"add" or "remove", fault>>
    None

\* "down" is a stopped service container, which /health reveals; "soft" is
\* injected latency or errors, "toxic" a toxic on the Redis proxy.
Fault == {"down", "soft", "toxic"}
Effect == {"add", "remove"} \X Fault

ASSUME ObservatoryAssumption ==
    /\ Script \in [Name -> Seq(Effect)]
    /\ None \notin Run \cup Effect

VARIABLES
    run,       \* per run: its goroutine, its container and its chaos sequence
    active, starting, \* app.active and app.starting
    status,    \* app.scenarioStatus
    fault,     \* the faults in force in the services and the Redis proxy
    stop,      \* the stop handler
    reset      \* the reset handler

vars == <<run, active, starting, status, fault, stop, reset>>
slotVars == <<active, starting, status>>

Place == {"free", "create", "start", "failed", "register", "undo", "undone",
          "wait", "join"}
Box == {"none", "created", "running", "exited"}
Error == {"none", "canceled", "failed"}

\* A run that is over, or not yet begun: it may have left a container or a
\* request behind.  The field lost is history: the container was left by a
\* removal the daemon refused, or by the end of the process.
FreeRun(box, wire, lost) ==
    [pc |-> "free", name |-> None, cancelled |-> FALSE, box |-> box, err |-> "none",
     step |-> 0, wire |-> wire, chaosErr |-> "none", lost |-> lost]

IdleStop == [pc |-> "idle", run |-> None, box |-> None]
IdleReset == [pc |-> "idle", run |-> None, todo |-> {}, closing |-> FALSE]

Init ==
    /\ run = [r \in Run |-> FreeRun("none", None, FALSE)]
    /\ active = None /\ starting = None
    /\ status = [n \in Name |-> "idle"]
    /\ fault = {}
    /\ stop = IdleStop
    /\ reset = IdleReset

At(r, place) == run[r].pc = place

\* A handler, and the goroutine in charge, are done with a container.
Touched(r, box) == [run EXCEPT ![r].box = box, ![r].lost = @ /\ box # "none"]
Leaves(r, box) == [run EXCEPT ![r].box = box, ![r].lost = box # "none"]

\* The deferred removals in Start and Wait force a container out whatever its
\* state; what the daemon refuses is ignored.
AfterRemove(r) == {"none", run[r].box}

\* Runner.Stop stops the container, then removes it, and reports an error of
\* either call.
AfterStop(r) == {"none", run[r].box} \cup (IF run[r].box = "running" THEN {"exited"} ELSE {})

Applied(e, faults) ==
    IF e[1] = "add" THEN faults \cup {e[2]} ELSE faults \ {e[2]}

-----------------------------------------------------------------------------
(* startScenario *)

\* A caller that finds the slot taken is answered 409 and changes nothing.
\* A run object is new: nobody holds an older one under the same identity.
Claim(r, n) ==
    /\ At(r, "free") /\ run[r].wire = None /\ run[r].box = "none"
    /\ r \notin {stop.run, stop.box, reset.run} \cup reset.todo
    /\ ~reset.closing
    /\ active = None /\ starting = None
    /\ starting' = r
    /\ status' = [status EXCEPT ![n] = "running"]
    /\ run' = [run EXCEPT ![r].pc = "create", ![r].name = n]
    /\ UNCHANGED <<active, fault, stop, reset>>

\* Runner.Start, up to ContainerCreate.  The image may be missing and Docker
\* may refuse; once the run is cancelled the call may fail although the daemon
\* has created the container, whose identifier is then lost.
Create(r) ==
    /\ At(r, "create")
    /\ \/ run' = [run EXCEPT ![r].pc = "start", ![r].box = "created"]
       \/ \E box \in {"none"} \cup (IF run[r].cancelled THEN {"created"} ELSE {}) :
             run' = [run EXCEPT ![r].pc = "failed", ![r].box = box,
                        ![r].err = IF run[r].cancelled THEN "canceled" ELSE "failed"]
    /\ UNCHANGED <<slotVars, fault, stop, reset>>

\* ContainerStart; on failure the deferred ContainerRemove runs.
StartContainer(r) ==
    /\ At(r, "start")
    /\ \/ /\ run[r].box = "created"
          /\ run' = [run EXCEPT ![r].pc = "register", ![r].box = "running"]
       \/ \E box \in AfterRemove(r) :
             run' = [Leaves(r, box) EXCEPT ![r].pc = "failed",
                        ![r].err = IF run[r].cancelled THEN "canceled" ELSE "failed"]
    /\ UNCHANGED <<slotVars, fault, stop, reset>>

\* Faulty variant: a start that was cancelled leaves the status alone.
StartFailedKeepsStatus(r) ==
    /\ At(r, "failed")
    /\ starting' = IF starting = r THEN None ELSE starting
    /\ status' = IF run[r].err = "canceled" THEN status
                 ELSE [status EXCEPT ![run[r].name] = "error"]
    /\ run' = [run EXCEPT ![r] = FreeRun(@.box, @.wire, @.lost)]
    /\ UNCHANGED <<active, fault, stop, reset>>

StartFailed(r) ==
    /\ At(r, "failed")
    /\ starting' = IF starting = r THEN None ELSE starting
    /\ status' = [status EXCEPT ![run[r].name] =
                    IF run[r].err = "canceled" /\ @ = "stopping" THEN "idle" ELSE "error"]
    /\ run' = [run EXCEPT ![r] = FreeRun(@.box, @.wire, @.lost)]
    /\ UNCHANGED <<active, fault, stop, reset>>

\* The second critical section: a run that was cancelled while it started gives
\* the slot up here, before it has stopped its container.
Register(r) ==
    /\ At(r, "register")
    /\ starting' = IF starting = r THEN None ELSE starting
    /\ active' = IF run[r].cancelled THEN active ELSE r
    /\ run' = [run EXCEPT ![r].pc = IF run[r].cancelled THEN "undo" ELSE "wait",
                          ![r].step = IF run[r].cancelled THEN 0 ELSE 1]
    /\ UNCHANGED <<status, fault, stop, reset>>

\* Faulty variant: the container of a cancelled start is left running.
UndoKeepsContainer(r) ==
    /\ At(r, "undo")
    /\ run' = [run EXCEPT ![r].pc = "undone"]
    /\ UNCHANGED <<slotVars, fault, stop, reset>>

Undo(r) ==
    /\ At(r, "undo")
    /\ \E box \in AfterStop(r) : run' = [Leaves(r, box) EXCEPT ![r].pc = "undone"]
    /\ UNCHANGED <<slotVars, fault, stop, reset>>

-----------------------------------------------------------------------------
(* watchScenario and executeChaos *)

K6Exits(r) ==
    /\ run[r].box = "running"
    /\ run' = [run EXCEPT ![r].box = "exited"]
    /\ UNCHANGED <<slotVars, fault, stop, reset>>

\* Runner.Wait returns on cancellation, or with the exit code or the complaint
\* that the container is gone, and removes the container.
Wait(r) ==
    /\ At(r, "wait")
    /\ run[r].cancelled \/ run[r].box # "running"
    /\ \E box \in AfterRemove(r) :
          \E e \in IF ~run[r].cancelled THEN {"none", "failed"}
                   ELSE IF run[r].box = "none" THEN {"canceled", "failed"}
                   ELSE {"canceled"} :
             run' = [Leaves(r, box) EXCEPT ![r].pc = "join", ![r].err = e]
    /\ UNCHANGED <<slotVars, fault, stop, reset>>

\* It also returns when the daemon breaks the call off; the chaos sequence, whose
\* context nobody cancels, goes on.
WaitBreaks(r) ==
    /\ At(r, "wait") /\ run[r].box = "running"
    /\ \E box \in AfterRemove(r) :
          run' = [Leaves(r, box) EXCEPT ![r].pc = "join", ![r].err = "failed"]
    /\ UNCHANGED <<slotVars, fault, stop, reset>>

Sequence(r) == Script[run[r].name]
ChaosRuns(r) == run[r].pc \in {"wait", "join"} /\ run[r].step \in 1 .. Len(Sequence(r))
ChaosEnds(r, e) == [run EXCEPT ![r].step = 0, ![r].chaosErr = e]

\* The offset of the next step is reached: its request leaves.
ChaosStep(r) ==
    /\ ChaosRuns(r) /\ run[r].wire = None
    /\ run' = [run EXCEPT ![r].wire = Sequence(r)[run[r].step]]
    /\ UNCHANGED <<slotVars, fault, stop, reset>>

\* The service, the daemon or the proxy carries the step out and answers.
\* After service_up the health check may still fail.
ChaosDone(r) ==
    /\ ChaosRuns(r) /\ run[r].wire # None
    /\ fault' = Applied(run[r].wire, fault)
    /\ run' = [run EXCEPT ![r].wire = None, ![r].step = @ + 1]
    /\ UNCHANGED <<slotVars, stop, reset>>

\* The step fails, or the run was cancelled: between two steps, or during one,
\* whose request then may still reach its server.
ChaosFails(r) ==
    /\ ChaosRuns(r)
    /\ \/ run[r].cancelled /\ run' = ChaosEnds(r, "canceled")
       \/ run[r].wire # None /\ run' = [ChaosEnds(r, "failed") EXCEPT ![r].wire = None]
    /\ UNCHANGED <<slotVars, fault, stop, reset>>

\* A request whose caller has gone is carried out late, or not at all.
Stray(r) ==
    /\ ~ChaosRuns(r) /\ run[r].wire # None
    /\ fault' \in {fault, Applied(run[r].wire, fault)}
    /\ run' = [run EXCEPT ![r].wire = None]
    /\ UNCHANGED <<slotVars, stop, reset>>

\* Faulty variant: the slot is kept when the run ends in an error.
CompleteKeepsSlot(r) ==
    LET failed == "failed" \in {run[r].err, run[r].chaosErr} IN
    /\ At(r, "undone") \/ (At(r, "join") /\ ~ChaosRuns(r))
    /\ active' = IF active = r /\ ~failed THEN None ELSE active
    /\ starting' = IF starting = r THEN None ELSE starting
    /\ status' = [status EXCEPT ![run[r].name] = IF failed THEN "error" ELSE "idle"]
    /\ run' = [run EXCEPT ![r] = FreeRun(@.box, @.wire, @.lost)]
    /\ UNCHANGED <<fault, stop, reset>>

\* Faulty variant: a run that ends clears the slot whosever it is by now.
CompleteClearsAnyone(r) ==
    /\ At(r, "undone") \/ (At(r, "join") /\ ~ChaosRuns(r))
    /\ active' = None /\ starting' = None
    /\ status' = [status EXCEPT ![run[r].name] =
                    IF "failed" \in {run[r].err, run[r].chaosErr} THEN "error" ELSE "idle"]
    /\ run' = [run EXCEPT ![r] = FreeRun(@.box, @.wire, @.lost)]
    /\ UNCHANGED <<fault, stop, reset>>

Complete(r) ==
    /\ At(r, "undone") \/ (At(r, "join") /\ ~ChaosRuns(r))
    /\ active' = IF active = r THEN None ELSE active
    /\ starting' = IF starting = r THEN None ELSE starting
    /\ status' = [status EXCEPT ![run[r].name] =
                    IF "failed" \in {run[r].err, run[r].chaosErr} THEN "error" ELSE "idle"]
    /\ run' = [run EXCEPT ![r] = FreeRun(@.box, @.wire, @.lost)]
    /\ UNCHANGED <<fault, stop, reset>>

-----------------------------------------------------------------------------
(* stopScenario *)

Owner == IF active # None THEN active ELSE starting
Cancel(r) == [run EXCEPT ![r].cancelled = TRUE]

\* run.containerID is empty until Register has stored it.
StopClaims(n) ==
    /\ stop.pc = "idle" /\ ~reset.closing
    /\ Owner # None /\ run[Owner].name = n
    /\ status' = [status EXCEPT ![n] = "stopping"]
    /\ stop' = [pc |-> "cancel", run |-> Owner,
                box |-> IF Owner = active THEN Owner ELSE None]
    /\ UNCHANGED <<run, active, starting, fault, reset>>

StopCancels ==
    /\ stop.pc = "cancel"
    /\ run' = Cancel(stop.run)
    /\ stop' = [stop EXCEPT !.pc = "remove"]
    /\ UNCHANGED <<slotVars, fault, reset>>

\* Runner.Stop; it changes nothing without an identifier, or when the client
\* that asked has gone.
StopRemoves ==
    /\ stop.pc = "remove"
    /\ \/ stop.box = None /\ UNCHANGED run
       \/ stop.box # None /\ \E box \in AfterStop(stop.box) : run' = Touched(stop.box, box)
    /\ stop' = IdleStop
    /\ UNCHANGED <<slotVars, fault, reset>>

-----------------------------------------------------------------------------
(* resetSystem, whose first steps are also those of app.close *)

ResetGoes(from, to) ==
    /\ reset.pc = from
    /\ reset' = [reset EXCEPT !.pc = to]

\* cancelActiveScenario; close runs once server.Shutdown has seen every handler
\* return.
Cleanup(closing) ==
    /\ reset.pc = "idle"
    /\ reset' = [pc |-> IF Owner = None THEN "list" ELSE "cancel",
                 run |-> Owner, todo |-> {}, closing |-> closing]
    /\ status' = IF Owner = None THEN status
                 ELSE [status EXCEPT ![run[Owner].name] = "stopping"]
    /\ UNCHANGED <<run, active, starting, fault, stop>>

ResetClaims == Cleanup(FALSE)

Close ==
    /\ stop.pc = "idle" /\ \A r \in Run : run[r].pc \in {"free", "wait", "join"}
    /\ Cleanup(TRUE)

ResetCancels ==
    /\ ResetGoes("cancel", "list")
    /\ run' = Cancel(reset.run)
    /\ UNCHANGED <<slotVars, fault, stop>>

\* What an error leads to: the answer "partial", or the next step of close,
\* which ignores errors.
Fallen ==
    IF ~reset.closing THEN IdleReset
    ELSE [reset EXCEPT !.pc = IF @ \in {"list", "remove"} THEN "revive" ELSE "exit",
                       !.todo = {}]

\* Another removal of the container may be under way: the daemon then answers
\* Runner.Stop with a conflict, which it takes for success.
BeingRemoved(r) ==
    \/ run[r].pc \in {"start", "undo", "wait"}
    \/ stop.pc = "remove" /\ stop.box = r

\* StopManagedContainers stops what one listing has shown, up to the first error.
ResetLists ==
    /\ reset.pc = "list"
    /\ reset' = [reset EXCEPT !.pc = "remove", !.todo = {r \in Run : run[r].box # "none"}]
    /\ UNCHANGED <<run, slotVars, fault, stop>>

ResetRemoves ==
    /\ reset.pc = "remove"
    /\ \/ /\ reset.todo = {}
          /\ reset' = [reset EXCEPT !.pc = "revive"]
          /\ UNCHANGED run
       \/ \E r \in reset.todo : \E box \in AfterStop(r) :
             /\ \/ /\ box = "none" \/ (box # "running" /\ BeingRemoved(r))
                   /\ reset' = [reset EXCEPT !.todo = @ \ {r}]
                \/ box # "none" /\ reset' = Fallen
             /\ run' = Touched(r, box)
    /\ UNCHANGED <<slotVars, fault, stop>>

\* resetChaos: start every service, wait for /health, then clear the chaos state.
ResetRevives ==
    /\ ResetGoes("revive", "await")
    /\ fault' = fault \ {"down"}
    /\ UNCHANGED <<run, slotVars, stop>>

ResetAwaits ==
    /\ "down" \notin fault
    /\ ResetGoes("await", "clear")
    /\ UNCHANGED <<run, slotVars, fault, stop>>

ResetClears ==
    /\ ResetGoes("clear", IF reset.closing THEN "exit" ELSE "toxics")
    /\ fault' = fault \ {"soft"}
    /\ UNCHANGED <<run, slotVars, stop>>

\* Faulty variant: the toxics are forgotten.
ResetToxicsSkipped ==
    /\ ResetGoes("toxics", "verify")
    /\ UNCHANGED <<run, slotVars, fault, stop>>

\* The circuit breakers are closed, the toxics removed and Redis flushed.
ResetToxics ==
    /\ ResetGoes("toxics", "verify")
    /\ fault' = fault \ {"toxic"}
    /\ UNCHANGED <<run, slotVars, stop>>

\* The drain delay, then verifyServiceHealth.
ResetVerifies ==
    /\ "down" \notin fault
    /\ ResetGoes("verify", "clean")
    /\ UNCHANGED <<run, slotVars, fault, stop>>

\* Any step may fail or run out of time: the 30 seconds of a reset, the health
\* checks of close.
ResetFails ==
    /\ reset.pc \notin {"idle", "cancel", "clean", "exit"}
    /\ reset' = Fallen
    /\ UNCHANGED <<run, slotVars, fault, stop>>

ResetAnswers ==
    /\ reset.pc = "clean"
    /\ reset' = IdleReset
    /\ UNCHANGED <<run, slotVars, fault, stop>>

-----------------------------------------------------------------------------
(* The end of the process, and newApp *)

\* A call to the daemon that was under way may still be carried out.
BoxAfter(r) ==
    {run[r].box}
        \cup (IF At(r, "create") THEN {"created"} ELSE {})
        \cup (IF At(r, "start") /\ run[r].box = "created" THEN {"running"} ELSE {})

\* The new process knows no run and no container, and cleans nothing up.
Restart ==
    /\ \E box \in [Run -> Box] :
          /\ \A r \in Run : box[r] \in BoxAfter(r)
          /\ run' = [r \in Run |-> FreeRun(box[r], run[r].wire, box[r] # "none")]
    /\ active' = None /\ starting' = None
    /\ status' = [n \in Name |-> "idle"]
    /\ stop' = IdleStop
    /\ reset' = IdleReset
    /\ UNCHANGED fault

Exit == reset.pc = "exit" /\ Restart

\* os.Exit(1), which skips app.close: the listener failed, or an event stream
\* was still open when Shutdown ran out of its 10 seconds.
Crash == Restart

-----------------------------------------------------------------------------
Goroutine(r) ==
    \/ Create(r) \/ StartContainer(r) \/ StartFailed(r) \/ Register(r) \/ Undo(r)
    \/ Wait(r) \/ Complete(r)

ChaosGoroutine(r) == ChaosStep(r) \/ ChaosDone(r) \/ ChaosFails(r)

StopHandler == StopCancels \/ StopRemoves

ResetHandler ==
    \/ ResetCancels \/ ResetLists \/ ResetRemoves \/ ResetRevives \/ ResetAwaits
    \/ ResetClears \/ ResetToxics \/ ResetVerifies \/ ResetFails \/ ResetAnswers
    \/ Exit

Next ==
    \/ \E r \in Run :
          \/ \E n \in Name : Claim(r, n)
          \/ Goroutine(r) \/ ChaosGoroutine(r) \/ WaitBreaks(r) \/ K6Exits(r) \/ Stray(r)
    \/ \E n \in Name : StopClaims(n)
    \/ ResetClaims \/ Close \/ Crash
    \/ StopHandler \/ ResetHandler

Spec == Init /\ [][Next]_vars

\* Goroutines are scheduled and k6 runs for a bounded duration.  That a remote call
\* ends is assumed of the other side: requests to the services and the reset have
\* deadlines, but a run's own calls to Docker (image pull, create, start, wait, the
\* removals on context.Background) have none and rest on the daemon, and for a
\* missing image on the registry, to answer.
Fairness ==
    /\ \A r \in Run :
          /\ WF_vars(Goroutine(r))
          /\ WF_vars(ChaosGoroutine(r))
          /\ WF_vars(K6Exits(r))
          /\ WF_vars(Stray(r))
    /\ WF_vars(StopHandler)
    /\ WF_vars(ResetHandler)

FairSpec == Spec /\ Fairness

-----------------------------------------------------------------------------
\* Types of the variables; a handler that cancels has a run to cancel
\* (app.go:536, reset.go:72).
TypeOK ==
    /\ run \in [Run -> [pc : Place, name : Name \cup {None}, cancelled : BOOLEAN, box : Box,
                        err : Error, step : Nat, wire : Effect \cup {None},
                        chaosErr : Error, lost : BOOLEAN]]
    /\ {active, starting} \subseteq Run \cup {None}
    /\ status \in [Name -> {"idle", "running", "stopping", "error"}]
    /\ fault \subseteq Fault
    /\ {stop.run, stop.box, reset.run} \subseteq Run \cup {None}
    /\ stop.pc # "idle" => stop.run # None
    /\ reset.pc = "cancel" => reset.run # None
    /\ reset.todo \subseteq Run

\* app.active and app.starting are never both set, and whichever is set is the
\* run whose goroutine stands where that field says, through every cancellation.
OneOwner ==
    /\ None \in {active, starting}
    /\ \A r \in Run : (active = r) <=> run[r].pc \in {"wait", "join"}
    /\ \A r \in Run : (starting = r) <=>
          run[r].pc \in {"create", "start", "failed", "register"}

\* A load-generating container is always some goroutine's to remove: however
\* stop and reset interleave it does not outlive its run, unless the daemon
\* refused the removal, whose error is ignored (app.go:491, runner.go:135), or the
\* process ended without it.
NoOrphan ==
    \A r \in Run : run[r].box = "running" =>
        run[r].pc \in {"register", "undo", "wait"} \/ run[r].lost

\* Every run that was given the slot gives it back: the 409 of startScenario
\* does not last for ever.
SlotComesBack ==
    \A r \in Run : Owner = r ~> Owner # r

\* A scenario that was told to stop leaves "stopping".
StoppingEnds ==
    \A n \in Name : status[n] = "stopping" ~> status[n] # "stopping"

\* Once no scenario runs any more, answers of "clean" end in a system with no
\* fault and no container: what stop and reset let slip, a later reset collects.
ResetConverges ==
    LET quiet == \A r \in Run : At(r, "free") IN
    <>[]quiet /\ []<>(reset.pc = "clean")
        => <>[](fault = {} /\ \A r \in Run : run[r].box = "none")
=============================================================================
