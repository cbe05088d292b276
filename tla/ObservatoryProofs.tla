-------------------------- MODULE ObservatoryProofs --------------------------
(***************************************************************************)
(* Proofs about the observatory: Observatory for any number of runs, any   *)
(* scenarios and any chaos sequences, and its HTTP front, Console, for any *)
(* scenario files, any bounds and any number of addresses and requests.    *)
(***************************************************************************)
EXTENDS Observatory, Console, FiniteSetTheorems, TLAPS

RunRecord ==
    [pc : Place, name : Name \cup {None}, cancelled : BOOLEAN, box : Box,
     err : Error, step : Nat, wire : Effect \cup {None}, chaosErr : Error, lost : BOOLEAN]

RunShape == run \in [Run -> RunRecord]

SlotShape == active \in Run \cup {None} /\ starting \in Run \cup {None}

StopShape ==
    stop \in [pc : {"idle", "cancel", "remove"}, run : Run \cup {None}, box : Run \cup {None}]

ResetPlace == {"idle", "cancel", "list", "remove", "revive", "await", "clear", "toxics",
               "verify", "clean", "exit"}

ResetShape ==
    reset \in [pc : ResetPlace, run : Run \cup {None}, todo : SUBSET Run, closing : BOOLEAN]

\* What OneOwner and NoOrphan say of one run, and that it has a name.
Sound(r) ==
    /\ run[r].pc # "free" => run[r].name \in Name
    /\ (active = r) <=> run[r].pc \in {"wait", "join"}
    /\ (starting = r) <=> run[r].pc \in {"create", "start", "failed", "register"}
    /\ run[r].box = "running" =>
          run[r].pc \in {"register", "undo", "wait"} \/ run[r].lost

\* The inductive invariant.
IInv ==
    /\ RunShape /\ SlotShape /\ StopShape /\ ResetShape
    /\ None \in {active, starting}
    /\ \A r \in Run : Sound(r)

\* The observatory starts in the invariant.
LEMMA InitIInv == Init => IInv
<1> SUFFICES ASSUME Init PROVE IInv
  OBVIOUS
<1>1. RunShape
  BY DEF Init, RunShape, FreeRun, RunRecord, Place, Box, Error
<1>2. SlotShape /\ StopShape /\ ResetShape
  BY DEF Init, SlotShape, StopShape, ResetShape, ResetPlace, IdleStop, IdleReset
<1>3. \A r \in Run : Sound(r)
  BY ObservatoryAssumption DEF Init, FreeRun, Sound
<1> QED BY <1>1, <1>2, <1>3 DEF Init, IInv

\* A step that changes one run and leaves the slot alone.
Keeps(r) ==
    /\ run'[r] \in RunRecord
    /\ run'[r].pc # "free" => run'[r].name \in Name
    /\ run'[r].pc \in {"wait", "join"} <=> run[r].pc \in {"wait", "join"}
    /\ run'[r].pc \in {"create", "start", "failed", "register"} <=>
          run[r].pc \in {"create", "start", "failed", "register"}
    /\ run'[r].box = "running" =>
          run'[r].pc \in {"register", "undo", "wait"} \/ run'[r].lost

LEMMA OneRun ==
    ASSUME IInv, NEW r \in Run, run' = [run EXCEPT ![r] = run'[r]], Keeps(r),
           active' = active, starting' = starting
    PROVE  /\ RunShape' /\ SlotShape' /\ (None \in {active, starting})'
           /\ \A x \in Run : Sound(x)'
<1>1. RunShape' /\ SlotShape' /\ (None \in {active, starting})'
  BY DEF IInv, RunShape, SlotShape, Keeps
<1>2. \A x \in Run \ {r} : run'[x] = run[x]
  BY DEF IInv, RunShape
<1>3. \A x \in Run : Sound(x)'
  BY <1>2 DEF IInv, Sound, Keeps
<1> QED BY <1>1, <1>3

\* The step that claims the slot.
LEMMA ClaimIInv == ASSUME IInv, NEW r \in Run, NEW n \in Name, Claim(r, n) PROVE IInv'
<1> DEFINE q == [run[r] EXCEPT !.pc = "create", !.name = n]
<1>1. run[r] \in RunRecord
  BY DEF IInv, RunShape
<1>2. q \in RunRecord
  BY <1>1, Zenon DEF RunRecord, Place
<1>3. run' = [run EXCEPT ![r] = q]
  BY Zenon DEF IInv, Claim, RunShape
<1>4. RunShape'
  BY <1>2, <1>3 DEF IInv, RunShape
<1>5. \A x \in Run : Sound(x)'
  BY ObservatoryAssumption DEF IInv, Claim, RunShape, RunRecord, Sound, At
<1>6. (SlotShape /\ StopShape /\ ResetShape /\ None \in {active, starting})'
  BY DEF IInv, Claim, SlotShape, StopShape, ResetShape
<1> QED BY <1>4, <1>5, <1>6 DEF IInv

\* The two remote calls of Runner.Start.
LEMMA CreateIInv == ASSUME IInv, NEW r \in Run, Create(r) PROVE IInv'
<1>1. run[r] \in RunRecord /\ Sound(r) /\ DOMAIN run = Run
  BY DEF IInv, RunShape
<1>2. run' = [run EXCEPT ![r] = run'[r]] /\ Keeps(r)
  <2>1. CASE run' = [run EXCEPT ![r].pc = "start", ![r].box = "created"]
    BY <1>1, <2>1 DEF Create, At, RunRecord, Place, Box, Sound, Keeps
  <2>2. CASE \E box \in {"none", "created"}, e \in Error :
                run' = [run EXCEPT ![r].pc = "failed", ![r].box = box, ![r].err = e]
    <3> PICK box \in {"none", "created"}, e \in Error :
                run' = [run EXCEPT ![r].pc = "failed", ![r].box = box, ![r].err = e]
      BY <2>2, Zenon
    <3> QED BY <1>1 DEF Create, At, RunRecord, Place, Box, Sound, Keeps
  <2> QED BY <2>1, <2>2 DEF Create, Error
<1> QED BY <1>2, OneRun DEF Create, slotVars, IInv, StopShape, ResetShape

LEMMA StartContainerIInv == ASSUME IInv, NEW r \in Run, StartContainer(r) PROVE IInv'
<1>1. run[r] \in RunRecord /\ Sound(r) /\ DOMAIN run = Run
  BY DEF IInv, RunShape
<1>2. run' = [run EXCEPT ![r] = run'[r]] /\ Keeps(r)
  <2>1. CASE run' = [run EXCEPT ![r].pc = "register", ![r].box = "running"]
    BY <1>1, <2>1, Zenon DEF StartContainer, At, RunRecord, Place, Box, Sound, Keeps
  <2>2. CASE \E box \in AfterRemove(r), e \in Error :
                run' = [Leaves(r, box) EXCEPT ![r].pc = "failed", ![r].err = e]
    <3>1. PICK box \in Box, e \in Error :
                run' = [Leaves(r, box) EXCEPT ![r].pc = "failed", ![r].err = e]
      BY <1>1, <2>2, Zenon DEF AfterRemove, RunRecord, Box
    <3> QED BY <1>1, <3>1, ZenonT(40) DEF StartContainer, At, RunRecord, Place, Box, Sound, Keeps, Leaves
  <2> QED BY <2>1, <2>2 DEF StartContainer, Error
<1> QED BY <1>2, OneRun DEF StartContainer, slotVars, IInv, StopShape, ResetShape

\* The steps of a goroutine that stops or waits for its container.
LEMMA UndoIInv == ASSUME IInv, NEW r \in Run, Undo(r) PROVE IInv'
<1>1. run[r] \in RunRecord /\ Sound(r) /\ DOMAIN run = Run
  BY DEF IInv, RunShape
<1>2. run' = [run EXCEPT ![r] = run'[r]] /\ Keeps(r)
  <2>1. PICK box \in Box : run' = [Leaves(r, box) EXCEPT ![r].pc = "undone"]
    BY <1>1, Zenon DEF Undo, AfterStop, RunRecord, Box
  <2> QED BY <1>1, <2>1 DEF Undo, At, RunRecord, Place, Box, Sound, Keeps, Leaves
<1> QED BY <1>2, OneRun, Zenon DEF Undo, slotVars, IInv, StopShape, ResetShape

LEMMA WaitIInv == ASSUME IInv, NEW r \in Run, Wait(r) \/ WaitBreaks(r) PROVE IInv'
<1>1. run[r] \in RunRecord /\ Sound(r) /\ DOMAIN run = Run
  BY DEF IInv, RunShape
<1>2. run' = [run EXCEPT ![r] = run'[r]] /\ Keeps(r)
  <2>1. PICK box \in Box, e \in Error :
           run' = [Leaves(r, box) EXCEPT ![r].pc = "join", ![r].err = e]
    <3>1. CASE Wait(r)
      BY <1>1, <3>1, Zenon DEF Wait, AfterRemove, RunRecord, Box, Error
    <3>2. CASE WaitBreaks(r)
      BY <1>1, <3>2, Zenon DEF WaitBreaks, AfterRemove, RunRecord, Box, Error
    <3> QED BY <3>1, <3>2
  <2>2. run[r].pc = "wait"
    BY DEF Wait, WaitBreaks, At
  <2> QED BY <1>1, <2>1, <2>2 DEF RunRecord, Place, Box, Sound, Keeps, Leaves
<1> QED BY <1>2, OneRun DEF Wait, WaitBreaks, slotVars, IInv, StopShape, ResetShape

LEMMA K6ExitsIInv == ASSUME IInv, NEW r \in Run, K6Exits(r) PROVE IInv'
<1>1. run[r] \in RunRecord /\ Sound(r) /\ DOMAIN run = Run
  BY DEF IInv, RunShape
<1>2. run' = [run EXCEPT ![r] = run'[r]] /\ Keeps(r)
  BY <1>1 DEF K6Exits, RunRecord, Box, Sound, Keeps
<1> QED BY <1>2, OneRun, Zenon DEF K6Exits, slotVars, IInv, StopShape, ResetShape

\* The chaos sequence touches neither the container nor the slot.
LEMMA ChaosIInv ==
    ASSUME IInv, NEW r \in Run, ChaosGoroutine(r) \/ Stray(r) PROVE IInv'
<1>1. run[r] \in RunRecord /\ Sound(r) /\ DOMAIN run = Run
  BY DEF IInv, RunShape
<1>2. run' = [run EXCEPT ![r] = run'[r]] /\ Keeps(r)
  <2>1. CASE ChaosStep(r)
    <3>1. run[r].name \in Name
      BY <1>1, <2>1 DEF ChaosStep, ChaosRuns, Sound
    <3>2. Sequence(r) \in Seq(Effect) /\ run[r].step \in 1 .. Len(Sequence(r))
      BY <3>1, <2>1, ObservatoryAssumption DEF ChaosStep, ChaosRuns, Sequence
    <3>3. Sequence(r)[run[r].step] \in Effect
      BY <3>2
    <3> QED BY <1>1, <2>1, <3>3 DEF ChaosStep, RunRecord, Sound, Keeps
  <2>2. CASE ChaosDone(r)
    BY <1>1, <2>2 DEF ChaosDone, RunRecord, Sound, Keeps
  <2>3. CASE ChaosFails(r)
    BY <1>1, <2>3 DEF ChaosFails, ChaosEnds, Error, RunRecord, Sound, Keeps
  <2>4. CASE Stray(r)
    BY <1>1, <2>4 DEF Stray, RunRecord, Sound, Keeps
  <2> QED BY <2>1, <2>2, <2>3, <2>4 DEF ChaosGoroutine
<1> QED BY <1>2, OneRun DEF ChaosGoroutine, ChaosStep, ChaosDone, ChaosFails, Stray, slotVars,
                            IInv, StopShape, ResetShape

\* The steps that give the slot on or back.
LEMMA RegisterIInv == ASSUME IInv, NEW r \in Run, Register(r) PROVE IInv'
<1>1. run[r] \in RunRecord /\ Sound(r) /\ DOMAIN run = Run
  BY DEF IInv, RunShape
<1>2. starting = r /\ active = None /\ r # None
  BY <1>1, ObservatoryAssumption DEF IInv, Register, At, Sound
<1>3. run'[r] \in RunRecord /\ run' = [run EXCEPT ![r] = run'[r]]
  BY <1>1, Zenon DEF Register, RunRecord, Place
<1>4. RunShape'
  BY <1>3 DEF IInv, RunShape
<1>5. /\ run'[r].pc = IF run[r].cancelled THEN "undo" ELSE "wait"
      /\ run'[r].name = run[r].name
  BY <1>1 DEF Register, RunRecord
<1>6. \A x \in Run : Sound(x)'
  <2>1. Sound(r)'
    BY <1>1, <1>2, <1>5 DEF Register, At, Sound
  <2>2. ASSUME NEW x \in Run \ {r} PROVE Sound(x)'
    <3>1. run'[x] = run[x] /\ Sound(x)
      BY <1>1, <1>3 DEF IInv
    <3>2. starting' # x /\ starting # x /\ active' # x /\ active # x
      BY <1>2, ObservatoryAssumption DEF Register
    <3> QED BY <3>1, <3>2 DEF Sound
  <2> QED BY <2>1, <2>2
<1>7. (SlotShape /\ StopShape /\ ResetShape /\ None \in {active, starting})'
  BY <1>2 DEF IInv, Register, SlotShape, StopShape, ResetShape
<1> QED BY <1>4, <1>6, <1>7 DEF IInv

LEMMA EndIInv == ASSUME IInv, NEW r \in Run, StartFailed(r) \/ Complete(r) PROVE IInv'
<1>1. run[r] \in RunRecord /\ Sound(r) /\ DOMAIN run = Run
  BY DEF IInv, RunShape
<1> DEFINE q == FreeRun(run[r].box, run[r].wire, run[r].lost)
<1>2. run' = [run EXCEPT ![r] = q]
  BY DEF StartFailed, Complete
<1>3. q \in RunRecord
  BY <1>1 DEF FreeRun, RunRecord, Place, Error
<1>4. RunShape'
  BY <1>2, <1>3 DEF IInv, RunShape
<1>5. run[r].pc \in {"failed", "undone", "join"}
  BY DEF StartFailed, Complete, At
<1>6. /\ active' = IF active = r THEN None ELSE active
      /\ starting' = IF starting = r THEN None ELSE starting
  BY <1>1, <1>5, ObservatoryAssumption DEF StartFailed, Complete, At, Sound
<1>7. \A x \in Run : Sound(x)'
  <2>1. Sound(r)'
    BY <1>1, <1>2, <1>5, <1>6, ObservatoryAssumption DEF FreeRun, Sound
  <2>2. ASSUME NEW x \in Run \ {r} PROVE Sound(x)'
    BY <1>1, <1>2, <1>6, ObservatoryAssumption DEF IInv, Sound
  <2> QED BY <2>1, <2>2
<1>8. (SlotShape /\ StopShape /\ ResetShape /\ None \in {active, starting})'
  BY <1>6 DEF IInv, StartFailed, Complete, SlotShape, StopShape, ResetShape
<1> QED BY <1>4, <1>7, <1>8 DEF IInv

\* The stop handler cancels a run and stops its container.
LEMMA StopIInv ==
    ASSUME IInv, (\E n \in Name : StopClaims(n)) \/ StopHandler PROVE IInv'
<1> USE DEF slotVars
<1>1. CASE \E n \in Name : StopClaims(n)
  <2>1. StopShape'
    BY <1>1 DEF IInv, SlotShape, StopClaims, StopShape, Owner
  <2> QED BY <1>1, <2>1 DEF StopClaims, IInv, RunShape, SlotShape, ResetShape, Sound
<1>2. CASE StopCancels
  <2>1. StopShape' /\ ResetShape'
    BY <1>2 DEF IInv, StopCancels, StopShape, ResetShape
  <2>2. CASE stop.run = None
    <3>1. run' = run
      BY <1>2, <2>2, ObservatoryAssumption DEF IInv, RunShape, StopCancels, Cancel
    <3> QED BY <1>2, <2>1, <3>1 DEF StopCancels, IInv, RunShape, SlotShape, Sound
  <2>3. CASE stop.run \in Run
    <3> DEFINE r == stop.run
    <3>1. run[r] \in RunRecord /\ Sound(r) /\ DOMAIN run = Run
      BY <2>3 DEF IInv, RunShape
    <3>2. run' = [run EXCEPT ![r] = run'[r]] /\ Keeps(r)
      BY <1>2, <2>3, <3>1, Zenon DEF StopCancels, Cancel, RunRecord, Sound, Keeps
    <3> HIDE DEF r
    <3> QED BY <1>2, <2>1, <2>3, <3>2, OneRun DEF StopCancels, IInv, r
  <2> QED BY <2>2, <2>3 DEF IInv, StopShape
<1>3. CASE StopRemoves
  <2>1. StopShape' /\ ResetShape'
    BY <1>3 DEF IInv, StopRemoves, IdleStop, StopShape, ResetShape
  <2>2. CASE stop.box = None
    BY <1>3, <2>1, <2>2 DEF StopRemoves, IInv, RunShape, SlotShape, Sound
  <2>3. CASE stop.box # None
    <3> DEFINE r == stop.box
    <3>1. r \in Run
      BY <2>3 DEF IInv, StopShape
    <3>2. run[r] \in RunRecord /\ Sound(r) /\ DOMAIN run = Run
      BY <3>1 DEF IInv, RunShape
    <3>3. PICK box \in AfterStop(r) : run' = Touched(r, box)
      BY <1>3, <2>3 DEF StopRemoves
    <3>4. box \in Box /\ (box = "running" => run[r].box = "running")
      BY <3>2, <3>3 DEF AfterStop, RunRecord, Box
    <3>5. run' = [run EXCEPT ![r] = run'[r]] /\ Keeps(r)
      BY <3>1, <3>2, <3>3, <3>4, ZenonT(40) DEF Touched, RunRecord, Box, Sound, Keeps
    <3> HIDE DEF r
    <3> QED BY <1>3, <2>1, <3>1, <3>5, OneRun DEF StopRemoves, IInv
  <2> QED BY <2>2, <2>3
<1> QED BY <1>1, <1>2, <1>3 DEF StopHandler

\* Reset and close cancel a run and stop containers; their other steps touch
\* only the faults.
LEMMA ResetCancelsIInv == ASSUME IInv, ResetCancels PROVE IInv'
<1>1. StopShape' /\ ResetShape'
  BY DEF IInv, ResetCancels, ResetGoes, StopShape, ResetShape, ResetPlace
<1>2. CASE reset.run = None
  <2>1. run' = run
    BY <1>2, ObservatoryAssumption DEF IInv, RunShape, ResetCancels, Cancel
  <2> QED BY <1>1, <2>1 DEF ResetCancels, slotVars, IInv, RunShape, SlotShape, Sound
<1>3. CASE reset.run \in Run
  <2> DEFINE r == reset.run
  <2>1. run[r] \in RunRecord /\ Sound(r) /\ DOMAIN run = Run
    BY <1>3 DEF IInv, RunShape
  <2>2. run' = [run EXCEPT ![r] = run'[r]] /\ Keeps(r)
    BY <1>3, <2>1, Zenon DEF ResetCancels, Cancel, RunRecord, Sound, Keeps
  <2> HIDE DEF r
  <2> QED BY <1>1, <1>3, <2>2, OneRun DEF ResetCancels, slotVars, IInv, r
<1> QED BY <1>2, <1>3 DEF IInv, ResetShape

LEMMA FallenShape == ASSUME IInv, reset' = Fallen PROVE ResetShape'
BY Zenon DEF IInv, Fallen, IdleReset, ResetShape, ResetPlace

LEMMA ResetRemovesIInv == ASSUME IInv, ResetRemoves PROVE IInv'
<1>1. StopShape'
  BY DEF IInv, ResetRemoves, StopShape
<1>2. CASE reset' = [reset EXCEPT !.pc = "revive"] /\ UNCHANGED run
  <2>1. ResetShape'
    BY <1>2 DEF IInv, ResetShape, ResetPlace
  <2> QED BY <1>1, <1>2, <2>1 DEF ResetRemoves, slotVars, IInv, RunShape, SlotShape, Sound
<1>3. CASE \E r \in reset.todo : \E box \in AfterStop(r) :
             /\ reset' \in {[reset EXCEPT !.todo = @ \ {r}], Fallen}
             /\ run' = Touched(r, box)
  <2>1. PICK r \in reset.todo : \E box \in AfterStop(r) :
             /\ reset' \in {[reset EXCEPT !.todo = @ \ {r}], Fallen}
             /\ run' = Touched(r, box)
    BY <1>3
  <2>2. r \in Run
    BY DEF IInv, ResetShape
  <2>3. run[r] \in RunRecord /\ Sound(r) /\ DOMAIN run = Run
    BY <2>2 DEF IInv, RunShape
  <2>4. PICK box \in AfterStop(r) :
             /\ reset' \in {[reset EXCEPT !.todo = @ \ {r}], Fallen}
             /\ run' = Touched(r, box)
    BY <2>1
  <2>5. box \in Box /\ (box = "running" => run[r].box = "running")
    BY <2>3, <2>4 DEF AfterStop, RunRecord, Box
  <2>6. run' = [run EXCEPT ![r] = run'[r]] /\ Keeps(r)
    BY <2>2, <2>3, <2>4, <2>5, ZenonT(40) DEF Touched, RunRecord, Box, Sound, Keeps
  <2>7. ResetShape'
    <3>1. CASE reset' = [reset EXCEPT !.todo = @ \ {r}]
      BY <3>1 DEF IInv, ResetShape
    <3> QED BY <2>4, <3>1, FallenShape
  <2> QED BY <1>1, <2>2, <2>6, <2>7, OneRun DEF ResetRemoves, slotVars, IInv
<1> QED BY <1>2, <1>3 DEF ResetRemoves

LEMMA ResetElseIInv ==
    ASSUME IInv,
           \/ ResetClaims \/ Close \/ ResetLists \/ ResetRevives \/ ResetAwaits \/ ResetClears
           \/ ResetToxics \/ ResetVerifies \/ ResetFails \/ ResetAnswers
    PROVE  IInv'
<1> USE DEF ResetClaims, Close, Cleanup, ResetLists, ResetRevives, ResetAwaits, ResetClears,
            ResetToxics, ResetVerifies, ResetFails, ResetAnswers, ResetGoes, slotVars
<1>1. UNCHANGED <<run, active, starting, stop>>
  BY Zenon
<1>2. ResetShape'
  <2>1. CASE ResetClaims \/ Close
    <3>1. Owner \in Run \cup {None}
      BY DEF IInv, SlotShape, Owner
    <3>2. PICK c \in BOOLEAN :
             reset' = [pc |-> IF Owner = None THEN "list" ELSE "cancel",
                       run |-> Owner, todo |-> {}, closing |-> c]
      BY <2>1, ZenonT(20)
    <3> QED BY <3>1, <3>2 DEF ResetShape, ResetPlace
  <2>2. CASE ResetLists
    BY <2>2 DEF IInv, ResetShape, ResetPlace
  <2>3. CASE \E p \in ResetPlace : reset' = [reset EXCEPT !.pc = p]
    BY <2>3 DEF IInv, ResetShape
  <2>4. CASE ResetFails
    BY <2>4, FallenShape
  <2>5. CASE ResetAnswers
    BY <2>5 DEF IInv, IdleReset, ResetShape, ResetPlace
  <2> QED BY <2>1, <2>2, <2>3, <2>4, <2>5 DEF ResetPlace
<1> QED BY <1>1, <1>2 DEF IInv, RunShape, SlotShape, StopShape, Sound

\* A new process starts with an empty slot; what it does not know of is lost.
LEMMA RestartIInv == ASSUME IInv, Restart PROVE IInv'
<1>1. PICK box \in [Run -> Box] :
         /\ \A r \in Run : box[r] \in BoxAfter(r)
         /\ run' = [r \in Run |-> FreeRun(box[r], run[r].wire, box[r] # "none")]
  BY DEF Restart
<1>2. \A r \in Run : run[r] \in RunRecord
  BY DEF IInv, RunShape
<1>3. RunShape'
  <2>1. \A r \in Run : FreeRun(box[r], run[r].wire, box[r] # "none") \in RunRecord
    BY <1>2 DEF FreeRun, RunRecord, Place, Error
  <2> QED BY <1>1, <2>1 DEF RunShape
<1>4. \A r \in Run : Sound(r)'
  BY <1>1, ObservatoryAssumption, Zenon DEF Restart, FreeRun, Sound
<1>5. (SlotShape /\ StopShape /\ ResetShape /\ None \in {active, starting})'
  BY Zenon DEF Restart, IdleStop, IdleReset, SlotShape, StopShape, ResetShape, ResetPlace
<1> QED BY <1>3, <1>4, <1>5 DEF IInv

\* Every step keeps the invariant.
LEMMA NextIInv == IInv /\ [Next]_vars => IInv'
<1> SUFFICES ASSUME IInv, [Next]_vars PROVE IInv'
  OBVIOUS
<1>1. CASE UNCHANGED vars
  BY <1>1 DEF vars, IInv, RunShape, SlotShape, StopShape, ResetShape, Sound
<1>2. CASE Next
  BY <1>2, ClaimIInv, CreateIInv, StartContainerIInv, RegisterIInv, UndoIInv, WaitIInv,
     EndIInv, K6ExitsIInv, ChaosIInv, StopIInv, ResetCancelsIInv, ResetRemovesIInv,
     ResetElseIInv, RestartIInv
     DEF Next, Goroutine, ResetHandler, Exit, Crash
<1> QED BY <1>1, <1>2

\* The inductive invariant holds in every reachable state.
THEOREM Invariant == Spec => []IInv
BY InitIInv, NextIInv, PTL DEF Spec

\* The slot has at most one owner, whose goroutine stands where the slot says,
\* however starts, stops, resets and restarts interleave (app.go:456-571).
THEOREM SlotSafety == Spec => []OneOwner
<1>1. IInv => OneOwner  BY DEF IInv, Sound, OneOwner
<1> QED BY <1>1, Invariant, PTL

\* A container that generates load has a goroutine that will remove it, unless
\* the daemon refused or the process ended (runner.go:125-182, app.go:474-507).
THEOREM ContainerSafety == Spec => []NoOrphan
<1>1. IInv => NoOrphan  BY DEF IInv, Sound, NoOrphan
<1> QED BY <1>1, Invariant, PTL

-----------------------------------------------------------------------------
(* The front. *)

BucketType == [tokens : Int, lastRefill : Int]

ConsoleReqType == [pc : {"idle", "arrived", "admitted"}, addr : Address \cup {Nil}, at : Nat]

\* What the limiter holds and remembers.
FrontShape ==
  /\ now \in Nat
  /\ bucket \in [Address -> BucketType \cup {Nil}]
  /\ admitted \in [Address -> Seq(Nat)]
  /\ req \in [Request -> ConsoleReqType]
  /\ \A q \in Request : req[q].pc = "arrived" => req[q].addr \in Address /\ req[q].at <= now
  /\ \A a \in Address : bucket[a] = Nil => admitted[a] = <<>>

\* The numbers of the limiter.
LEMMA FrontNumbers ==
  /\ Limit \in Nat \ {0} /\ Window \in Nat \ {0} /\ Capacity \in Int /\ Capacity >= Window
<1>1. Limit \in Nat \ {0} /\ Window \in Nat \ {0}
  BY ConsoleAssumption
<1>2. \A l, w \in Nat \ {0} : l * w \in Int /\ l * w >= w
  OBVIOUS
<1> QED BY <1>1, <1>2 DEF Capacity

\* An unseen address has no bucket.
LEMMA NilIsNoBucket == Nil \notin BucketType
BY ConsoleAssumption DEF BucketType

\* What a bucket gains from x to y.
Gain(x, y) == (y - x) * Limit

\* Gains add up.
LEMMA Gains ==
  /\ \A x, y \in Int : Gain(x, y) \in Int
  /\ \A x, y, z \in Int : Gain(x, z) = Gain(x, y) + Gain(y, z)
  /\ \A x, y \in Int : x <= y => Gain(x, y) >= 0
<1>1. Limit \in Nat
  BY FrontNumbers
<1>2. \A x, y, z, l \in Int : /\ (z - x) * l \in Int
                              /\ (z - x) * l = (y - x) * l + (z - y) * l
  OBVIOUS
<1>3. \A d, l \in Nat : d * l >= 0
  OBVIOUS
<1>4. \A x, y \in Int : x <= y => y - x \in Nat
  OBVIOUS
<1> QED BY <1>1, <1>2, <1>3, <1>4 DEF Gain

\* BurstBound, and what is left in the bucket counted in.
Bounded(a, s, t) ==
  /\ Window * Cardinality(LetThrough(a, s, t)) <= Capacity + Gain(s, t)
  /\ LetThrough(a, s, t) # {} =>
        /\ bucket[a] # Nil
        /\ Window * Cardinality(LetThrough(a, s, t)) + Level(bucket[a], t)
              <= Capacity + Gain(s, t)

AllBounded == \A a \in Address : \A s, t \in Nat : s <= t => Bounded(a, s, t)

\* A bucket left alone fills at the rate.
LEMMA LevelRises ==
  ASSUME NEW b \in BucketType, NEW s \in Int, NEW t \in Int
  PROVE  /\ Level(b, t) \in Int /\ Level(b, t) = Level(b, s) + Gain(s, t)
         /\ Level(b, t) = b.tokens + Gain(b.lastRefill, t)
         /\ s <= t => Level(b, t) >= Level(b, s)
<1>1. b.tokens \in Int /\ b.lastRefill \in Int
  BY DEF BucketType
<1>2. /\ Level(b, t) = b.tokens + Gain(b.lastRefill, t)
      /\ Level(b, s) = b.tokens + Gain(b.lastRefill, s)
  BY DEF Level, Gain
<1>3. /\ Gain(b.lastRefill, t) = Gain(b.lastRefill, s) + Gain(s, t)
      /\ Gain(b.lastRefill, t) \in Int /\ Gain(b.lastRefill, s) \in Int /\ Gain(s, t) \in Int
      /\ s <= t => Gain(s, t) >= 0
  BY <1>1, Gains, ZenonT(20)
<1> QED BY <1>1, <1>2, <1>3

\* Allow on a bucket: nothing is gained, a request that is let through is paid
\* for, and paid for out of what is there (app.go:709-725).
LEMMA Charges ==
  ASSUME NEW b \in BucketType, NEW u \in Int
  PROVE  /\ Charged(b, u) \in BucketType
         /\ \A t \in Int : Level(Charged(b, u), t) <= Level(b, t)
         /\ Allows(b, u) =>
              /\ \A t \in Int : Level(Charged(b, u), t) + Window <= Level(b, t)
              /\ \A t \in Int : Level(Charged(b, u), t) + Window <= Capacity + Gain(u, t)
              /\ \A t \in Int : u <= t => Level(Charged(b, u), t) >= 0
         /\ \A t \in Int : u <= t /\ Level(b, t) >= 0 => Level(Charged(b, u), t) >= 0
<1> DEFINE c == Charged(b, u)
           R == Refilled(b, u)
<1>1. b # Nil
  BY ConsoleAssumption DEF BucketType
<1>2. Window \in Nat /\ Capacity \in Int /\ Capacity >= 0
  BY FrontNumbers
<1>3. Level(b, u) \in Int /\ R = IF Level(b, u) > Capacity THEN Capacity ELSE Level(b, u)
  <2>1. Level(b, u) \in Int
    BY LevelRises
  <2> QED BY <2>1 DEF Refilled, Level
<1>4. Allows(b, u) <=> R >= Window
  BY <1>1 DEF Allows
<1>5. c = [tokens |-> R - (IF Allows(b, u) THEN Window ELSE 0), lastRefill |-> u]
  BY <1>1 DEF Charged
<1> HIDE DEF R, c
<1>6. R \in Int /\ R <= Capacity /\ R <= Level(b, u)
  BY <1>2, <1>3
<1>7. /\ c.lastRefill = u /\ c.tokens \in Int /\ c \in BucketType
      /\ Allows(b, u) => c.tokens = R - Window
      /\ ~Allows(b, u) => c.tokens = R
  BY <1>2, <1>5, <1>6 DEF BucketType
<1>8. ASSUME NEW t \in Int
      PROVE  /\ Level(b, t) \in Int /\ Gain(u, t) \in Int
             /\ Level(b, t) = Level(b, u) + Gain(u, t)
             /\ Level(c, t) = c.tokens + Gain(u, t)
             /\ u <= t => Gain(u, t) >= 0
  <2>1. Level(c, t) = c.tokens + Gain(u, t)
    BY <1>7, LevelRises
  <2>2. Gain(u, t) \in Int /\ (u <= t => Gain(u, t) >= 0)
    BY Gains
  <2>3. Level(b, t) \in Int /\ Level(b, t) = Level(b, u) + Gain(u, t)
    BY LevelRises
  <2> QED BY <2>1, <2>2, <2>3
<1>9. ASSUME NEW t \in Int, u <= t, Level(b, t) >= 0, ~Allows(b, u) PROVE Level(c, t) >= 0
  <2>1. CASE Level(b, u) > Capacity
    <3>1. R = Capacity
      BY <1>3, <2>1
    <3> QED BY <1>2, <1>7, <1>8, <1>9, <3>1
  <2>2. CASE ~(Level(b, u) > Capacity)
    <3>1. R = Level(b, u)
      BY <1>3, <2>2
    <3> QED BY <1>7, <1>8, <1>9, <3>1
  <2> QED BY <2>1, <2>2
<1>10. ASSUME Allows(b, u), NEW t \in Int
       PROVE  /\ Level(c, t) + Window <= Level(b, t)
              /\ Level(c, t) + Window <= Capacity + Gain(u, t)
              /\ u <= t => Level(c, t) >= 0
  <2>1. c.tokens + Window = R /\ c.tokens >= 0
    BY <1>2, <1>4, <1>6, <1>7, <1>10
  <2> QED BY <1>2, <1>3, <1>6, <1>7, <1>8, <2>1
<1>11. ASSUME NEW t \in Int PROVE Level(c, t) <= Level(b, t)
  <2>1. c.tokens <= R
    BY <1>2, <1>6, <1>7
  <2> QED BY <1>3, <1>6, <1>7, <1>8, <2>1
<1> QED BY <1>7, <1>9, <1>10, <1>11 DEF c

\* The first request of an address.
LEMMA FirstCharge ==
  ASSUME NEW u \in Int
  PROVE  /\ Allows(Nil, u) /\ Charged(Nil, u) \in BucketType
         /\ \A t \in Int : Level(Charged(Nil, u), t) + Window = Capacity + Gain(u, t)
         /\ \A t \in Int : u <= t => Level(Charged(Nil, u), t) >= 0
<1>1. Allows(Nil, u)
  BY DEF Allows
<1>2. Charged(Nil, u) = [tokens |-> Capacity - Window, lastRefill |-> u]
  BY DEF Charged
<1>3. Window \in Nat /\ Capacity \in Int /\ Capacity >= Window
  BY FrontNumbers
<1>4. Charged(Nil, u) \in BucketType
  BY <1>2, <1>3 DEF BucketType
<1>5. ASSUME NEW t \in Int PROVE Level(Charged(Nil, u), t) = Capacity - Window + Gain(u, t)
  BY <1>2 DEF Level, Gain
<1>6. ASSUME NEW t \in Int PROVE Gain(u, t) \in Int /\ (u <= t => Gain(u, t) >= 0)
  BY Gains
<1> QED BY <1>1, <1>3, <1>4, <1>5, <1>6

\* The times an address was let through at, in I.
Between(times, I) == {k \in DOMAIN times : times[k] \in I}

\* They can be counted.
LEMMA BetweenFinite ==
  ASSUME NEW times \in Seq(Nat), NEW I
  PROVE  IsFiniteSet(Between(times, I)) /\ Cardinality(Between(times, I)) \in Nat
<1>1. DOMAIN times = 1 .. Len(times) /\ Len(times) \in Nat
  OBVIOUS
<1>2. IsFiniteSet(1 .. Len(times))
  BY <1>1, FS_Interval
<1>3. Between(times, I) \subseteq 1 .. Len(times)
  BY <1>1 DEF Between
<1> QED BY <1>2, <1>3, FS_Subset, FS_CardinalityType

\* One more time is counted where it belongs and nowhere else.
LEMMA OneMore ==
  ASSUME NEW times, NEW more, NEW n, NEW I,
         n \notin DOMAIN times, DOMAIN more = DOMAIN times \cup {n},
         \A k \in DOMAIN times : more[k] = times[k],
         IsFiniteSet(Between(times, I))
  PROVE  /\ more[n] \in I =>
              /\ Cardinality(Between(more, I)) = Cardinality(Between(times, I)) + 1
              /\ Between(more, I) # {}
         /\ more[n] \notin I => Between(more, I) = Between(times, I)
<1>1. n \notin Between(times, I)
  BY DEF Between
<1>2. ASSUME more[n] \in I PROVE Between(more, I) = Between(times, I) \cup {n}
  BY <1>2 DEF Between
<1>3. ASSUME more[n] \notin I PROVE Between(more, I) = Between(times, I)
  BY <1>3 DEF Between
<1> QED BY <1>1, <1>2, <1>3, FS_AddElement

\* Any call of Allow, in whatever order the times come.
LEMMA LimitedStep ==
  ASSUME FrontShape, NoDebt, AllBounded, NEW q \in Request, Limited(q)
  PROVE  FrontShape' /\ NoDebt' /\ AllBounded'
<1> DEFINE a == req[q].addr
           u == req[q].at
           b == bucket[a]
           c == Charged(b, u)
           ok == Allows(b, u)
<1>1. /\ a \in Address /\ u \in Nat /\ u <= now /\ now \in Nat
      /\ b \in BucketType \cup {Nil}
      /\ admitted[a] \in Seq(Nat)
      /\ b = Nil => admitted[a] = <<>>
  BY DEF FrontShape, ConsoleReqType, Limited
<1>2. /\ bucket' = [bucket EXCEPT ![a] = c]
      /\ admitted' = IF ok THEN [admitted EXCEPT ![a] = Append(@, u)] ELSE admitted
      /\ req' = [req EXCEPT ![q] = IF ok THEN [@ EXCEPT !.pc = "admitted"] ELSE IdleReq]
      /\ now' = now
  BY DEF Limited
<1>1a. u \in Int
  BY <1>1
<1> HIDE DEF a, u, b, c, ok
<1>3. c \in BucketType /\ c # Nil
  <2>1. CASE b = Nil
    BY ONLY <1>1a, <2>1, FirstCharge, NilIsNoBucket, Zenon DEF c
  <2>2. CASE b # Nil
    BY ONLY <1>1, <1>1a, <2>2, Charges, NilIsNoBucket DEF c
  <2> QED BY <2>1, <2>2
<1>4. /\ bucket'[a] = c
      /\ \A x \in Address : x # a => bucket'[x] = bucket[x] /\ admitted'[x] = admitted[x]
      /\ ok => admitted'[a] = Append(admitted[a], u)
      /\ ~ok => admitted'[a] = admitted[a]
  BY <1>1, <1>2 DEF FrontShape
<1>5. FrontShape'
  <2>1. bucket' \in [Address -> BucketType \cup {Nil}]
    BY <1>2, <1>3, Zenon DEF FrontShape
  <2>2. admitted' \in [Address -> Seq(Nat)]
    <3>1. Append(admitted[a], u) \in Seq(Nat)
      BY <1>1
    <3> QED BY <1>1, <1>2, <3>1 DEF FrontShape
  <2>3. /\ req' \in [Request -> ConsoleReqType]
        /\ \A p \in Request : req'[p].pc = "arrived" => req'[p].addr \in Address /\ req'[p].at <= now'
    BY <1>2 DEF FrontShape, ConsoleReqType, IdleReq
  <2>4. \A x \in Address : bucket'[x] = Nil => admitted'[x] = <<>>
    BY <1>3, <1>4 DEF FrontShape
  <2> QED BY <1>1, <1>2, <2>1, <2>2, <2>3, <2>4 DEF FrontShape
<1>6. NoDebt'
  <2> SUFFICES ASSUME NEW x \in Address, bucket'[x] # Nil PROVE Level(bucket'[x], now) >= 0
    BY <1>2 DEF NoDebt, Level
  <2>1. CASE x # a
    BY <1>4, <2>1, Zenon DEF NoDebt, b
  <2>2. CASE x = a /\ b = Nil
    BY <1>1, <1>4, <2>2, FirstCharge DEF c
  <2>3. CASE x = a /\ b # Nil
    <3>1. Level(b, now) >= 0
      BY <1>1, <2>3 DEF NoDebt, b
    <3> QED BY <1>1, <1>4, <2>3, <3>1, Charges DEF c
  <2> QED BY <2>1, <2>2, <2>3
<1>7. AllBounded'
  <2> SUFFICES ASSUME NEW x \in Address, NEW s \in Nat, NEW t \in Nat, s <= t
               PROVE  Bounded(x, s, t)'
    BY DEF AllBounded
  <2>1. Bounded(x, s, t)
    BY Zenon DEF AllBounded
  <2>2. CASE x # a
    BY <1>4, <2>1, <2>2, Zenon DEF Bounded, LetThrough
  <2>3. CASE x = a
    <3> DEFINE span == s .. t
               I == Between(admitted[a], span)
               J == Between(admitted'[a], span)
    <3>0. s \in Nat /\ t \in Nat
      OBVIOUS
    <3>1. LetThrough(x, s, t) = I /\ LetThrough(x, s, t)' = J
      BY <2>3 DEF LetThrough, Between
    <3>2. /\ IsFiniteSet(I) /\ Cardinality(I) \in Nat
          /\ Window * Cardinality(I) <= Capacity + Gain(s, t)
          /\ I # {} => /\ b # Nil
                       /\ Window * Cardinality(I) + Level(b, t) <= Capacity + Gain(s, t)
      BY <1>1, <2>1, <2>3, <3>1, BetweenFinite DEF Bounded, b
    <3>3. SUFFICES /\ Window * Cardinality(J) <= Capacity + Gain(s, t)
                   /\ J # {} => Window * Cardinality(J) + Level(c, t) <= Capacity + Gain(s, t)
      BY <1>3, <1>4, <2>3, <3>1 DEF Bounded, Gain, Level
    <3> HIDE DEF I, J
    <3>4. /\ Window \in Nat /\ Capacity \in Int /\ Gain(s, t) \in Int /\ Gain(u, t) \in Int
          /\ Level(c, t) \in Int /\ (b # Nil => Level(b, t) \in Int)
          /\ Window * Cardinality(I) \in Int
          /\ Window * (Cardinality(I) + 1) = Window * Cardinality(I) + Window
      <4>1. Window \in Nat /\ Cardinality(I) \in Nat
        BY <3>2, FrontNumbers
      <4>2. /\ Window * Cardinality(I) \in Int
            /\ Window * (Cardinality(I) + 1) = Window * Cardinality(I) + Window
        BY ONLY <4>1
      <4>3. Capacity \in Int /\ Gain(s, t) \in Int /\ Gain(u, t) \in Int
        BY <1>1a, FrontNumbers, Gains
      <4>4. t \in Int
        OBVIOUS
      <4>5. Level(c, t) \in Int
        BY ONLY <1>3, <4>4, LevelRises, Zenon
      <4>6. b # Nil => Level(b, t) \in Int
        BY ONLY <1>1, <4>4, LevelRises, Zenon
      <4> QED BY <4>1, <4>2, <4>3, <4>5, <4>6
    <3>7. ASSUME ok
          PROVE  /\ u \in s .. t => /\ Cardinality(Between(admitted'[a], span)) =
                                          Cardinality(Between(admitted[a], span)) + 1
                                     /\ Between(admitted'[a], span) # {}
                 /\ u \notin s .. t =>
                       Between(admitted'[a], span) = Between(admitted[a], span)
      <4> DEFINE n == Len(admitted[a]) + 1
                 times == admitted[a]
                 more == admitted'[a]
      <4>1. times \in Seq(Nat) /\ u \in Nat /\ more = Append(times, u)
        BY <1>1, <1>4, <3>7
      <4>2. /\ n \notin DOMAIN times /\ DOMAIN more = DOMAIN times \cup {n}
            /\ \A k \in DOMAIN times : more[k] = times[k]
            /\ more[n] = u
        BY ONLY <4>1
      <4>3. IsFiniteSet(Between(times, span))
        BY ONLY <4>1, BetweenFinite, Zenon
      <4> HIDE DEF n, times, more, span
      <4>4. /\ more[n] \in span => /\ Cardinality(Between(more, span)) =
                                        Cardinality(Between(times, span)) + 1
                                   /\ Between(more, span) # {}
            /\ more[n] \notin span => Between(more, span) = Between(times, span)
        BY ONLY <4>2, <4>3, OneMore
      <4> QED BY ONLY <4>2, <4>4, Zenon DEF times, more, span
    <3>5. CASE ok /\ u \in s .. t
      <4>1. J # {} /\ Cardinality(J) = Cardinality(I) + 1
        BY ONLY <3>5, <3>7 DEF I, J
      <4>2. Gain(u, t) <= Gain(s, t)
        <5>1. Gain(s, t) = Gain(s, u) + Gain(u, t) /\ Gain(s, u) >= 0 /\ Gain(s, u) \in Int
          <6>1. s \in Int /\ t \in Int /\ s <= u
            BY <3>5
          <6> QED BY ONLY <1>1a, <6>1, Gains
        <5> QED BY <3>4, <5>1
      <4>3. /\ Level(c, t) >= 0 /\ Level(c, t) + Window <= Capacity + Gain(u, t)
            /\ b # Nil => Level(c, t) + Window <= Level(b, t)
        <5>1. u \in Int /\ t \in Int /\ u <= t
          BY <1>1, <3>5
        <5>2. CASE b = Nil
          BY <3>4, <5>1, <5>2, FirstCharge DEF c
        <5>3. CASE b # Nil
          BY <1>1, <3>5, <5>1, <5>3, Charges DEF c, ok
        <5> QED BY <5>2, <5>3
      <4>4. CASE I = {}
        <5>1. Cardinality(I) = 0
          BY <4>4, FS_EmptySet
        <5>2. Window * Cardinality(J) = Window
          BY <3>4, <4>1, <5>1
        <5> QED BY <3>4, <4>2, <4>3, <5>2
      <4>5. CASE I # {}
        <5>1. Window * Cardinality(J) = Window * Cardinality(I) + Window
          BY <3>4, <4>1, Zenon
        <5> QED BY <3>2, <3>4, <4>3, <4>5, <5>1
      <4> QED BY <4>4, <4>5
    <3>6. CASE ~(ok /\ u \in s .. t)
      <4>1. J = I
        BY ONLY <1>4, <3>6, <3>7, ZenonT(20) DEF I, J
      <4>2. b # Nil => Level(c, t) <= Level(b, t)
        BY <1>1, Charges DEF c
      <4> QED BY <3>2, <3>4, <4>1, <4>2
    <3> QED BY <3>5, <3>6, Zenon
  <2> QED BY <2>2, <2>3
<1> QED BY <1>5, <1>6, <1>7

\* The limiter's books are right, whatever the order of the times.
FrontInv == FrontShape /\ NoDebt /\ AllBounded

\* Nobody has been seen.
LEMMA FrontStart == ConsoleInit => FrontInv
<1> SUFFICES ASSUME ConsoleInit PROVE FrontInv
  OBVIOUS
<1>1. /\ now = 0 /\ bucket = [a \in Address |-> Nil] /\ req = [q \in Request |-> IdleReq]
      /\ admitted = [a \in Address |-> <<>>]
  BY DEF ConsoleInit
<1>2. FrontShape
  BY <1>1 DEF FrontShape, ConsoleReqType, IdleReq
<1>3. NoDebt
  BY <1>1 DEF NoDebt
<1>4. AllBounded
  <2> SUFFICES ASSUME NEW a \in Address, NEW s \in Nat, NEW t \in Nat, s <= t
               PROVE  Bounded(a, s, t)
    BY DEF AllBounded
  <2>1. LetThrough(a, s, t) = {}
    BY <1>1 DEF LetThrough
  <2>2. Cardinality(LetThrough(a, s, t)) = 0
    BY <2>1, FS_EmptySet
  <2>3. Gain(s, t) \in Int /\ Gain(s, t) >= 0 /\ Window \in Nat /\ Capacity \in Int /\ Capacity >= 0
    <3>1. s \in Int /\ t \in Int
      OBVIOUS
    <3> QED BY <3>1, Gains, FrontNumbers
  <2>4. Window * Cardinality(LetThrough(a, s, t)) = 0
    BY <2>2, <2>3
  <2> QED BY <2>1, <2>3, <2>4 DEF Bounded
<1> QED BY <1>2, <1>3, <1>4 DEF FrontInv

\* A step that leaves the limiter alone.
LEMMA BucketsUnchanged ==
  ASSUME FrontInv, UNCHANGED <<bucket, admitted>>, now' \in Nat, now <= now',
         req' \in [Request -> ConsoleReqType],
         \A q \in Request : req'[q].pc = "arrived" => req'[q].addr \in Address /\ req'[q].at <= now'
  PROVE  FrontInv'
<1>1. FrontShape'
  BY Zenon DEF FrontInv, FrontShape
<1>2. NoDebt'
  <2> SUFFICES ASSUME NEW a \in Address, bucket[a] # Nil PROVE Level(bucket[a], now') >= 0
    BY DEF NoDebt, Level
  <2>1. bucket[a] \in BucketType /\ now \in Int /\ now' \in Int /\ Level(bucket[a], now) >= 0
    BY DEF FrontInv, FrontShape, NoDebt
  <2>2. /\ Level(bucket[a], now') \in Int /\ Level(bucket[a], now) \in Int
        /\ Level(bucket[a], now') >= Level(bucket[a], now)
    BY <2>1, LevelRises, ZenonT(20)
  <2> QED BY <2>1, <2>2
<1>3. AllBounded'
  BY DEF FrontInv, AllBounded, Bounded, LetThrough, Level, Gain
<1> QED BY <1>1, <1>2, <1>3 DEF FrontInv

\* Every step of the front.
LEMMA FrontStep == FrontInv /\ [ConsoleNext]_consoleVars => FrontInv'
<1> SUFFICES ASSUME FrontInv, [ConsoleNext]_consoleVars PROVE FrontInv'
  OBVIOUS
<1>1. /\ now \in Nat /\ req \in [Request -> ConsoleReqType]
      /\ \A q \in Request : req[q].pc = "arrived" => req[q].addr \in Address /\ req[q].at <= now
  BY DEF FrontInv, FrontShape
<1>2. CASE Boot \/ Refresh \/ UNCHANGED consoleVars
  BY <1>1, <1>2, BucketsUnchanged DEF Boot, Refresh, consoleVars
<1>3. CASE Tick
  <2>1. now' \in Nat /\ now <= now' /\ UNCHANGED <<bucket, admitted, req>>
    BY <1>1, <1>3 DEF Tick
  <2>2. \A q \in Request : req'[q].pc = "arrived" => req'[q].addr \in Address /\ req'[q].at <= now'
    BY <1>1, <2>1 DEF ConsoleReqType
  <2> QED BY <1>1, <2>1, <2>2, BucketsUnchanged
<1>4. ASSUME NEW q \in Request, Arrive(q) PROVE FrontInv'
  <2>1. PICK a \in Address : req' = [req EXCEPT ![q] = [pc |-> "arrived", addr |-> a, at |-> now]]
    BY <1>4, Zenon DEF Arrive
  <2>2. UNCHANGED <<now, bucket, admitted>>
    BY <1>4, Zenon DEF Arrive
  <2>3. /\ req' \in [Request -> ConsoleReqType]
        /\ \A p \in Request : req'[p].pc = "arrived" => req'[p].addr \in Address /\ req'[p].at <= now'
    BY <1>1, <2>1, <2>2 DEF ConsoleReqType
  <2> QED BY <1>1, <2>2, <2>3, BucketsUnchanged
<1>5. ASSUME NEW q \in Request, Limited(q) PROVE FrontInv'
  BY <1>5, LimitedStep DEF FrontInv
<1>6. ASSUME NEW q \in Request, NEW ask \in Ask, Refuse(q, ask) \/ Start(q, ask) PROVE FrontInv'
  <2>1. req' = [req EXCEPT ![q] = IdleReq] /\ UNCHANGED <<now, bucket, admitted>>
    BY <1>6 DEF Refuse, Start, Replies
  <2>2. /\ req' \in [Request -> ConsoleReqType]
        /\ \A p \in Request : req'[p].pc = "arrived" => req'[p].addr \in Address /\ req'[p].at <= now'
    BY <1>1, <2>1 DEF ConsoleReqType, IdleReq
  <2>3. now' \in Nat /\ now <= now' /\ UNCHANGED <<bucket, admitted>>
    BY ONLY <1>1, <2>1
  <2> QED BY ONLY FrontInv, <2>2, <2>3, BucketsUnchanged, ZenonT(40)
<1> QED BY <1>2, <1>3, <1>4, <1>5, <1>6 DEF ConsoleNext

\* The books of the per-address limiter, for times in any order (app.go:691-728).
THEOREM FrontInvariant == ConsoleSpec => []FrontInv
BY FrontStart, FrontStep, PTL DEF ConsoleSpec

\* No address is let through more often than a full bucket and its refill allow
\* (app.go:691-728), for any limit and window, any number of addresses and of
\* requests that overtake each other between the clock and the mutex.
THEOREM BurstSafety == ConsoleSpec => []BurstBound
<1>1. FrontInv => BurstBound
  <2> SUFFICES ASSUME FrontInv, NEW a \in Address, NEW s \in 0 .. MaxTime, NEW t \in 0 .. MaxTime,
                      s <= t
               PROVE  Window * Cardinality(LetThrough(a, s, t)) <= Capacity + (t - s) * Limit
    BY DEF BurstBound
  <2>1. s \in Nat /\ t \in Nat
    BY ConsoleAssumption
  <2> QED BY <2>1 DEF FrontInv, AllBounded, Bounded, Gain
<1> QED BY <1>1, FrontInvariant, PTL

\* Nor does any order of the times put an address into debt (app.go:709-715).
THEOREM DebtSafety == ConsoleSpec => []NoDebt
<1>1. FrontInv => NoDebt
  BY Zenon DEF FrontInv
<1> QED BY <1>1, FrontInvariant, PTL

\* The options of a scenario in the catalog are within the caps.
WithinCaps(s) ==
  /\ s.durations \subseteq 1 .. MaxDuration
  /\ \A i \in DOMAIN s.rps : s.rps[i] \in 1 .. MaxRPS

\* Validate leaves a scenario it accepts within the caps (scenarios.go:96).
LEMMA ValidatedWithinCaps ==
  ASSUME NEW f, {"durations", "rps"} \subseteq DOMAIN f, f.durations \subseteq Int,
         f.rps \in [DOMAIN f.rps -> Int], Valid(f)
  PROVE  WithinCaps(Validated(f))
<1>1. MaxDuration \in Nat \ {0} /\ MaxRPS \in Nat \ {0}
  BY ConsoleAssumption
<1>2. \A n \in Int, cap \in Nat \ {0} : n > 0 => Clamp(n, cap) \in 1 .. cap
  BY DEF Clamp
<1>3. /\ Validated(f).durations = {Clamp(d, MaxDuration) : d \in f.durations}
      /\ Validated(f).rps = [i \in DOMAIN f.rps |-> Clamp(f.rps[i], MaxRPS)]
  BY DEF Validated
<1>4. /\ \A d \in f.durations : d \in Int /\ d > 0
      /\ \A i \in DOMAIN f.rps : f.rps[i] \in Int /\ f.rps[i] > 0
  BY Zenon DEF Valid
<1>5. \A d \in f.durations : Clamp(d, MaxDuration) \in 1 .. MaxDuration
  BY <1>1, <1>2, <1>4
<1>6. \A i \in DOMAIN f.rps : Clamp(f.rps[i], MaxRPS) \in 1 .. MaxRPS
  BY <1>1, <1>2, <1>4, Zenon
<1> QED BY <1>3, <1>5, <1>6 DEF WithinCaps

\* So does loadScenarios.
LEMMA LoadedWithinCaps ==
  ASSUME NEW fs \in FileLists, NEW n \in DOMAIN LoadScenarios(fs)
  PROVE  WithinCaps(LoadScenarios(fs)[n])
<1> DEFINE loaded == {k \in DOMAIN fs : Loads(fs, k)}
           kk == CHOOSE k \in loaded : fs[k].name = n
<1>1. n \in {fs[k].name : k \in loaded} /\ LoadScenarios(fs)[n] = Validated(fs[kk])
  BY Zenon DEF LoadScenarios
<1>2. kk \in loaded
  BY <1>1
<1>3. Valid(fs[kk]) /\ kk \in DOMAIN fs
  BY <1>2, Zenon DEF Loads
<1> HIDE DEF loaded, kk
<1> QED BY <1>1, <1>3, ValidatedWithinCaps, ConsoleAssumption, Zenon

\* A lookup that succeeds returns what is listed (scenarios.go:281).
LEMMA ResolvedIsListed ==
  ASSUME NEW s, NEW ask, ResolveRun(s, ask) # Nil
  PROVE  LET r == ResolveRun(s, ask) IN
         /\ TrimSpace(ask.intensity) \in DOMAIN s.rps /\ r.rps = s.rps[TrimSpace(ask.intensity)]
         /\ r.duration \in s.durations /\ r.duration = Clamp(ask.duration, MaxDuration)
BY Zenon DEF ResolveRun

\* What is listed is found.
LEMMA ListedIsResolved ==
  ASSUME NEW s, WithinCaps(s), NEW ask, TrimSpace(ask.intensity) \in DOMAIN s.rps,
         ask.duration \in s.durations
  PROVE  ResolveRun(s, ask) # Nil
<1>1. ask.duration \in 1 .. MaxDuration /\ MaxDuration \in Nat
  BY ConsoleAssumption DEF WithinCaps
<1>2. Clamp(ask.duration, MaxDuration) = ask.duration /\ ask.duration > 0 /\ ask.duration \in Int
  BY <1>1 DEF Clamp
<1>3. s.rps[TrimSpace(ask.intensity)] \in Int
  BY ConsoleAssumption DEF WithinCaps
<1>4. ResolveRun(s, ask) = [rps |-> s.rps[TrimSpace(ask.intensity)], duration |-> ask.duration]
  BY <1>2, Zenon DEF ResolveRun
<1> QED BY <1>2, <1>3, <1>4, ConsoleAssumption

\* The catalog is what the files give, and no request is answered before it is loaded.
CatalogInv ==
  /\ files \in FileLists
  /\ \A n \in DOMAIN catalog : WithinCaps(catalog[n])
  /\ proc = "boot" => answer = Nil /\ \A q \in Request : req[q].pc = "idle"
  /\ RunsAsOffered

\* The intensity that is asked for is listed without blanks.
ListedPlain(ask) ==
  \E o \in Listed(ask.name, catalog[ask.name]) : o.intensity = TrimSpace(ask.intensity)

\* A run that is started is one on offer (api.go:18).
LEMMA StartAsOffered ==
  ASSUME NEW ask, WithinCaps(catalog[ask.name]), ask.name \in DOMAIN catalog,
         Refusals(ask) = Busy, NEW opt,
         opt.rps = ResolveRun(catalog[ask.name], ask).rps,
         opt.duration = ResolveRun(catalog[ask.name], ask).duration
  PROVE  AsOffered(Listed(ask.name, catalog[ask.name]), ask, 200, opt)
<1> DEFINE s == catalog[ask.name]
           r == ResolveRun(s, ask)
           i == TrimSpace(ask.intensity)
<1>1. r # Nil
  <2>1. 409 \in Refusals(ask)
    BY DEF Busy
  <2> QED BY ONLY <2>1, ask.name \in DOMAIN catalog DEF Refusals
<1>2. WithinCaps(s) /\ opt.rps = r.rps /\ opt.duration = r.duration
  BY Zenon
<1>3. /\ i \in DOMAIN s.rps /\ r.rps = s.rps[i] /\ r.duration \in s.durations
      /\ r.duration = Clamp(ask.duration, MaxDuration)
  BY ONLY <1>1, ResolvedIsListed, ZenonT(20)
<1>4. [name |-> ask.name, intensity |-> i, duration |-> r.duration, rps |-> s.rps[i]]
        \in Listed(ask.name, catalog[ask.name])
  BY ONLY <1>3 DEF Listed
<1> HIDE DEF r, s, i
<1>5. r.rps \in 1 .. MaxRPS /\ r.duration \in 1 .. MaxDuration
  BY ONLY <1>2, <1>3, Zenon DEF WithinCaps
<1>6. \E o \in Listed(ask.name, catalog[ask.name]) : Meets(o, ask, opt)
  <2> DEFINE o == [name |-> ask.name, intensity |-> i, duration |-> r.duration, rps |-> s.rps[i]]
  <2>1. o.intensity = i /\ o.duration = r.duration /\ o.rps = s.rps[i]
    OBVIOUS
  <2>2. o \in Listed(ask.name, catalog[ask.name])
    BY <1>4
  <2> HIDE DEF o
  <2>3. Meets(o, ask, opt)
    BY ONLY <1>2, <1>3, <2>1 DEF Meets, i
  <2> QED BY ONLY <2>2, <2>3
<1>7. ListedPlain(ask)
  BY ONLY <1>6 DEF ListedPlain, Meets
<1> QED BY ONLY <1>2, <1>5, <1>6, <1>7 DEF AsOffered, ListedPlain

\* What is on offer is refused only for want of the slot or by the runner.
LEMMA RefuseAsOffered ==
  ASSUME NEW ask, WithinCaps(catalog[ask.name]), ask.name \in DOMAIN catalog,
         NEW code \in Refusals(ask), NEW opt
  PROVE  AsOffered(Listed(ask.name, catalog[ask.name]), ask, code, opt)
<1> DEFINE s == catalog[ask.name]
<1>1. code # 200
  BY DEF Refusals, Busy
<1>2. ASSUME ask.auth, ask.decodes, code \notin Busy
      PROVE  ResolveRun(s, ask) = Nil /\ code = 400
  <2>1. ask.name \in DOMAIN catalog /\ code \in Refusals(ask)
    OBVIOUS
  <2> QED BY ONLY <1>2, <2>1, ZenonT(20) DEF Refusals
<1>3. ASSUME NEW o \in Listed(ask.name, catalog[ask.name]), AsksFor(ask, o), ListedPlain(ask)
      PROVE  ResolveRun(s, ask) # Nil
  <2>1. PICK i \in DOMAIN s.rps, d \in s.durations :
            o = [name |-> ask.name, intensity |-> i, duration |-> d, rps |-> s.rps[i]]
    BY ONLY <1>3 DEF Listed
  <2>2. ask.duration \in s.durations
    <3>1. o.duration = d
      BY ONLY <2>1
    <3> QED BY ONLY <1>3, <2>1, <3>1, Zenon DEF AsksFor
  <2>3. TrimSpace(ask.intensity) \in DOMAIN s.rps
    <3>1. PICK p \in Listed(ask.name, catalog[ask.name]) : p.intensity = TrimSpace(ask.intensity)
      BY ONLY <1>3, Zenon DEF ListedPlain
    <3>2. PICK k \in DOMAIN s.rps, e \in s.durations :
              p = [name |-> ask.name, intensity |-> k, duration |-> e, rps |-> s.rps[k]]
      BY ONLY <3>1 DEF Listed
    <3>3. p.intensity = k
      BY ONLY <3>2
    <3> QED BY ONLY <3>1, <3>2, <3>3, Zenon
  <2>4. WithinCaps(s)
    OBVIOUS
  <2> HIDE DEF s
  <2> QED BY ONLY <2>2, <2>3, <2>4, ListedIsResolved, Zenon
<1>4. ASSUME ask.auth, ask.decodes, code \notin Busy,
             NEW o \in Listed(ask.name, catalog[ask.name]), AsksFor(ask, o)
      PROVE  code = 400 /\ ~ListedPlain(ask)
  BY ONLY <1>2, <1>3, <1>4, Zenon
<1> QED BY ONLY <1>1, <1>4 DEF AsOffered, ListedPlain

\* Every answer of the run handler is in keeping with the list.
LEMMA ReplyAsOffered ==
  ASSUME CatalogInv, NEW q \in Request, NEW ask \in Ask, Refuse(q, ask) \/ Start(q, ask)
  PROVE  RunsAsOffered'
<1>1. SUFFICES ASSUME ask.name \in DOMAIN catalog
               PROVE  AsOffered(Listed(ask.name, catalog[ask.name]), ask, answer'.code, answer'.run)
  <2>1. answer'.ask = ask /\ catalog' = catalog
    <3>1. PICK code, opt : Replies(q, ask, code, opt)
      <4>1. CASE Start(q, ask)
        BY ONLY <4>1 DEF Start
      <4>2. CASE Refuse(q, ask)
        BY ONLY <4>2, ZenonT(20) DEF Refuse
      <4> QED BY <4>1, <4>2, ZenonT(40)
    <3> QED BY ONLY <3>1 DEF Replies
  <2> QED BY ONLY <2>1, <1>1, ZenonT(20) DEF RunsAsOffered
<1>2. WithinCaps(catalog[ask.name])
  BY ONLY CatalogInv, <1>1, ZenonT(40) DEF CatalogInv
<1>3. CASE Start(q, ask)
  <2>1. /\ Refusals(ask) = Busy
        /\ answer'.code = 200
        /\ answer'.run.rps = ResolveRun(catalog[ask.name], ask).rps
        /\ answer'.run.duration = ResolveRun(catalog[ask.name], ask).duration
    BY ONLY <1>3, ZenonT(20) DEF Start, Replies
  <2> QED BY ONLY <1>1, <1>2, <2>1, StartAsOffered
<1>4. CASE Refuse(q, ask)
  <2>1. answer'.code \in Refusals(ask)
    BY ONLY <1>4 DEF Refuse, Replies
  <2> QED BY ONLY <1>1, <1>2, <2>1, RefuseAsOffered
<1> QED BY <1>3, <1>4, Zenon

\* The catalog is loaded once, before anything is answered.
LEMMA CatalogStep == CatalogInv /\ [ConsoleNext]_consoleVars => CatalogInv'
<1> SUFFICES ASSUME CatalogInv, [ConsoleNext]_consoleVars PROVE CatalogInv'
  BY Zenon
<1>1. CASE Boot
  <2>1. /\ proc = "boot" /\ answer = Nil /\ proc' # "boot" /\ UNCHANGED <<files, req, answer>>
        /\ catalog' = LoadScenarios(files)
    BY <1>1, Zenon DEF Boot, CatalogInv
  <2>2. \A n \in DOMAIN catalog' : WithinCaps(catalog'[n])
    BY <2>1, LoadedWithinCaps, Zenon DEF CatalogInv
  <2> QED BY <2>1, <2>2, Zenon DEF CatalogInv, RunsAsOffered
<1>2. ASSUME UNCHANGED <<proc, files, catalog, answer>>, proc # "boot" \/ UNCHANGED req
      PROVE  CatalogInv'
  <2>1. RunsAsOffered /\ UNCHANGED <<catalog, answer>>
    BY <1>2, Zenon DEF CatalogInv
  <2>2. RunsAsOffered'
    BY ONLY <2>1, ZenonT(20) DEF RunsAsOffered
  <2> QED BY <1>2, <2>2, Zenon DEF CatalogInv
<1>3. CASE Refresh \/ Tick \/ UNCHANGED consoleVars
  BY <1>2, <1>3, Zenon DEF Refresh, Tick, consoleVars
<1>4. ASSUME NEW q \in Request, Arrive(q) PROVE CatalogInv'
  BY <1>2, <1>4 DEF Arrive
<1>5. ASSUME NEW q \in Request, Limited(q) PROVE CatalogInv'
  <2>1. proc # "boot"
    BY <1>5 DEF Limited, CatalogInv
  <2> QED BY <1>2, <1>5, <2>1 DEF Limited
<1>6. ASSUME NEW q \in Request, NEW ask \in Ask, Refuse(q, ask) \/ Start(q, ask) PROVE CatalogInv'
  <2>1. proc # "boot" /\ UNCHANGED <<proc, files, catalog>>
    BY <1>6 DEF Refuse, Start, Replies, CatalogInv
  <2>2. RunsAsOffered'
    BY <1>6, ReplyAsOffered
  <2> QED BY ONLY CatalogInv, <2>1, <2>2, ZenonT(40) DEF CatalogInv
<1> QED BY <1>1, <1>3, <1>4, <1>5, <1>6 DEF ConsoleNext

\* Every run is the offer that was asked for, and an offer is refused only for want
\* of the slot, by the runner, or because it is listed only with blanks around it
\* (scenarios.go:96,281-300, api.go:18), for any scenario files, caps and requests.
THEOREM OfferSafety == ConsoleSpec => []RunsAsOffered
<1>1. ConsoleInit => CatalogInv
  <2> SUFFICES ASSUME ConsoleInit PROVE CatalogInv
    OBVIOUS
  <2>1. /\ files \in FileLists /\ answer = Nil /\ DOMAIN catalog = {}
        /\ \A q \in Request : req[q].pc = "idle"
    BY ONLY ConsoleInit DEF ConsoleInit, IdleReq
  <2>2. RunsAsOffered
    BY ONLY <2>1 DEF RunsAsOffered
  <2> QED BY ONLY <2>1, <2>2 DEF CatalogInv
<1>2. CatalogInv => RunsAsOffered
  BY DEF CatalogInv
<1> QED BY <1>1, <1>2, CatalogStep, PTL DEF ConsoleSpec
==============================================================================
