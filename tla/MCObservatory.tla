--------------------------- MODULE MCObservatory ---------------------------
(* Small instances of the scenario controller. *)
EXTENDS Observatory, TLC

CONSTANTS r1, r2, n1

Runs == {r1, r2}
OneRun == {r1}
OneName == {n1}

\* One injected fault, and a run that leaves one of each kind behind.
SoftScript == n1 :> << <<"add", "soft">> >>
LeftoverScript == n1 :> << <<"add", "down">>, <<"add", "soft">>, <<"add", "toxic">> >>

\* Statements the code does not satisfy.
\*
\* One concurrent scenario only: at most one load generator runs at any time.
OneScenario ==
    \A r, s \in Run : run[r].box = "running" /\ run[s].box = "running" => r = s

\* When reset answers "clean" no fault is in force.
CleanMeansClean == reset.pc = "clean" => fault = {}

\* A clean exit leaves no load generator and no stopped service behind.
CloseCleans ==
    reset.pc = "exit" => "down" \notin fault /\ \A r \in Run : run[r].box = "none"

\* A scenario in "error" returns to "idle" once its failed start is cleaned up.
ErrorReturnsToIdle ==
    \A n \in Name : status[n] = "error" ~> status[n] # "error"
=============================================================================
