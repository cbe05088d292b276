------------------------ MODULE MCResilientTransport ------------------------
(***************************************************************************)
(* Small instances of ResilientTransport.                                  *)
(***************************************************************************)
EXTENDS ResilientTransport, TLC

CONSTANTS t1, t2, r1, r2

MCConfig(failures, successes, timeout, window, probesMax) ==
    [failureThreshold |-> failures, successThreshold |-> successes,
     timeout |-> timeout, windowSize |-> window,
     halfOpenMaxRequests |-> probesMax]

\* One failure opens, one probe at a time, one success closes.
Sensitive == MCConfig(1, 1, 1, 1, 1)

\* The same address is listed twice, as a hand-written weighting does.
Repeated == <<t1, t1, t2>>

\* Statements the code does not satisfy.
\*
\* 503 "no healthy targets" is answered only when no circuit is closed.
NoHealthyMeansNoneClosed ==
    [][\A r \in Request :
          req'[r].result = 503 /\ req[r].result # 503 =>
              \A t \in Target : br[t].state # "closed"]_vars

\* A retry goes to another target than the attempt before it.
RetryChangesTarget ==
    \A r \in Request :
        LET v == req[r].visits IN
        \A i \in 1..(Len(v) - 1) : TotalTargets > 1 => v[i] # v[i + 1]

RequestSymmetry == Permutations(Request)
=============================================================================
