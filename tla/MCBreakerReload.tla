-------------------------- MODULE MCBreakerReload --------------------------
(***************************************************************************)
(* A small instance of BreakerReload: the new snapshot has one probe at a  *)
(* time, so that overlap among its probes plays no part.                   *)
(***************************************************************************)
EXTENDS BreakerReload

MCConfig(failures, successes, timeout, window, probesMax) ==
    [failureThreshold |-> failures, successThreshold |-> successes,
     timeout |-> timeout, windowSize |-> window,
     halfOpenMaxRequests |-> probesMax]

Defaults == MCConfig(2, 1, 1, 2, 1)

\* Every threshold shrinks, some to a zero that stands for the default:
\* reconcile must open, close or clamp.
Loose == MCConfig(3, 2, 2, 3, 2)
Tight == MCConfig(2, 0, 1, 2, 0)

\* Statements the code does not satisfy.
\*
\* After the target has recovered the circuit of the new snapshot closes.
RecoversAcrossReload == recovered /\ phase = "swapped" ~> new.state = "closed"
============================================================================
