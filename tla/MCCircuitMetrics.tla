-------------------------- MODULE MCCircuitMetrics --------------------------
(***************************************************************************)
(* A small instance of the breaker with its metrics.                       *)
(***************************************************************************)
EXTENDS CircuitMetrics

MCConfig(failures, successes, timeout, window, probesMax) ==
    [failureThreshold |-> failures, successThreshold |-> successes,
     timeout |-> timeout, windowSize |-> window,
     halfOpenMaxRequests |-> probesMax]

\* Two failures to open, a window longer than the timeout: failures age out
\* one at a time and outcomes of the closed period arrive in the half-open one.
CfgTwoFailures == MCConfig(2, 2, 1, 2, 2)

\* Statements the code does not satisfy.
\*
\* Once the target has recovered, and requests keep coming, the circuit closes.
Recovers == healthy ~> br.state = "closed"

\* Never more than half_open_max_requests attempts that were admitted as
\* probes are outstanding at once (three attempts are needed to see it).
ProbeLimit == Cardinality(probes) <= Cfg.halfOpenMaxRequests

\* The counter moves once for each opening.
CountedOnce ==
    \A a \in Attempt : call[a].pc = "after" => (Counts(a) <=> call[a].own)

\* When no call is on its way to set it, the gauge is the number of open circuits.
GaugeExact ==
    (\A a \in Attempt : call[a].pc \notin {"after", "count", "set"}) => gauge = OpenCount(br)
=============================================================================
