--------------------------- MODULE MCLoadBalancer ---------------------------
(***************************************************************************)
(* A small instance of LoadBalancer.                                       *)
(***************************************************************************)
EXTENDS LoadBalancer

CONSTANTS a, b, c

\* One address appears twice, as a hand-written weighting does; four entries
\* divide the counter's range, as they divide 2^64.
Four == <<a, b, a, c>>

\* Weights 3:1 as in configs/gateway.yaml, and a target whose weight is left
\* out of the configuration and defaults to 1.
FourWeights == <<3, 1, 0, 2>>

\* First attempts exclude nothing, retries one address or all of them.
Exclusions == {{}, {a}, {b}, {a, b, c}}
=============================================================================
