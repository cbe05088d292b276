--------------------------- MODULE MCRateLimiter ----------------------------
(***************************************************************************)
(* Small instances of RateLimiter.                                         *)
(***************************************************************************)
EXTENDS RateLimiter, TLC

CONSTANTS r1, r2, r3

RequestSymmetry == Permutations(Request)

\* Statements the code does not satisfy.
\*
\* "exactly 100 in any 60-second window" (DESIGN_DOC.md:212): the same for the
\* whole window.
ExactWindow == AtMostLimitIn(Window)

\* "Legitimate users are never blocked by a Redis blip" (ADR-003): a request
\* the script refuses is not one it had let in.
BlipNeverBlocks == \A r \in Request : pc[r] = "denied" => ~member[r]
=============================================================================
