---------------------------- MODULE CircuitSpec ----------------------------
(***************************************************************************)
(* What a circuit breaker promises its callers, without its counters: the  *)
(* three states, the moves between them, and a cool-down that nothing but  *)
(* the clock or an administrator's reset can shorten or extend.            *)
(***************************************************************************)
EXTENDS Integers

CONSTANT Timeout  \* how long the circuit stays open

VARIABLES
    circuit,   \* "closed", "open" or "half_open"
    coolDown,  \* ticks left before an open circuit may let a probe through
    resets     \* resets asked for so far, modulo 2: the visible input

cvars == <<circuit, coolDown, resets>>

CInit == circuit = "closed" /\ coolDown = 0 /\ resets = 0

\* Too many failures in the window, or one failure while half-open.
Trip ==
    /\ circuit \in {"closed", "half_open"}
    /\ circuit' = "open"
    /\ coolDown' = Timeout
    /\ UNCHANGED resets

Wait ==
    /\ circuit = "open"
    /\ coolDown > 0
    /\ coolDown' = coolDown - 1
    /\ UNCHANGED <<circuit, resets>>

Probe ==
    /\ circuit = "open"
    /\ coolDown = 0
    /\ circuit' = "half_open"
    /\ UNCHANGED <<coolDown, resets>>

Recover ==
    /\ circuit = "half_open"
    /\ circuit' = "closed"
    /\ UNCHANGED <<coolDown, resets>>

\* An administrator closes the circuit whatever its state.
Reset ==
    /\ circuit' = "closed"
    /\ coolDown' = 0
    /\ resets' = 1 - resets

CNext == Trip \/ Wait \/ Probe \/ Recover \/ Reset

CSpec == CInit /\ [][CNext]_cvars
=============================================================================
