----------------------------- MODULE RoundRobin -----------------------------
(***************************************************************************)
(* The round-robin balancer (internal/transport/loadbalancer/round_robin.  *)
(* go): goroutines race on one atomic counter.  Each loads it, scans from  *)
(* it for a target its request does not exclude, and claims the scan with  *)
(* a compare-and-swap, starting over when another goroutine was faster.    *)
(***************************************************************************)
EXTENDS Integers, Sequences

CONSTANTS
    Goroutine,
    Targets,     \* the route's targets in order; an address may repeat
    ExcludeSets, \* the sets of addresses a retry may exclude
    Wrap,        \* the counter is an unsigned integer modulo Wrap (2^64)
    History      \* how many past selections the history keeps

VARIABLES
    next,    \* RoundRobin.next
    phase,   \* per goroutine: "idle", "scan" (before Load) or "swap" (before CAS)
    start,   \* the value loaded
    exclude,
    recent   \* history: the last selections, each with the set it excluded

vars == <<next, phase, start, exclude, recent>>

N == Len(Targets)

Init ==
    /\ next = 0
    /\ phase = [g \in Goroutine |-> "idle"]
    /\ start = [g \in Goroutine |-> 0]
    /\ exclude = [g \in Goroutine |-> {}]
    /\ recent = <<>>

\* Index (from 1) of the target a scan looks at.
IndexAt(from, offset) == (((from + offset) % Wrap) % N) + 1

\* The offsets at which a scan from a counter value finds a candidate.
Candidates(from, excluded) ==
    {o \in 0..(N - 1) : Targets[IndexAt(from, o)] \notin excluded}

\* The scan takes the first.
ChosenOffset(from, excluded) ==
    CHOOSE o \in Candidates(from, excluded) :
        \A p \in Candidates(from, excluded) : o <= p

Call(g) ==
    /\ phase[g] = "idle"
    /\ \E ex \in ExcludeSets : exclude' = [exclude EXCEPT ![g] = ex]
    /\ phase' = [phase EXCEPT ![g] = "scan"]
    /\ UNCHANGED <<next, start, recent>>

\* Faulty variant: the counter is taken after its increment.
LoadIncremented(g) ==
    /\ phase[g] = "scan"
    /\ LET none == Candidates(next, exclude[g]) = {} IN
       /\ phase' = [phase EXCEPT ![g] = IF none THEN "idle" ELSE "swap"]
       /\ start' = [start EXCEPT ![g] = IF none THEN 0 ELSE (next + 1) % Wrap]
       /\ exclude' = [exclude EXCEPT ![g] = IF none THEN {} ELSE @]
    /\ UNCHANGED <<next, recent>>

\* Load; a scan that finds nothing returns ErrNoTargets.
Load(g) ==
    /\ phase[g] = "scan"
    /\ LET none == Candidates(next, exclude[g]) = {} IN
       /\ phase' = [phase EXCEPT ![g] = IF none THEN "idle" ELSE "swap"]
       /\ start' = [start EXCEPT ![g] = IF none THEN 0 ELSE next]
       /\ exclude' = [exclude EXCEPT ![g] = IF none THEN {} ELSE @]
    /\ UNCHANGED <<next, recent>>

\* CompareAndSwap fails: another goroutine moved the counter, try again.
SwapFails(g) ==
    /\ phase[g] = "swap"
    /\ next # start[g]
    /\ phase' = [phase EXCEPT ![g] = "scan"]
    /\ start' = [start EXCEPT ![g] = 0]
    /\ UNCHANGED <<next, exclude, recent>>

\* Faulty variant: the counter stays on the target just selected.
SwapWithoutAdvance(g) ==
    /\ phase[g] = "swap"
    /\ next = start[g]
    /\ LET o == ChosenOffset(start[g], exclude[g]) IN
       /\ next' = (start[g] + o) % Wrap
       /\ recent' = LET log == Append(recent,
                          [target |-> Targets[IndexAt(start[g], o)], ex |-> exclude[g]])
                    IN  IF Len(log) > History THEN Tail(log) ELSE log
    /\ phase' = [phase EXCEPT ![g] = "idle"]
    /\ start' = [start EXCEPT ![g] = 0]
    /\ exclude' = [exclude EXCEPT ![g] = {}]

\* CompareAndSwap succeeds and the target chosen from start is returned.
SwapSucceeds(g) ==
    /\ phase[g] = "swap"
    /\ next = start[g]
    /\ LET o == ChosenOffset(start[g], exclude[g]) IN
       /\ next' = (start[g] + o + 1) % Wrap
       /\ recent' = LET log == Append(recent,
                          [target |-> Targets[IndexAt(start[g], o)], ex |-> exclude[g]])
                    IN  IF Len(log) > History THEN Tail(log) ELSE log
    /\ phase' = [phase EXCEPT ![g] = "idle"]
    /\ start' = [start EXCEPT ![g] = 0]
    /\ exclude' = [exclude EXCEPT ![g] = {}]

Swap(g) == SwapFails(g) \/ SwapSucceeds(g)

Next == \E g \in Goroutine : Call(g) \/ Load(g) \/ Swap(g)

-----------------------------------------------------------------------------
\* Types of the variables.
TypeOK ==
    /\ next \in 0..(Wrap - 1)
    /\ phase \in [Goroutine -> {"idle", "scan", "swap"}]
    /\ start \in [Goroutine -> 0..(Wrap - 1)]
    /\ exclude \in [Goroutine -> ExcludeSets \cup {{}}]
    /\ recent \in Seq([target : {Targets[i] : i \in 1..N}, ex : ExcludeSets \cup {{}}])
=============================================================================
