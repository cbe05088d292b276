------------------------- MODULE MCObservatorySafety -------------------------
(***************************************************************************)
(* The safety of the observatory process: its front, with two requests     *)
(* that overlap, and its scenario controller, with two runs of which one   *)
(* may start while the other is being undone.                              *)
(***************************************************************************)
EXTENDS MCObservatory, Console

CONSTANTS a1, q1, q2

OneAddress == {a1}
TwoRequests == {q1, q2}

Named(t) == [text |-> t, padded |-> FALSE]
Padded(t) == [text |-> t, padded |-> TRUE]

File(name, durations, rps) ==
    [name |-> Named(name), textsPresent |-> TRUE, durations |-> durations, rps |-> rps,
     chaosValid |-> TRUE]

\* Options at, below and above the caps; files of one name; one that is rejected;
\* options with a blank around their names, alone and beside a namesake.
Plain == File("s", {1, 3}, [i \in {Named("low"), Named("high")} |->
                               IF i = Named("low") THEN 1 ELSE 3])
Second == File("s", {2}, [i \in {Named("low")} |-> 2])
Rejected == File("s", {0, 1}, [i \in {Named("low")} |-> 1])
Odd == File("s", {2}, [i \in {Padded("low")} |-> 1])
Twins == File("t", {2}, [i \in {Padded("low"), Named("low")} |-> IF i.padded THEN 1 ELSE 2])
Lists == {<<Rejected, Plain, Second>>, <<Odd, Twins>>, <<Rejected>>}

AskOf(i, d) ==
    [auth |-> TRUE, name |-> Named("s"), decodes |-> TRUE, intensity |-> i, duration |-> d]
Garbled == [AskOf(Named("low"), 1) EXCEPT !.decodes = FALSE]
Asks ==
    {AskOf(Named("low"), 0), AskOf(Named("low"), 2), AskOf(Padded("low"), 2),
     AskOf(Named("high"), 3), [AskOf(Padded("low"), 2) EXCEPT !.name = Named("t")],
     Garbled, [Garbled EXCEPT !.auth = FALSE]}

\* The two parts share no variable: an invariant of one holds in their product if
\* it holds in every behaviour in which the other part has not moved yet.  So each
\* is explored from the common beginning, with the other at rest.
FrontAtRest == ConsoleInit /\ files = <<Rejected>>

ProcessSpec ==
    /\ Init /\ ConsoleInit
    /\ [][\/ FrontAtRest /\ Next /\ UNCHANGED consoleVars
          \/ Init /\ ConsoleNext /\ UNCHANGED vars]_<<vars, consoleVars>>

RunSymmetry == Permutations(Runs)

\* Statements the code does not satisfy.
\*
\* While /api/health says jwt_valid the gateway accepts the token.
HealthyTokenAccepted == jwt # Nil => now < jwt

\* The token a run is started with lasts for the run.
TokenOutlivesRun ==
    answer # Nil /\ answer.code = 200 =>
        answer.run.at + answer.run.duration <= answer.run.expires

\* Every option that is listed can be run by the name it is listed under.
ListedOptionsRun ==
    \A n \in DOMAIN catalog : \A o \in Listed(n, catalog[n]) :
        ResolveRun(catalog[n], o) # Nil
=============================================================================
