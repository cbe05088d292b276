----------------------------- MODULE MCEventHub -----------------------------
(* Small instances of the event hub. *)
EXTENDS EventHub

CONSTANTS p1, c1

TwoPublishers == {p1, Log}
OneClient == {c1}

\* Statements the code does not satisfy.
\*
\* A slow client loses its oldest events: the event being published is never
\* the one that is given up.
OldestGoes ==
    [][\A p \in Publisher, c \in Client : Retry(p, c) => HasRoom(c)]_vars

\* A connection is shown an event of the gateway once.
ShownOnce ==
    \A c \in Client : \A i, j \in DOMAIN view[c] :
        view[c][i].by = view[c][j].by /\ view[c][i].seq = view[c][j].seq => i = j
=============================================================================
