---------------------------- MODULE MCHotReload -----------------------------
(***************************************************************************)
(* Small instances of HotReload: two good contents, one that asks for      *)
(* another port, one that does not validate.                               *)
(***************************************************************************)
EXTENDS HotReload

MCContent == {"a", "b", "port", "broken"}
MCValid == {"a", "b", "port"}
MCServer == [c \in MCValid |-> IF c = "port" THEN 9090 ELSE 8080]

\* Statements the code does not satisfy.
\*
\* An edit is served, the ones made while the process starts included.
EveryEditServed ==
    \A c \in Content :
        <>[](file = c /\ watcher # "stopped" /\ current # None /\ Acceptable(c))
            => <>[](current = c)
=============================================================================
