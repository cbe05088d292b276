--------------------------- MODULE RouteStateProofs --------------------------
(***************************************************************************)
(* The state the requests of a route share: its load balancer and its      *)
(* buckets of the rate limiter.                                            *)
(***************************************************************************)
EXTENDS RateLimiter, LoadBalancer, FiniteSetTheorems, TLAPS

(***************************************************************************)
(* The least-connections balancer.                                         *)
(***************************************************************************)

Position == LC!Index

\* The goroutines that hold a selection of a position.
Holders(i) == {g \in Goroutine : phase[g] = "using" /\ best[g] = i}

LeastConnShape ==
  /\ active \in [Position -> Int]
  /\ phase \in [Goroutine -> {"idle", "scan", "add", "using"}]
  /\ at \in [Goroutine -> Nat]
  /\ best \in [Goroutine -> Position \cup {None}]
  /\ bestActive \in [Goroutine -> Int]
  /\ exclude = [g \in Goroutine |-> exclude[g]]
  /\ alone \in [Goroutine -> BOOLEAN]

\* What a goroutine's scan variables say where it is.
ScanOK(g) ==
  /\ phase[g] \in {"add", "using"} => best[g] \in Position
  /\ phase[g] # "scan" => at[g] = 1
  /\ phase[g] = "idle" => best[g] = None
  /\ phase[g] = "scan" /\ best[g] # None => best[g] < at[g]

\* k is to be preferred to i: fewer connections, or as many and earlier.
Beats(k, i) == active[k] < active[i] \/ (active[k] = active[i] /\ k <= i)

\* While no counter changes, best is preferred to every candidate passed.
PassedOK(g) ==
  phase[g] \in {"scan", "add"} /\ alone[g] =>
     /\ best[g] # None => bestActive[g] = active[best[g]]
     /\ \A i \in Position :
           (phase[g] = "add" \/ i < at[g]) /\ Targets[i] \notin exclude[g] =>
              best[g] # None /\ Beats(best[g], i)

LeastConnInv ==
  /\ LeastConnShape
  /\ \A g \in Goroutine : ScanOK(g)
  /\ \A g \in Goroutine : PassedOK(g)
  /\ \A i \in Position : active[i] = Cardinality(Holders(i))

\* The other strategies leave the connections alone.
NoConnections ==
  /\ active = [i \in Position |-> 0]
  /\ phase \in [Goroutine -> {"idle", "scan", "swap"}]

BalancerInv ==
  /\ strategy = "least_conn" => LeastConnInv
  /\ strategy # "least_conn" => NoConnections

\* Positions are numbers, and the absence of one is none of them.
LEMMA PositionFacts == \A i \in Position : i \in Nat /\ i >= 1 /\ i # None
BY LoadBalancerAssumption DEF Position, LC!Index

LEMMA HoldersFinite ==
  ASSUME NEW i
  PROVE  IsFiniteSet(Holders(i)) /\ Cardinality(Holders(i)) \in Nat
<1>1. IsFiniteSet(Holders(i))
  BY LoadBalancerAssumption, FS_Subset, ZenonT(20) DEF Holders
<1> QED BY <1>1, FS_CardinalityType

\* A call that starts to scan (least_conn.go:24-31).
LEMMA LeastConnCall ==
  ASSUME LeastConnInv, NEW g \in Goroutine, LC!Call(g)
  PROVE  LeastConnInv'
<1>1. /\ phase[g] = "idle" /\ phase' = [phase EXCEPT ![g] = "scan"]
      /\ alone' = [alone EXCEPT ![g] = TRUE]
      /\ active' = active /\ at' = at /\ best' = best /\ bestActive' = bestActive
  BY DEF LC!Call
<1>2. PICK ex : exclude' = [exclude EXCEPT ![g] = ex]
  BY ZenonT(20) DEF LC!Call
<1>3. at[g] = 1 /\ best[g] = None
  BY <1>1 DEF LeastConnInv, ScanOK
<1>4. LeastConnShape'
  BY <1>1, <1>2, ZenonT(20) DEF LeastConnInv, LeastConnShape
<1>5. ASSUME NEW h \in Goroutine
      PROVE  /\ phase'[h] = IF h = g THEN "scan" ELSE phase[h]
             /\ h # g => alone'[h] = alone[h] /\ exclude'[h] = exclude[h]
  BY <1>1, <1>2, ZenonT(20) DEF LeastConnInv, LeastConnShape
<1>6. ASSUME NEW h \in Goroutine
      PROVE  ScanOK(h)'
  <2>1. CASE h = g
    BY <2>1, <1>1, <1>3, <1>5 DEF ScanOK
  <2>2. CASE h # g
    BY <2>2, <1>1, <1>5 DEF ScanOK, LeastConnInv
  <2> QED BY <2>1, <2>2
<1>7. ASSUME NEW h \in Goroutine
      PROVE  PassedOK(h)'
  <2>1. CASE h = g
    <3>1. \A i \in Position : ~(i < at'[h])
      BY <2>1, <1>1, <1>3, PositionFacts
    <3> QED BY <2>1, <3>1, <1>1, <1>3, <1>5 DEF PassedOK
  <2>2. CASE h # g
    <3>1. PassedOK(h) /\ phase'[h] = phase[h] /\ alone'[h] = alone[h] /\ exclude'[h] = exclude[h]
      BY <2>2, <1>5 DEF LeastConnInv
    <3> QED BY <3>1, <1>1, Zenon DEF PassedOK, Beats
  <2> QED BY <2>1, <2>2, ZenonT(20)
<1>8. \A i : Holders(i)' = Holders(i)
  BY <1>1, <1>5 DEF Holders
<1> QED BY <1>1, <1>4, <1>6, <1>7, <1>8 DEF LeastConnInv

\* One iteration of the scan (least_conn.go:33-46).
LEMMA LeastConnLook ==
  ASSUME LeastConnInv, NEW g \in Goroutine, LC!Look(g)
  PROVE  LeastConnInv'
<1> DEFINE k == at[g]
           p == LC!Prefers(g, k)
<1>1. /\ phase[g] = "scan" /\ k \in Position /\ at' = [at EXCEPT ![g] = k + 1]
      /\ best' = IF p THEN [best EXCEPT ![g] = k] ELSE best
      /\ bestActive' = IF p THEN [bestActive EXCEPT ![g] = active[k]] ELSE bestActive
      /\ active' = active /\ phase' = phase /\ exclude' = exclude /\ alone' = alone
  BY DEF LC!Look, Position
<1>2. p <=> Targets[k] \notin exclude[g] /\ (best[g] = None \/ active[k] < bestActive[g])
  BY ZenonT(20) DEF LC!Prefers
<1>3. k \in Nat /\ k # None
  BY <1>1, PositionFacts
<1> HIDE DEF k, p
<1>4. LeastConnShape'
  BY <1>1, <1>3 DEF LeastConnInv, LeastConnShape
<1>5. ASSUME NEW h \in Goroutine, h # g
      PROVE  at'[h] = at[h] /\ best'[h] = best[h] /\ bestActive'[h] = bestActive[h]
  BY <1>1, <1>5 DEF LeastConnInv, LeastConnShape
<1>6. /\ at'[g] = k + 1
      /\ best'[g] = IF p THEN k ELSE best[g]
      /\ bestActive'[g] = IF p THEN active[k] ELSE bestActive[g]
  BY <1>1 DEF LeastConnInv, LeastConnShape
<1>7. ASSUME NEW h \in Goroutine
      PROVE  ScanOK(h)'
  <2>1. CASE h = g
    <3>1. best[g] # None => best[g] < k /\ best[g] \in Position
      BY <1>1 DEF LeastConnInv, ScanOK, LeastConnShape, k
    <3>2. best'[g] # None => best'[g] < k + 1
      <4>1. CASE p
        BY <4>1, <1>3, <1>6
      <4>2. CASE ~p
        BY <4>2, <3>1, <1>3, <1>6, PositionFacts
      <4> QED BY <4>1, <4>2, ZenonT(20)
    <3> QED BY <2>1, <3>2, <1>1, <1>6 DEF ScanOK
  <2>2. CASE h # g
    BY <2>2, <1>1, <1>5 DEF ScanOK, LeastConnInv
  <2> QED BY <2>1, <2>2, ZenonT(20)
<1>8. ASSUME NEW h \in Goroutine
      PROVE  PassedOK(h)'
  <2>1. CASE h = g
    <3> SUFFICES ASSUME alone[g]
                 PROVE  /\ best'[g] # None => bestActive'[g] = active[best'[g]]
                        /\ \A i \in Position :
                              i < k + 1 /\ Targets[i] \notin exclude[g] =>
                                 best'[g] # None /\ Beats(best'[g], i)
      BY <2>1, <1>1, <1>6 DEF PassedOK, Beats
    <3>1. /\ best[g] # None => bestActive[g] = active[best[g]]
          /\ \A i \in Position : i < k /\ Targets[i] \notin exclude[g] =>
                                    best[g] # None /\ Beats(best[g], i)
      BY <1>1, ZenonT(20) DEF LeastConnInv, PassedOK, k
    <3>2. best[g] # None => best[g] \in Position /\ best[g] < k
      BY <1>1, ZenonT(20) DEF LeastConnInv, ScanOK, LeastConnShape, k
    <3>3. \A i \in Position : active[i] \in Int /\ i \in Nat
      BY PositionFacts DEF LeastConnInv, LeastConnShape
    <3>4. ASSUME NEW i \in Position, i < k + 1, Targets[i] \notin exclude[g]
          PROVE  best'[g] # None /\ Beats(best'[g], i)
      <4>1. CASE p
        <5>1. CASE i = k
          BY <4>1, <5>1, <1>3, <1>6, <3>3 DEF Beats
        <5>2. CASE i < k
          <6>1. best[g] # None /\ Beats(best[g], i) /\ best[g] \in Position
            BY <5>2, <3>1, <3>2, <3>4, ZenonT(20)
          <6>2. active[k] < active[best[g]]
            BY <4>1, <6>1, <1>2, <3>1, ZenonT(20)
          <6>3. active[k] < active[i]
            BY <6>1, <6>2, <3>3, <1>1 DEF Beats
          <6> QED BY <6>3, <4>1, <1>3, <1>6, ZenonT(20) DEF Beats
        <5> QED BY <5>1, <5>2, <3>3, <3>4, <1>3
      <4>2. CASE ~p
        <5>1. CASE i = k
          BY <4>2, <5>1, <1>1, <1>2, <1>3, <1>6, <3>1, <3>2, <3>3, <3>4 DEF Beats
        <5>2. CASE i < k
          BY <4>2, <5>2, <1>6, <3>1, <3>4
        <5> QED BY <5>1, <5>2, <3>3, <3>4, <1>3
      <4> QED BY <4>1, <4>2, ZenonT(20)
    <3> QED BY <3>1, <3>4, <1>6, ZenonT(20)
  <2>2. CASE h # g
    BY <2>2, <1>1, <1>5 DEF PassedOK, LeastConnInv, Beats
  <2> QED BY <2>1, <2>2
<1>9. \A i : Holders(i)' = Holders(i)
  <2>1. \A h \in Goroutine : phase[h] = "using" => best'[h] = best[h]
    BY <1>1, <1>5, ZenonT(20)
  <2> QED BY <2>1, <1>1 DEF Holders
<1> QED BY <1>1, <1>4, <1>7, <1>8, <1>9, ZenonT(20) DEF LeastConnInv

\* The end of the scan: ErrNoTargets, or a target to count (least_conn.go:47-50).
LEMMA LeastConnScanEnds ==
  ASSUME LeastConnInv, NEW g \in Goroutine, LC!ScanEnds(g)
  PROVE  LeastConnInv'
<1> DEFINE l == IF best[g] = None THEN "idle" ELSE "add"
<1>1. /\ phase[g] = "scan" /\ at[g] \notin Position
      /\ phase' = [phase EXCEPT ![g] = l] /\ at' = [at EXCEPT ![g] = 1]
      /\ exclude' = IF best[g] = None THEN [exclude EXCEPT ![g] = {}] ELSE exclude
      /\ active' = active /\ best' = best /\ bestActive' = bestActive /\ alone' = alone
  BY ZenonT(20) DEF LC!ScanEnds, Position
<1>2. LeastConnShape'
  BY <1>1, ZenonT(20) DEF LeastConnInv, LeastConnShape
<1>3. ASSUME NEW h \in Goroutine
      PROVE  /\ phase'[h] = IF h = g THEN l ELSE phase[h]
             /\ at'[h] = IF h = g THEN 1 ELSE at[h]
             /\ h # g => exclude'[h] = exclude[h]
  BY <1>1 DEF LeastConnInv, LeastConnShape
<1>4. ASSUME NEW h \in Goroutine
      PROVE  ScanOK(h)'
  <2>1. CASE h = g
    BY <2>1, <1>1, <1>3 DEF ScanOK, LeastConnInv, LeastConnShape
  <2>2. CASE h # g
    BY <2>2, <1>1, <1>3 DEF ScanOK, LeastConnInv
  <2> QED BY <2>1, <2>2
<1>5. ASSUME NEW h \in Goroutine
      PROVE  PassedOK(h)'
  <2>1. CASE h = g
    <3>1. CASE best[g] = None
      BY <2>1, <3>1, <1>3, ZenonT(20) DEF PassedOK
    <3>2. CASE best[g] # None
      <4>1. \A i \in Position : i < at[g]
        <5>1. at[g] >= 1
          BY <3>2, <1>1, PositionFacts DEF LeastConnInv, LeastConnShape, ScanOK
        <5> QED BY <5>1, <1>1, LoadBalancerAssumption
                DEF LeastConnInv, LeastConnShape, Position, LC!Index
      <4> QED BY <2>1, <3>2, <4>1, <1>1, <1>3, ZenonT(20) DEF LeastConnInv, PassedOK, Beats
    <3> QED BY <3>1, <3>2
  <2>2. CASE h # g
    BY <2>2, <1>1, <1>3 DEF PassedOK, LeastConnInv, Beats
  <2> QED BY <2>1, <2>2
<1>6. \A i : Holders(i)' = Holders(i)
  BY <1>1, <1>3 DEF Holders
<1> QED BY <1>1, <1>2, <1>4, <1>5, <1>6 DEF LeastConnInv

\* After a counter changed no other scan is undisturbed.
LEMMA Disturbed ==
  ASSUME LeastConnInv, NEW g \in Goroutine, alone' = LC!Disturb(g),
         NEW l, l \notin {"scan", "add"}, phase' = [phase EXCEPT ![g] = l]
  PROVE  \A h \in Goroutine : alone'[h] \in BOOLEAN /\ PassedOK(h)'
<1> SUFFICES ASSUME NEW h \in Goroutine
             PROVE  alone'[h] \in BOOLEAN /\ PassedOK(h)'
  OBVIOUS
<1>1. alone'[h] = (alone[h] /\ (h = g \/ phase[h] \notin {"scan", "add"}))
  BY DEF LC!Disturb
<1>2. phase'[h] = IF h = g THEN l ELSE phase[h]
  BY ZenonT(20) DEF LeastConnInv, LeastConnShape
<1>3. ~(phase'[h] \in {"scan", "add"} /\ alone'[h])
  BY <1>1, <1>2, ZenonT(20)
<1> QED BY <1>1, <1>3 DEF PassedOK

\* The selection is counted (least_conn.go:51).
LEMMA LeastConnAdd ==
  ASSUME LeastConnInv, NEW g \in Goroutine, LC!Add(g)
  PROVE  LeastConnInv'
<1> DEFINE b == best[g]
<1>1. /\ phase[g] = "add" /\ active' = [active EXCEPT ![b] = @ + 1]
      /\ phase' = [phase EXCEPT ![g] = "using"]
      /\ bestActive' = [bestActive EXCEPT ![g] = 0]
      /\ exclude' = [exclude EXCEPT ![g] = {}]
      /\ alone' = LC!Disturb(g) /\ at' = at /\ best' = best
  BY DEF LC!Add
<1>2. b \in Position
  BY <1>1, ZenonT(20) DEF LeastConnInv, ScanOK
<1>3. \A h \in Goroutine : alone'[h] \in BOOLEAN /\ PassedOK(h)'
  BY <1>1, Disturbed, ZenonT(20)
<1>4. LeastConnShape'
  <2>1. alone' \in [Goroutine -> BOOLEAN]
    BY <1>1, <1>3, ZenonT(20) DEF LC!Disturb
  <2>2. active' \in [Position -> Int]
    BY <1>1, <1>2 DEF LeastConnInv, LeastConnShape
  <2>3. exclude' = [h \in Goroutine |-> exclude'[h]]
    BY <1>1, ZenonT(20) DEF LeastConnInv, LeastConnShape
  <2>4. bestActive' \in [Goroutine -> Int] /\ at' \in [Goroutine -> Nat]
    BY <1>1 DEF LeastConnInv, LeastConnShape
  <2>5. /\ phase' \in [Goroutine -> {"idle", "scan", "add", "using"}]
        /\ best' \in [Goroutine -> Position \cup {None}]
    BY <1>1 DEF LeastConnInv, LeastConnShape
  <2> QED BY <2>1, <2>2, <2>3, <2>4, <2>5 DEF LeastConnShape
<1>5. \A h \in Goroutine : phase'[h] = IF h = g THEN "using" ELSE phase[h]
  BY <1>1 DEF LeastConnInv, LeastConnShape
<1>6. ASSUME NEW h \in Goroutine
      PROVE  ScanOK(h)'
  <2>1. CASE h = g
    BY <2>1, <1>1, <1>2, <1>5 DEF ScanOK, LeastConnInv
  <2>2. CASE h # g
    BY <2>2, <1>1, <1>5, ZenonT(20) DEF ScanOK, LeastConnInv
  <2> QED BY <2>1, <2>2, ZenonT(20)
<1>7. ASSUME NEW i \in Position
      PROVE  active'[i] = Cardinality(Holders(i)')
  <2>1. active[i] = Cardinality(Holders(i)) /\ Cardinality(Holders(i)) \in Nat
    BY HoldersFinite DEF LeastConnInv
  <2>2. g \notin Holders(i)
    BY <1>1 DEF Holders
  <2>3. CASE i = b
    <3>1. Holders(i)' = Holders(i) \cup {g}
      BY <2>3, <1>1, <1>5 DEF Holders
    <3>2. Cardinality(Holders(i)') = Cardinality(Holders(i)) + 1
      BY <3>1, <2>2, HoldersFinite, FS_AddElement, ZenonT(20)
    <3>3. active'[i] = active[i] + 1
      BY <2>3, <1>1, <1>2, ZenonT(20) DEF LeastConnInv, LeastConnShape
    <3> QED BY <2>1, <3>2, <3>3
  <2>4. CASE i # b
    <3>1. Holders(i)' = Holders(i)
      BY <2>4, <1>1, <1>5, ZenonT(20) DEF Holders
    <3>2. active'[i] = active[i]
      BY <2>4, <1>1 DEF LeastConnInv, LeastConnShape
    <3> QED BY <2>1, <3>1, <3>2
  <2> QED BY <2>3, <2>4
<1> QED BY <1>3, <1>4, <1>6, <1>7, ZenonT(20) DEF LeastConnInv

\* The first call of Done gives it back (least_conn.go:53-61).
LEMMA LeastConnDone ==
  ASSUME LeastConnInv, NEW g \in Goroutine, LC!Done(g)
  PROVE  LeastConnInv'
<1> DEFINE b == best[g]
<1>1. /\ phase[g] = "using" /\ active' = [active EXCEPT ![b] = @ - 1]
      /\ phase' = [phase EXCEPT ![g] = "idle"]
      /\ best' = [best EXCEPT ![g] = None]
      /\ alone' = LC!Disturb(g)
      /\ at' = at /\ bestActive' = bestActive /\ exclude' = exclude
  BY DEF LC!Done
<1>2. b \in Position
  BY <1>1 DEF LeastConnInv, ScanOK
<1>3. \A h \in Goroutine : alone'[h] \in BOOLEAN /\ PassedOK(h)'
  BY <1>1, Disturbed, ZenonT(20)
<1>4. LeastConnShape'
  <2>1. alone' \in [Goroutine -> BOOLEAN]
    BY <1>1, <1>3, ZenonT(20) DEF LC!Disturb
  <2>2. active' \in [Position -> Int]
    BY <1>1, <1>2 DEF LeastConnInv, LeastConnShape
  <2>3. exclude' = [h \in Goroutine |-> exclude'[h]]
    BY <1>1 DEF LeastConnInv, LeastConnShape
  <2>4. bestActive' \in [Goroutine -> Int] /\ at' \in [Goroutine -> Nat]
    BY <1>1 DEF LeastConnInv, LeastConnShape
  <2>5. /\ phase' \in [Goroutine -> {"idle", "scan", "add", "using"}]
        /\ best' \in [Goroutine -> Position \cup {None}]
    BY <1>1, ZenonT(20) DEF LeastConnInv, LeastConnShape
  <2> QED BY <2>1, <2>2, <2>3, <2>4, <2>5 DEF LeastConnShape
<1>5. \A h \in Goroutine : /\ phase'[h] = IF h = g THEN "idle" ELSE phase[h]
                           /\ best'[h] = IF h = g THEN None ELSE best[h]
  BY <1>1 DEF LeastConnInv, LeastConnShape
<1>6. ASSUME NEW h \in Goroutine
      PROVE  ScanOK(h)'
  <2>1. CASE h = g
    BY <2>1, <1>1, <1>5 DEF ScanOK, LeastConnInv
  <2>2. CASE h # g
    BY <2>2, <1>1, <1>5 DEF ScanOK, LeastConnInv
  <2> QED BY <2>1, <2>2, ZenonT(20)
<1>7. ASSUME NEW i \in Position
      PROVE  active'[i] = Cardinality(Holders(i)')
  <2>1. active[i] = Cardinality(Holders(i)) /\ Cardinality(Holders(i)) \in Nat
    BY HoldersFinite DEF LeastConnInv
  <2>2. CASE i = b
    <3>1. Holders(i)' = Holders(i) \ {g} /\ g \in Holders(i)
      BY <2>2, <1>1, <1>5 DEF Holders
    <3>2. Cardinality(Holders(i)') = Cardinality(Holders(i)) - 1
      BY <3>1, HoldersFinite, FS_RemoveElement, ZenonT(20)
    <3>3. active'[i] = active[i] - 1
      BY <2>2, <1>1, <1>2 DEF LeastConnInv, LeastConnShape
    <3> QED BY <2>1, <3>2, <3>3
  <2>3. CASE i # b
    <3>1. Holders(i)' = Holders(i)
      BY <2>3, <1>1, <1>5 DEF Holders
    <3>2. active'[i] = active[i]
      BY <2>3, <1>1 DEF LeastConnInv, LeastConnShape
    <3> QED BY <2>1, <3>1, <3>2
  <2> QED BY <2>2, <2>3
<1> QED BY <1>3, <1>4, <1>6, <1>7 DEF LeastConnInv

-----------------------------------------------------------------------------
\* Whatever the strategy, the connections are in order.
LEMMA BalancerStart == Init => BalancerInv
<1> SUFFICES ASSUME Init PROVE BalancerInv
  OBVIOUS
<1>1. /\ active = [i \in Position |-> 0] /\ phase = [g \in Goroutine |-> "idle"]
      /\ at = [g \in Goroutine |-> 1] /\ best = [g \in Goroutine |-> None]
      /\ bestActive = [g \in Goroutine |-> 0] /\ exclude = [g \in Goroutine |-> {}]
      /\ alone = [g \in Goroutine |-> TRUE]
  BY DEF Init, LC!Init, Position
<1>2. NoConnections /\ LeastConnShape
  BY <1>1 DEF NoConnections, LeastConnShape
<1>3. \A g \in Goroutine : ScanOK(g) /\ PassedOK(g)
  BY <1>1 DEF ScanOK, PassedOK
<1>4. \A i \in Position : Holders(i) = {}
  BY <1>1 DEF Holders
<1>5. \A i \in Position : active[i] = Cardinality(Holders(i))
  BY <1>1, <1>4, FS_EmptySet
<1> QED BY <1>2, <1>3, <1>5 DEF BalancerInv, LeastConnInv

LEMMA BalancerStep == BalancerInv /\ [Next]_vars => BalancerInv'
<1> SUFFICES ASSUME BalancerInv, [Next]_vars PROVE BalancerInv'
  OBVIOUS
<1>1. CASE LeastConn(LC!Next)
  <2>1. strategy = "least_conn" /\ strategy' = strategy /\ LC!Next
    BY <1>1 DEF LeastConn
  <2>2. LeastConnInv'
    BY <2>1, LeastConnCall, LeastConnLook, LeastConnScanEnds, LeastConnAdd, LeastConnDone
    DEF LC!Next, BalancerInv
  <2> QED BY <2>1, <2>2 DEF BalancerInv
<1>2. CASE RoundRobin(RR!Next)
  <2>1. strategy = "round_robin" /\ strategy' = strategy /\ active' = active /\ RR!Next
    BY <1>2, ZenonT(20) DEF RoundRobin, ofLeastConn
  <2>2. phase' \in [Goroutine -> {"idle", "scan", "swap"}]
    BY <2>1 DEF BalancerInv, NoConnections, RR!Next, RR!Call, RR!Load, RR!Swap,
                RR!SwapFails, RR!SwapSucceeds
  <2> QED BY <2>1, <2>2 DEF BalancerInv, NoConnections
<1>3. CASE Weighted(WT!Next)
  BY <1>3, ZenonT(20) DEF Weighted, ofLeastConn, BalancerInv, NoConnections
<1>4. CASE UNCHANGED vars
  <2>1. /\ strategy' = strategy /\ phase' = phase /\ exclude' = exclude /\ active' = active
        /\ at' = at /\ best' = best /\ bestActive' = bestActive /\ alone' = alone
    BY <1>4 DEF vars, ofLeastConn
  <2> QED BY <2>1 DEF BalancerInv, NoConnections, LeastConnInv, LeastConnShape, ScanOK,
                      PassedOK, Beats, Holders
<1> QED BY <1>1, <1>2, <1>3, <1>4 DEF Next

THEOREM BalancerSafety == FairSpec => []BalancerInv
BY BalancerStart, BalancerStep, PTL DEF FairSpec

\* Least connections: the counters are exactly the selections not yet given
\* back, for any route and any number of goroutines (least_conn.go:51-61).
THEOREM CountsSafety == FairSpec => []CountsSelections
<1>1. BalancerInv => CountsSelections
  <2> SUFFICES ASSUME BalancerInv, NEW i \in Position
               PROVE  active[i] = Cardinality(Holders(i))
    BY DEF CountsSelections, Holders, Position
  <2>1. CASE strategy = "least_conn"
    BY <2>1 DEF BalancerInv, LeastConnInv
  <2>2. CASE strategy # "least_conn"
    <3>1. active[i] = 0 /\ Holders(i) = {}
      BY <2>2 DEF BalancerInv, NoConnections, Holders
    <3> QED BY <3>1, FS_EmptySet
  <2> QED BY <2>1, <2>2
<1> QED BY <1>1, BalancerSafety, PTL

\* Least connections: a Select during which no counter changed increments a
\* candidate with the fewest connections, the first of them in the route's
\* order, for any route and any number of goroutines (least_conn.go:31-51).
THEOREM LeastSafety == FairSpec => []UndisturbedPicksLeast
<1>1. BalancerInv => UndisturbedPicksLeast
  <2> SUFFICES ASSUME BalancerInv, NEW g \in Goroutine, phase[g] = "add", alone[g],
                      NEW i \in Position, Targets[i] \notin exclude[g]
               PROVE  Beats(best[g], i)
    BY ZenonT(20) DEF UndisturbedPicksLeast, Beats, Position
  <2>1. strategy = "least_conn"
    BY DEF BalancerInv, NoConnections
  <2> QED BY <2>1, ZenonT(20) DEF BalancerInv, LeastConnInv, PassedOK
<1> QED BY <1>1, BalancerSafety, PTL

-----------------------------------------------------------------------------
(***************************************************************************)
(* The round-robin balancer, for a number of targets that divides the      *)
(* range of its counter.                                                   *)
(***************************************************************************)

\* A remainder is determined by any quotient.
LEMMA Remainder ==
  ASSUME NEW m \in Nat \ {0}, NEW n \in Int, NEW k \in Int, NEW d \in 0..(m - 1),
         n = m * k + d
  PROVE  (n % m) = d
<1>1. n \div m \in Int /\ (n % m) \in 0..(m - 1) /\ n = m * (n \div m) + (n % m)
  OBVIOUS
<1>2. ASSUME NEW a \in Int, NEW b \in Int, a < b
      PROVE  m * a + m <= m * b
  <2>1. PICK c \in Nat : b = a + 1 + c
    BY <1>2
  <2>2. m * b = m * a + m + m * c /\ m * c \in Nat /\ m * a \in Int
    BY <2>1
  <2> QED BY <2>2
<1>3. n \div m = k
  BY <1>1, <1>2
<1> QED BY <1>1, <1>3

LEMMA RemainderShift ==
  ASSUME NEW m \in Nat \ {0}, NEW n \in Int, NEW c \in Int
  PROVE  ((n + m * c) % m) = (n % m)
<1>1. n \div m \in Int /\ (n % m) \in 0..(m - 1) /\ n = m * (n \div m) + (n % m)
  OBVIOUS
<1>2. n + m * c = m * (n \div m + c) + (n % m)
  BY <1>1
<1>3. n \div m + c \in Int /\ n + m * c \in Int
  BY <1>1
<1> QED BY <1>1, <1>2, <1>3, Remainder, ZenonT(20)

Size == RR!N

\* The position a counter value stands for.
Slot(x) == (x % Size) + 1

Divides == Size \in Nat \ {0} /\ Wrap \in Nat \ {0} /\ (Wrap % Size) = 0

LEMMA SizePositive == Size \in Nat \ {0}
BY LoadBalancerAssumption DEF Size, RR!N

\* The counter wraps around without a jump.
LEMMA Wrapped ==
  ASSUME Divides, NEW x \in Int
  PROVE  /\ (x % Wrap) \in 0..(Wrap - 1)
         /\ \E c \in Int : (x % Wrap) = x + Size * c
<1> DEFINE k == Wrap \div Size
           q == x \div Wrap
<1>1. k \in Int /\ Wrap = Size * k
  BY DEF Divides
<1>2. q \in Int /\ x = Wrap * q + (x % Wrap) /\ (x % Wrap) \in 0..(Wrap - 1)
  BY DEF Divides
<1> HIDE DEF k, q
<1>3. Wrap * q = Size * (k * q) /\ k * q \in Int
  BY <1>1, <1>2 DEF Divides
<1>4. 0 - k * q \in Int /\ Size * (0 - k * q) = 0 - Size * (k * q)
  BY <1>3 DEF Divides
<1>5. Size * (k * q) \in Int
  BY <1>3 DEF Divides
<1>6. (x % Wrap) = x + Size * (0 - k * q)
  BY <1>2, <1>3, <1>4, <1>5
<1> QED BY <1>2, <1>4, <1>6

LEMMA SlotWrapped ==
  ASSUME Divides, NEW x \in Int, NEW d \in Int
  PROVE  Slot((x % Wrap) - d) = Slot(x - d)
<1>1. PICK c \in Int : (x % Wrap) = x + Size * c
  BY Wrapped
<1>2. (x % Wrap) - d = (x - d) + Size * c
  BY <1>1 DEF Divides
<1>3. (((x - d) + Size * c) % Size) = ((x - d) % Size)
  <2>1. x - d \in Int /\ Size \in Nat \ {0}
    BY DEF Divides
  <2> QED BY ONLY <1>1, <2>1, RemainderShift, c \in Int, ZenonT(20)
<1> QED BY <1>2, <1>3 DEF Slot

LEMMA IndexIsSlot ==
  ASSUME Divides, NEW x \in Int, NEW o \in Int
  PROVE  RR!IndexAt(x, o) = Slot(x + o) /\ Slot(x + o) \in 1..Size
<1>1. Slot(((x + o) % Wrap) - 0) = Slot(x + o - 0)
  BY SlotWrapped
<1>2. ((x + o) % Wrap) \in Int
  BY Wrapped
<1>3. Slot((x + o) % Wrap) = Slot(x + o)
  BY <1>1, <1>2
<1>4. ((x + o) % Size) \in 0..(Size - 1)
  BY DEF Divides
<1> QED BY <1>3, <1>4 DEF RR!IndexAt, Slot, Size, Divides

\* What is left of a sequence without its head.
LEMMA TailFacts ==
  ASSUME NEW S, NEW f \in Seq(S), Len(f) > 0
  PROVE  /\ Tail(f) \in Seq(S) /\ Len(Tail(f)) = Len(f) - 1
         /\ \A i \in 1..(Len(f) - 1) : Tail(f)[i] = f[i + 1]
OBVIOUS

\* A set of numbers that has a member has a least one.
LEMMA Least ==
  ASSUME NEW S \in SUBSET Nat, S # {}
  PROVE  \E x \in S : \A y \in S : x <= y
<1> DEFINE R == OpToRel(<, Nat)
<1>1. PICK x \in S : \A y \in S : ~(<<y, x>> \in R)
  BY NatLessThanWellFounded, WFMin
<1> HIDE DEF R
<1>2. ASSUME NEW y \in S PROVE x <= y
  <2>1. x \in Nat /\ y \in Nat
    OBVIOUS
  <2>2. y < x => <<y, x>> \in R
    BY <2>1, ZenonT(20) DEF OpToRel, R
  <2> QED BY <1>1, <2>1, <2>2
<1> QED BY <1>2

\* The scan takes the first candidate and every position before it is excluded.
LEMMA Scan ==
  ASSUME Divides, NEW x \in Int, NEW ex, RR!Candidates(x, ex) # {}
  PROVE  LET o == RR!ChosenOffset(x, ex) IN
         /\ o \in 0..(Size - 1)
         /\ \A p \in 0..(o - 1) : Targets[Slot(x + p)] \in ex
<1> DEFINE C == RR!Candidates(x, ex)
           o == RR!ChosenOffset(x, ex)
<1>1. C \in SUBSET Nat /\ C \in SUBSET (0..(Size - 1))
  BY DEF RR!Candidates, Size
<1>2. \E y \in C : \A p \in C : y <= p
  BY <1>1, Least, ZenonT(20)
<1>3. o \in C /\ \A p \in C : o <= p
  BY <1>2, ZenonT(20) DEF RR!ChosenOffset
<1>4. ASSUME NEW p \in 0..(o - 1) PROVE Targets[Slot(x + p)] \in ex
  <2>1. p \notin C /\ p \in 0..(Size - 1) /\ p \in Int
    BY <1>1, <1>3 DEF Divides
  <2>2. Targets[RR!IndexAt(x, p)] \in ex
    BY <2>1, ZenonT(20) DEF RR!Candidates, Size
  <2> QED BY <2>1, <2>2, IndexIsSlot, ZenonT(20)
<1> QED BY <1>1, <1>3, <1>4, ZenonT(20)

-----------------------------------------------------------------------------
Selection == [target : Range(Targets), ex : ExcludeSets \cup {{}}]

RoundRobinShape ==
  /\ next \in 0..(Wrap - 1)
  /\ phase \in [Goroutine -> {"idle", "scan", "swap"}]
  /\ start \in [Goroutine -> 0..(Wrap - 1)]
  /\ exclude \in [Goroutine -> ExcludeSets \cup {{}}]
  /\ recent \in Seq(Selection) /\ Len(recent) <= History
  /\ \A g \in Goroutine : phase[g] = "swap" => RR!Candidates(start[g], exclude[g]) # {}

\* A selection took the target of a position or excluded it.
Meets(e, i) == e.target = Targets[i] \/ Targets[i] \in e.ex

\* The last d selections met the d-th position before the counter.
Rotated(log, x) ==
  \A d \in 1..Len(log) :
     \E j \in (Len(log) - d + 1)..Len(log) : Meets(log[j], Slot(x - d))

RotationInv ==
  /\ strategy # "round_robin" => recent = <<>>
  /\ strategy = "round_robin" => RoundRobinShape /\ Rotated(recent, next)

\* A selection that moves the counter by o + 1 keeps the rotation, whether or
\* not the history forgets its oldest entry for it.
LEMMA RotatedAppend ==
  ASSUME Divides, NEW x \in Nat, NEW log \in Seq(Selection), NEW e \in Selection,
         NEW o \in Nat, Rotated(log, x), \A p \in 0..o : Meets(e, Slot(x + p)),
         NEW new \in {Append(log, e), Tail(Append(log, e))}
  PROVE  Rotated(new, (x + o + 1) % Wrap)
<1> DEFINE L == Len(log)
           full == Append(log, e)
           M == Len(new)
           s == L + 1 - M
<1>1. /\ L \in Nat /\ full \in Seq(Selection) /\ Len(full) = L + 1 /\ full[L + 1] = e
      /\ \A i \in 1..L : full[i] = log[i]
  OBVIOUS
<1>2. M \in Nat /\ s \in {0, 1} /\ \A i \in 1..M : new[i] = full[i + s]
  <2>1. CASE new = full
    BY <2>1, <1>1
  <2>2. CASE new = Tail(full)
    <3>1. full \in Seq(Selection) /\ Len(full) > 0
      BY <1>1
    <3>2. /\ Len(Tail(full)) = Len(full) - 1
          /\ \A i \in 1..(Len(full) - 1) : Tail(full)[i] = full[i + 1]
      BY <3>1, TailFacts, ZenonT(20)
    <3>3. M = L /\ s = 1
      BY <2>2, <3>2, <1>1
    <3> QED BY <2>2, <3>2, <3>3, <1>1, ZenonT(20)
  <2> QED BY <2>1, <2>2, ZenonT(20)
<1> HIDE DEF L, full, M, s
<1> SUFFICES ASSUME NEW d \in 1..M
             PROVE  \E j \in (M - d + 1)..M : Meets(new[j], Slot(((x + o + 1) % Wrap) - d))
  BY ZenonT(20) DEF Rotated, M
<1>3. Slot(((x + o + 1) % Wrap) - d) = Slot(x + o + 1 - d)
  <2> DEFINE y == x + o + 1
  <2>1. y \in Int /\ d \in Int
    BY <1>2
  <2> HIDE DEF y
  <2>2. Slot((y % Wrap) - d) = Slot(y - d)
    BY <2>1, SlotWrapped
  <2> QED BY <2>2 DEF y
<1>4. M = L + 1 - s
  BY <1>1, <1>2 DEF s
<1>0. /\ L \in Nat /\ M \in Nat /\ s \in {0, 1} /\ M = L + 1 - s
      /\ x \in Nat /\ o \in Nat /\ d \in 1..M
  BY <1>1, <1>2, <1>4
<1>5. CASE d <= o + 1
  <2>1. o + 1 - d \in 0..o /\ x + (o + 1 - d) = x + o + 1 - d
    BY ONLY <1>0, <1>5
  <2>2. Meets(e, Slot(x + o + 1 - d))
    BY <2>1, ZenonT(20)
  <2>3. M \in (M - d + 1)..M /\ new[M] = e
    BY <1>1, <1>2, <1>4
  <2> QED BY <2>2, <2>3, <1>3, ZenonT(20)
<1>6. CASE d > o + 1
  <2> DEFINE d0 == d - o - 1
  <2>1. d0 \in 1..L /\ x - d0 = x + o + 1 - d
    BY ONLY <1>0, <1>6
  <2>2. PICK j \in (L - d0 + 1)..L : Meets(log[j], Slot(x - d0))
    BY <2>1, ZenonT(20) DEF Rotated, L
  <2>3. j - s \in (M - d + 1)..M /\ j - s \in 1..M /\ j \in 1..L
    BY ONLY <1>0, <1>6, <2>1, j \in (L - d0 + 1)..L
  <2>4. new[j - s] = log[j]
    <3>1. new[j - s] = full[(j - s) + s] /\ (j - s) + s = j
      <4>1. (j - s) + s = j
        BY ONLY <1>0, <2>3
      <4> QED BY <1>2, <2>3, <4>1, ZenonT(20)
    <3> QED BY <3>1, <2>3, <1>1, ZenonT(20)
  <2> QED BY <2>1, <2>2, <2>3, <2>4, <1>3
<1>7. d <= o + 1 \/ d > o + 1
  BY ONLY <1>0
<1> QED BY <1>5, <1>6, <1>7, ZenonT(20)

\* The compare-and-swap that succeeds.
LEMMA SwapRotates ==
  ASSUME Divides, RoundRobinShape, Rotated(recent, next), NEW g \in Goroutine,
         RR!SwapSucceeds(g)
  PROVE  RoundRobinShape' /\ Rotated(recent, next)'
<1> DEFINE o == RR!ChosenOffset(start[g], exclude[g])
           e == [target |-> Targets[RR!IndexAt(start[g], o)], ex |-> exclude[g]]
           full == Append(recent, e)
<1>1. /\ phase[g] = "swap" /\ next = start[g] /\ next' = ((start[g] + o + 1) % Wrap)
      /\ recent' = IF Len(full) > History THEN Tail(full) ELSE full
      /\ phase' = [phase EXCEPT ![g] = "idle"] /\ start' = [start EXCEPT ![g] = 0]
      /\ exclude' = [exclude EXCEPT ![g] = {}]
  BY ZenonT(20) DEF RR!SwapSucceeds
<1>2. next \in Nat /\ RR!Candidates(next, exclude[g]) # {} /\ exclude[g] \in ExcludeSets \cup {{}}
  BY <1>1 DEF RoundRobinShape
<1>3. o \in 0..(Size - 1) /\ \A p \in 0..(o - 1) : Targets[Slot(next + p)] \in exclude[g]
  <2>1. next \in Int /\ Divides
    BY <1>2
  <2>2. o = RR!ChosenOffset(next, exclude[g])
    BY <1>1, ZenonT(20)
  <2> QED BY ONLY <1>2, <2>1, <2>2, Scan, ZenonT(20)
<1>4. o \in Nat
  BY <1>3 DEF Divides
<1>5. e.target = Targets[Slot(next + o)] /\ e.ex = exclude[g] /\ Slot(next + o) \in 1..Size
  <2>1. next \in Int /\ o \in Int
    BY <1>2, <1>4
  <2> QED BY <2>1, <1>1, IndexIsSlot, ZenonT(20)
<1>6. e \in Selection
  <2>1. Targets[Slot(next + o)] \in Range(Targets)
    <3>1. DOMAIN Targets = 1..Size
      BY LoadBalancerAssumption DEF Size, RR!N
    <3> QED BY <1>5, <3>1, ZenonT(20) DEF Range
  <2>2. e.target \in Range(Targets)
    BY <1>5, <2>1, ZenonT(20)
  <2> QED BY ONLY <1>2, <2>2 DEF Selection
<1> HIDE DEF e
<1>7. \A p \in 0..o : Meets(e, Slot(next + p))
  <2> SUFFICES ASSUME NEW p \in 0..o PROVE Meets(e, Slot(next + p))
    BY ZenonT(20)
  <2>1. p = o \/ p \in 0..(o - 1)
    BY <1>4
  <2> QED BY <2>1, <1>3, <1>5 DEF Meets
<1> HIDE DEF o
<1>8. recent \in Seq(Selection) /\ recent' \in {full, Tail(full)}
  BY <1>1, ZenonT(20) DEF RoundRobinShape
<1>9. Rotated(recent', next')
  BY <1>1, <1>2, <1>4, <1>6, <1>7, <1>8, RotatedAppend, ZenonT(20)
<1>10. recent' \in Seq(Selection) /\ Len(recent') <= History
  <2>1. full \in Seq(Selection) /\ full # <<>> /\ Len(full) = Len(recent) + 1
    BY <1>6, <1>8
  <2>2. Len(recent) \in Nat /\ Len(recent) <= History
    BY <1>8 DEF RoundRobinShape
  <2>3. History \in Nat
    BY LoadBalancerAssumption, ZenonT(20)
  <2>4. Tail(full) \in Seq(Selection) /\ Len(Tail(full)) = Len(recent)
    BY <2>1, <2>2
  <2> HIDE DEF full
  <2> QED BY <1>1, <2>1, <2>2, <2>3, <2>4
<1>11. next' \in 0..(Wrap - 1) /\ 0 \in 0..(Wrap - 1)
  <2>1. next + o + 1 \in Int
    BY <1>2, <1>4
  <2>2. ((next + o + 1) % Wrap) \in 0..(Wrap - 1)
    BY <2>1, Wrapped
  <2>3. Wrap \in Nat \ {0}
    BY ZenonT(20) DEF Divides
  <2> QED BY <2>2, <2>3, <1>1
<1>12. \A h \in Goroutine : phase'[h] = "swap" =>
          phase[h] = "swap" /\ start'[h] = start[h] /\ exclude'[h] = exclude[h]
  BY <1>1, ZenonT(20) DEF RoundRobinShape
<1>13. RoundRobinShape'
  BY <1>1, <1>10, <1>11, <1>12, ZenonT(20) DEF RoundRobinShape
<1> QED BY <1>9, <1>13, ZenonT(20)

\* The steps that leave counter and history alone.
LEMMA OthersRotate ==
  ASSUME RoundRobinShape, Rotated(recent, next), NEW g \in Goroutine,
         RR!Call(g) \/ RR!Load(g) \/ RR!SwapFails(g)
  PROVE  RoundRobinShape' /\ Rotated(recent, next)'
<1>1. 0 \in 0..(Wrap - 1)
  BY LoadBalancerAssumption
<1>2. CASE RR!Call(g)
  BY <1>2, ZenonT(20) DEF RoundRobinShape, Rotated, RR!Call
<1>3. CASE RR!Load(g)
  <2> DEFINE none == RR!Candidates(next, exclude[g]) = {}
  <2>1. /\ phase' = [phase EXCEPT ![g] = IF none THEN "idle" ELSE "swap"]
        /\ start' = [start EXCEPT ![g] = IF none THEN 0 ELSE next]
        /\ exclude' = [exclude EXCEPT ![g] = IF none THEN {} ELSE @]
        /\ next' = next /\ recent' = recent
    BY <1>3 DEF RR!Load
  <2>2. \A h \in Goroutine : phase'[h] = "swap" =>
           RR!Candidates(start'[h], exclude'[h]) # {}
    BY <2>1 DEF RoundRobinShape
  <2> QED BY <1>1, <2>1, <2>2, ZenonT(20) DEF RoundRobinShape, Rotated
<1>4. CASE RR!SwapFails(g)
  BY <1>1, <1>4, ZenonT(20) DEF RoundRobinShape, Rotated, RR!SwapFails
<1> QED BY <1>2, <1>3, <1>4

\* Round robin: among any History consecutive selections, at least as many as
\* there are targets, every target was selected or excluded by one of them,
\* however the compare-and-swaps of any number of goroutines interleave, for
\* every number of targets that divides the range of the counter
\* (round_robin.go:24-49).
THEOREM RotationSafety ==
  ASSUME (Wrap % Len(Targets)) = 0, History >= Len(Targets)
  PROVE  FairSpec => []NobodySkipped
<1>1. Divides
  BY SizePositive, LoadBalancerAssumption DEF Divides, Size, RR!N
<1>2. Init => RotationInv
  <2> SUFFICES ASSUME Init PROVE RotationInv
    OBVIOUS
  <2>1. /\ next = 0 /\ phase = [g \in Goroutine |-> "idle"] /\ recent = <<>>
        /\ start = [g \in Goroutine |-> 0] /\ exclude = [g \in Goroutine |-> {}]
    BY ZenonT(20) DEF Init, RR!Init
  <2>2. RoundRobinShape
    BY <2>1, LoadBalancerAssumption DEF RoundRobinShape
  <2> QED BY <2>1, <2>2 DEF RotationInv, Rotated
<1>3. RotationInv /\ [Next]_vars => RotationInv'
  <2> SUFFICES ASSUME RotationInv, [Next]_vars PROVE RotationInv'
    OBVIOUS
  <2>1. CASE RoundRobin(RR!Next)
    <3>1. strategy = "round_robin" /\ strategy' = strategy /\ RR!Next
      BY <2>1, ZenonT(20) DEF RoundRobin
    <3>2. RoundRobinShape' /\ Rotated(recent, next)'
      BY <1>1, <3>1, SwapRotates, OthersRotate, ZenonT(20) DEF RotationInv, RR!Next, RR!Swap
    <3> QED BY <3>1, <3>2 DEF RotationInv
  <2>2. CASE Weighted(WT!Next)
    BY <2>2 DEF Weighted, ofRoundRobin, RotationInv
  <2>3. CASE LeastConn(LC!Next)
    BY <2>3, ZenonT(20) DEF LeastConn, ofRoundRobin, RotationInv
  <2>4. CASE UNCHANGED vars
    BY <2>4, ZenonT(20) DEF vars, ofRoundRobin, RotationInv, RoundRobinShape, Rotated
  <2> QED BY <2>1, <2>2, <2>3, <2>4 DEF Next
<1>4. RotationInv => NobodySkipped
  <2> SUFFICES ASSUME RotationInv, Len(recent) = History, NEW t \in Range(Targets)
               PROVE  \E i \in 1..History : recent[i].target = t \/ t \in recent[i].ex
    BY DEF NobodySkipped
  <2>1. History \in Nat \ {0}
    BY LoadBalancerAssumption
  <2>2. strategy = "round_robin" /\ RoundRobinShape /\ Rotated(recent, next)
    BY <2>1 DEF RotationInv
  <2>3. PICK i \in 1..Size : t = Targets[i]
    BY LoadBalancerAssumption DEF Range, Size, RR!N
  <2>4. next \in Nat /\ Size \in Nat \ {0} /\ i \in Int
    BY <1>1, <2>2, <2>3 DEF RoundRobinShape, Divides
  <2> DEFINE d == ((next - i) % Size) + 1
             q == (next - i) \div Size
  <2>5. q \in Int /\ next - i = Size * q + (d - 1) /\ d \in 1..Size
    BY <2>4
  <2> HIDE DEF d, q
  <2>6. Size * q \in Int /\ next - d = Size * q + (i - 1) /\ i - 1 \in 0..(Size - 1)
    BY <2>3, <2>4, <2>5
  <2>7. Slot(next - d) = i
    <3>1. ((next - d) % Size) = i - 1
      <4>1. next - d \in Int
        BY <2>4, <2>5
      <4> QED BY <4>1, <2>4, <2>5, <2>6, Remainder, ZenonT(20)
    <3> QED BY <3>1, <2>4 DEF Slot
  <2>8. d \in 1..Len(recent)
    BY <2>1, <2>5, <2>4 DEF Size, RR!N
  <2>9. PICK j \in (Len(recent) - d + 1)..Len(recent) : Meets(recent[j], i)
    BY <2>2, <2>7, <2>8 DEF Rotated
  <2>10. j \in 1..History
    BY <2>1, <2>5, <2>8, <2>9, <2>4
  <2> QED BY <2>3, <2>9, <2>10, ZenonT(20) DEF Meets
<1> QED BY <1>2, <1>3, <1>4, PTL DEF FairSpec

-----------------------------------------------------------------------------
(***************************************************************************)
(* The weighted balancer: what the sums over its positions do, and the     *)
(* invariant of smooth weighted round robin.                               *)
(***************************************************************************)

\* Induction up to a bound, for a property given as a set.
LEMMA CountUp ==
  ASSUME NEW n \in Nat, NEW G, 0 \in G, \A m \in 1 .. n : m - 1 \in G => m \in G
  PROVE  \A m \in 0 .. n : m \in G
<1> DEFINE Bad == {m \in 0 .. n : m \notin G}
<1> SUFFICES ASSUME Bad # {} PROVE FALSE
  OBVIOUS
<1>1. Bad \subseteq Nat
  OBVIOUS
<1> DEFINE R == OpToRel(<, Nat)
<1>2. PICK x \in Bad : \A y \in Bad : ~(<<y, x>> \in R)
  BY <1>1, NatLessThanWellFounded, WFMin
<1>3. x \in 1 .. n /\ x \notin G
  OBVIOUS
<1>4. x - 1 \in 0 .. n /\ <<x - 1, x>> \in R
  BY <1>3 DEF OpToRel
<1> QED BY <1>2, <1>3, <1>4

Entries == Len(Targets)
Numbers == [1 .. Entries -> Int]

LEMMA PositionCount == Entries \in Nat /\ Entries >= 1 /\ WT!Index = 1 .. Entries
BY LoadBalancerAssumption DEF Entries, WT!Index

\* A sum, position by position.
LEMMA SumRounds ==
  ASSUME NEW f \in Numbers
  PROVE  \E s : /\ WT!SumOver(f) = s[Entries] /\ s[0] = 0
                /\ \A i \in 0 .. Entries : s[i] \in Int
                /\ \A i \in 1 .. Entries : s[i] = s[i - 1] + f[i]
<1> DEFINE K(s, i) == IF i = 0 THEN 0 ELSE s[i - 1] + f[i]
           Is(s, m) == s = [i \in 0 .. m |-> K(s, i)]
           G == {m \in 0 .. Entries : \E s : Is(s, m)}
<1>1. Entries \in Nat
  BY PositionCount
<1>2. \A s, t, i : (i = 0 \/ s[i - 1] = t[i - 1]) => K(s, i) = K(t, i)
  BY Zenon
<1> HIDE DEF K
<1>3. 0 \in G
  <2> DEFINE g == [i \in 0 .. 0 |-> K(<<>>, i)]
  <2>1. \A i \in 0 .. 0 : i = 0 /\ K(<<>>, i) = K(g, i)
    BY <1>2
  <2>2. g = [i \in 0 .. 0 |-> K(g, i)]
    BY <2>1
  <2> QED BY <1>1, <2>2
<1>4. ASSUME NEW x \in 1 .. Entries, x - 1 \in G PROVE x \in G
  <2>1. PICK s : s = [i \in 0 .. (x - 1) |-> K(s, i)]
    BY <1>4
  <2> DEFINE g == [i \in 0 .. x |-> K(s, i)]
  <2>2. \A i \in 0 .. (x - 1) : g[i] = s[i]
    <3>1. \A i \in 0 .. (x - 1) : i \in 0 .. x
      BY <1>1
    <3>2. \A i \in 0 .. (x - 1) : s[i] = K(s, i)
      BY <2>1
    <3> QED BY <3>1, <3>2
  <2>3. \A i \in 0 .. x : i = 0 \/ i - 1 \in 0 .. (x - 1)
    BY <1>1
  <2> HIDE DEF g
  <2>4. \A i \in 0 .. x : K(s, i) = K(g, i)
    BY <1>2, <2>2, <2>3, Zenon
  <2>5. g = [i \in 0 .. x |-> K(g, i)]
    BY <2>4 DEF g
  <2> QED BY <1>1, <2>5
<1>5. Entries \in 0 .. Entries
  BY <1>1
<1> HIDE DEF G
<1>6. Entries \in G
  BY <1>1, <1>3, <1>4, <1>5, CountUp
<1>7. \E s : Is(s, Entries)
  BY <1>6 DEF G
<1> DEFINE c == CHOOSE s : Is(s, Entries)
<1>8. Is(c, Entries)
  BY <1>7
<1>9. WT!SumOver(f) = c[Entries]
  BY DEF WT!SumOver, K, Entries
<1> HIDE DEF c
<1>10. c[0] = 0
  BY <1>1, <1>8 DEF K
<1>11. \A i \in 1 .. Entries : i \in 0 .. Entries /\ i # 0
  BY <1>1
<1>12. \A i \in 1 .. Entries : c[i] = c[i - 1] + f[i]
  BY <1>8, <1>11, Zenon DEF K
<1> DEFINE H == {m \in 0 .. Entries : c[m] \in Int}
<1>13. 0 \in H
  BY <1>1, <1>10
<1>14. ASSUME NEW m \in 1 .. Entries, m - 1 \in H PROVE m \in H
  BY <1>11, <1>12, <1>14 DEF Numbers
<1> HIDE DEF H
<1>15. \A m \in 0 .. Entries : m \in H
  BY <1>1, <1>13, <1>14, CountUp
<1> QED BY <1>9, <1>10, <1>12, <1>15 DEF H

LEMMA SumType ==
  ASSUME NEW f \in Numbers
  PROVE  WT!SumOver(f) \in Int
<1>1. Entries \in 0 .. Entries
  BY PositionCount
<1> QED BY <1>1, SumRounds

\* A sum of sums.
LEMMA SumAdds ==
  ASSUME NEW f \in Numbers, NEW g \in Numbers, NEW h \in Numbers,
         \A i \in 1 .. Entries : h[i] = f[i] + g[i]
  PROVE  WT!SumOver(h) = WT!SumOver(f) + WT!SumOver(g)
<1>1. PICK s : /\ WT!SumOver(f) = s[Entries] /\ s[0] = 0
               /\ \A i \in 0 .. Entries : s[i] \in Int
               /\ \A i \in 1 .. Entries : s[i] = s[i - 1] + f[i]
  BY SumRounds
<1>2. PICK t : /\ WT!SumOver(g) = t[Entries] /\ t[0] = 0
               /\ \A i \in 0 .. Entries : t[i] \in Int
               /\ \A i \in 1 .. Entries : t[i] = t[i - 1] + g[i]
  BY SumRounds
<1>3. PICK u : /\ WT!SumOver(h) = u[Entries] /\ u[0] = 0
               /\ \A i \in 0 .. Entries : u[i] \in Int
               /\ \A i \in 1 .. Entries : u[i] = u[i - 1] + h[i]
  BY SumRounds
<1> DEFINE G == {m \in 0 .. Entries : u[m] = s[m] + t[m]}
<1>4. Entries \in Nat /\ Entries \in 0 .. Entries
  BY PositionCount
<1>5. 0 \in G
  BY <1>1, <1>2, <1>3, <1>4
<1>6. ASSUME NEW m \in 1 .. Entries, m - 1 \in G PROVE m \in G
  <2>1. m \in 0 .. Entries /\ m - 1 \in 0 .. Entries
    BY <1>4
  <2>2. f[m] \in Int /\ g[m] \in Int /\ s[m - 1] \in Int /\ t[m - 1] \in Int
    BY <1>1, <1>2, <2>1 DEF Numbers
  <2>3. /\ u[m] = u[m - 1] + h[m] /\ s[m] = s[m - 1] + f[m] /\ t[m] = t[m - 1] + g[m]
        /\ u[m - 1] = s[m - 1] + t[m - 1] /\ h[m] = f[m] + g[m]
    BY <1>1, <1>2, <1>3, <1>6
  <2> QED BY <2>1, <2>2, <2>3
<1> HIDE DEF G
<1>7. Entries \in G
  BY <1>4, <1>5, <1>6, CountUp
<1> QED BY <1>1, <1>2, <1>3, <1>7 DEF G

\* A sum of numbers none of which is negative is not, and counts each of them.
LEMMA SumPositive ==
  ASSUME NEW f \in Numbers, \A i \in 1 .. Entries : f[i] >= 0
  PROVE  WT!SumOver(f) >= 0 /\ \A k \in 1 .. Entries : WT!SumOver(f) >= f[k]
<1>1. PICK s : /\ WT!SumOver(f) = s[Entries] /\ s[0] = 0
               /\ \A i \in 0 .. Entries : s[i] \in Int
               /\ \A i \in 1 .. Entries : s[i] = s[i - 1] + f[i]
  BY SumRounds
<1> DEFINE G == {m \in 0 .. Entries : s[m] >= 0 /\ \A k \in 1 .. m : s[m] >= f[k]}
<1>2. Entries \in Nat /\ Entries \in 0 .. Entries
  BY PositionCount
<1>3. 0 \in G
  BY <1>1, <1>2
<1>4. ASSUME NEW m \in 1 .. Entries, m - 1 \in G PROVE m \in G
  <2>1. m \in 0 .. Entries /\ m - 1 \in 0 .. Entries
    BY <1>2
  <2>2. f[m] \in Int /\ f[m] >= 0 /\ s[m - 1] \in Int /\ s[m] = s[m - 1] + f[m] /\ s[m - 1] >= 0
    BY <1>1, <1>4, <2>1 DEF Numbers
  <2>3. ASSUME NEW k \in 1 .. m PROVE s[m] >= f[k]
    <3>1. CASE k = m
      BY <2>2, <3>1
    <3>2. CASE k # m
      <4>1. k \in 1 .. (m - 1) /\ k \in 1 .. Entries
        BY <1>2, <3>2
      <4>2. s[m - 1] >= f[k] /\ f[k] \in Int
        BY <1>4, <4>1 DEF Numbers
      <4> QED BY <2>2, <4>2
    <3> QED BY <3>1, <3>2
  <2> QED BY <2>1, <2>2, <2>3
<1> HIDE DEF G
<1>5. Entries \in G
  BY <1>2, <1>3, <1>4, CountUp
<1> QED BY <1>1, <1>5 DEF G

\* The sum of nothing but d at one position.
LEMMA SumOne ==
  ASSUME NEW k \in 1 .. Entries, NEW d \in Int, NEW f \in Numbers,
         \A i \in 1 .. Entries : f[i] = IF i = k THEN d ELSE 0
  PROVE  WT!SumOver(f) = d
<1>1. PICK s : /\ WT!SumOver(f) = s[Entries] /\ s[0] = 0
               /\ \A i \in 0 .. Entries : s[i] \in Int
               /\ \A i \in 1 .. Entries : s[i] = s[i - 1] + f[i]
  BY SumRounds
<1> DEFINE G == {m \in 0 .. Entries : s[m] = IF m < k THEN 0 ELSE d}
<1>2. Entries \in Nat /\ Entries \in 0 .. Entries
  BY PositionCount
<1>3. 0 \in G
  BY <1>1, <1>2
<1>4. ASSUME NEW m \in 1 .. Entries, m - 1 \in G PROVE m \in G
  <2>1. m \in 0 .. Entries /\ m - 1 \in 0 .. Entries
    BY <1>2
  <2>2. s[m - 1] = (IF m - 1 < k THEN 0 ELSE d) /\ s[m] = s[m - 1] + (IF m = k THEN d ELSE 0)
    BY <1>1, <1>4
  <2> QED BY <2>1, <2>2
<1> HIDE DEF G
<1>5. Entries \in G
  BY <1>2, <1>3, <1>4, CountUp
<1> QED BY <1>1, <1>2, <1>5 DEF G

LEMMA SumZero ==
  ASSUME NEW f \in Numbers, \A i \in 1 .. Entries : f[i] = 0
  PROVE  WT!SumOver(f) = 0
<1>1. 1 \in 1 .. Entries
  BY PositionCount
<1> QED BY <1>1, SumOne

\* Numbers with a positive sum are not all below one.
LEMMA SumNeeds ==
  ASSUME NEW f \in Numbers, WT!SumOver(f) >= 1
  PROVE  \E i \in 1 .. Entries : f[i] >= 1
<1> SUFFICES ASSUME \A i \in 1 .. Entries : ~(f[i] >= 1) PROVE FALSE
  OBVIOUS
<1> DEFINE g == [i \in 1 .. Entries |-> 0 - f[i]]
           z == [i \in 1 .. Entries |-> 0]
<1>1. \A i \in 1 .. Entries : f[i] \in Int
  BY DEF Numbers
<1>2. g \in Numbers /\ z \in Numbers
  BY <1>1 DEF Numbers
<1>3. \A i \in 1 .. Entries : g[i] >= 0 /\ z[i] = f[i] + g[i] /\ z[i] = 0
  BY <1>1
<1> HIDE DEF g, z
<1>4. WT!SumOver(g) >= 0
  BY <1>2, <1>3, SumPositive
<1>5. WT!SumOver(z) = WT!SumOver(f) + WT!SumOver(g)
  BY <1>2, <1>3, SumAdds
<1>6. WT!SumOver(z) = 0
  BY <1>2, <1>3, SumZero
<1>7. WT!SumOver(f) \in Int /\ WT!SumOver(g) \in Int
  BY <1>2, SumType
<1> QED BY <1>4, <1>5, <1>6, <1>7

\* The scan of Select finds a position with the greatest weight.
LEMMA BestFacts ==
  ASSUME NEW w \in Numbers
  PROVE  WT!Best(w, 1 .. Entries) \in 1 .. Entries /\ \A j \in 1 .. Entries : w[j] <= w[WT!Best(w, 1 .. Entries)]
<1> DEFINE Wins(i, m) == \A j \in 1 .. m : w[j] < w[i] \/ (w[j] = w[i] /\ i <= j)
           G == {0} \cup {m \in 1 .. Entries : \E i \in 1 .. m : Wins(i, m)}
<1>1. Entries \in Nat /\ Entries \in 1 .. Entries /\ Entries \in 0 .. Entries /\ \A i \in 1 .. Entries : w[i] \in Int
  BY PositionCount DEF Numbers
<1>2. ASSUME NEW m \in 1 .. Entries, m - 1 \in G PROVE m \in G
  <2>1. CASE m = 1
    <3>1. Wins(1, 1)
      BY <1>1
    <3> QED BY <2>1, <3>1
  <2>2. CASE m # 1
    <3>1. PICK i \in 1 .. (m - 1) : Wins(i, m - 1)
      BY <1>2, <2>2
    <3>2. i \in 1 .. m /\ i \in 1 .. Entries /\ i < m /\ w[i] \in Int /\ w[m] \in Int
      BY <1>1
    <3>3. \A j \in 1 .. m : (j \in 1 .. (m - 1) \/ j = m) /\ w[j] \in Int
      BY <1>1
    <3>4. CASE w[m] <= w[i]
      <4>1. Wins(i, m)
        BY <3>1, <3>2, <3>3, <3>4
      <4> QED BY <3>2, <4>1
    <3>5. CASE w[m] > w[i]
      <4>1. \A j \in 1 .. (m - 1) : w[j] <= w[i]
        BY <3>1, <3>2, <3>3
      <4>2. Wins(m, m)
        BY <3>2, <3>3, <3>5, <4>1
      <4> QED BY <4>2
    <3> QED BY <3>2, <3>4, <3>5
  <2> QED BY <2>1, <2>2
<1>3. 0 \in G
  OBVIOUS
<1> HIDE DEF G
<1>4. Entries \in G
  BY <1>1, <1>2, <1>3, CountUp
<1>5. \E i \in 1 .. Entries : Wins(i, Entries)
  BY <1>1, <1>4 DEF G
<1> DEFINE b == WT!Best(w, 1 .. Entries)
<1>6. b \in 1 .. Entries /\ Wins(b, Entries)
  BY <1>5 DEF WT!Best
<1> HIDE DEF b
<1>7. \A j \in 1 .. Entries : w[j] <= w[b]
  BY <1>1, <1>6
<1> QED BY <1>6, <1>7 DEF b

\* The weight that is used is the share that was asked for, and all together
\* they make a round.
Shares == [i \in 1 .. Entries |-> WT!Share(i)]

LEMMA ShareFacts ==
  /\ \A i \in 1 .. Entries : WT!Share(i) \in Nat /\ WT!Share(i) >= 1 /\ WT!Weight(i) = WT!Share(i)
  /\ Shares \in Numbers
  /\ WT!RoundLength = WT!SumOver(Shares) /\ WT!TotalWeight(1 .. Entries) = WT!RoundLength
  /\ WT!RoundLength \in Nat /\ WT!RoundLength >= 1
<1>1. \A i \in 1 .. Entries : RawWeight[i] \in Int
  BY LoadBalancerAssumption DEF Entries
<1>2. \A i \in 1 .. Entries : WT!Share(i) \in Nat /\ WT!Share(i) >= 1 /\ WT!Weight(i) = WT!Share(i)
  BY <1>1 DEF WT!Share, WT!Weight
<1>3. Shares \in Numbers
  BY <1>2 DEF Shares, Numbers
<1>4. WT!RoundLength = WT!SumOver(Shares)
  BY PositionCount DEF WT!RoundLength, Shares
<1>5. [i \in 1 .. Entries |-> IF i \in 1 .. Entries THEN WT!Weight(i) ELSE 0] = Shares
  BY <1>2 DEF Shares
<1>6. WT!TotalWeight(1 .. Entries) = WT!SumOver(Shares)
  BY <1>5, PositionCount DEF WT!TotalWeight
<1>7. \A i \in 1 .. Entries : Shares[i] >= 0 /\ Shares[i] >= 1
  BY <1>2 DEF Shares
<1>8. 1 \in 1 .. Entries
  BY PositionCount
<1>9. WT!SumOver(Shares) >= Shares[1] /\ WT!SumOver(Shares) \in Int /\ Shares[1] \in Int
  BY <1>3, <1>7, <1>8, SumPositive, SumType DEF Numbers
<1>10. WT!SumOver(Shares) >= 1
  BY <1>7, <1>8, <1>9
<1> QED BY <1>2, <1>3, <1>4, <1>6, <1>9, <1>10

-----------------------------------------------------------------------------
\* The current weight of a position is what it is owed: its share of the
\* selections of the round, less those it got.  All together they are owed
\* nothing, and nobody owes a whole selection.  What balances a round is that
\* the richest of them can always pay without doing so.
Owed(R, got) ==
  /\ currentWeight \in Numbers /\ got \in [1 .. Entries -> Nat]
  /\ R = WT!SumOver(got) /\ R \in Nat /\ R <= WT!RoundLength
  /\ WT!SumOver(currentWeight) = 0
  /\ \A i \in 1 .. Entries : /\ currentWeight[i] = R * WT!Share(i) - WT!RoundLength * got[i]
                       /\ currentWeight[i] > 0 - WT!RoundLength

WeightedInv == pristine => Owed(WT!Round, served)

\* A round that is over has served every share.
LEMMA RoundOver ==
  ASSUME NEW got, Owed(WT!RoundLength, got), NEW k \in 1 .. Entries
  PROVE  got[k] = WT!Share(k) /\ currentWeight[k] = 0
<1> DEFINE W == WT!RoundLength
           d == [i \in 1 .. Entries |-> WT!Share(i) - got[i]]
<1>1. /\ \A i \in 1 .. Entries : WT!Share(i) \in Nat /\ got[i] \in Nat
      /\ Shares \in Numbers /\ W = WT!SumOver(Shares) /\ W \in Nat /\ W >= 1
      /\ got \in Numbers /\ W = WT!SumOver(got)
  <2>1. got \in [1 .. Entries -> Nat] /\ W = WT!SumOver(got)
    BY DEF Owed
  <2>2. got \in [1 .. Entries -> Int] /\ \A i \in 1 .. Entries : got[i] \in Nat
    BY ONLY <2>1
  <2> QED BY <2>1, <2>2, ShareFacts DEF Numbers
<1>2. d \in Numbers
  BY <1>1 DEF Numbers
<1>3. \A i \in 1 .. Entries : Shares[i] = got[i] + d[i]
  BY <1>1 DEF Shares
<1>4. ASSUME NEW i \in 1 .. Entries PROVE d[i] >= 0 /\ currentWeight[i] = W * d[i]
  <2>1. currentWeight[i] = W * WT!Share(i) - W * got[i] /\ currentWeight[i] > 0 - W
    BY DEF Owed
  <2>2. WT!Share(i) \in Nat /\ got[i] \in Nat /\ d[i] = WT!Share(i) - got[i]
    BY <1>1
  <2> HIDE DEF W, d
  <2>3. \A x, y \in Nat : W * x - W * y = W * (x - y)
    BY <1>1
  <2>4. currentWeight[i] = W * d[i] /\ d[i] \in Int
    BY <2>1, <2>2, <2>3
  <2>5. \A x \in Int : W * x > 0 - W => x >= 0
    <3> SUFFICES ASSUME NEW x \in Int, x <= -1 PROVE W * x <= 0 - W
      BY <1>1
    <3>1. W * ((0 - 1) - x) >= 0
      BY <1>1
    <3>2. W * ((0 - 1) - x) = (0 - W) - W * x
      BY <1>1
    <3> QED BY <1>1, <3>1, <3>2
  <2> QED BY <2>1, <2>4, <2>5
<1> HIDE DEF d, W
<1>5. W = W + WT!SumOver(d)
  <2>1. WT!SumOver(Shares) = WT!SumOver(got) + WT!SumOver(d)
    BY ONLY <1>1, <1>2, <1>3, SumAdds
  <2> QED BY <1>1, <2>1
<1>6. WT!SumOver(d) \in Int /\ WT!SumOver(d) >= d[k]
  BY <1>2, <1>4, SumPositive, SumType
<1>7. d[k] = 0
  <2>1. d[k] \in Int /\ d[k] >= 0
    BY <1>2, <1>4 DEF Numbers
  <2>2. W \in Nat
    BY <1>1, ZenonT(20)
  <2> QED BY ONLY <1>5, <1>6, <2>1, <2>2
<1>8. currentWeight[k] = 0
  BY <1>1, <1>4, <1>7
<1> QED BY <1>1, <1>7, <1>8 DEF d

\* The books at the start of a selection: those of the round, or of a new one.
LEMMA RoundOpens ==
  ASSUME pristine, WeightedInv
  PROVE  LET opening == IF WT!Round = WT!RoundLength THEN [i \in WT!Index |-> 0] ELSE served
         IN  Owed(WT!SumOver(opening), opening) /\ WT!SumOver(opening) < WT!RoundLength
<1>1. Owed(WT!Round, served)
  BY DEF WeightedInv
<1>2. WT!RoundLength \in Nat /\ WT!RoundLength >= 1 /\ \A i \in 1 .. Entries : WT!Share(i) \in Nat
  BY ShareFacts
<1>3. CASE WT!Round = WT!RoundLength
  <2> DEFINE z == [i \in WT!Index |-> 0]
  <2>1. z \in [1 .. Entries -> Nat] /\ z \in Numbers /\ \A i \in 1 .. Entries : z[i] = 0
    BY PositionCount DEF Numbers
  <2> HIDE DEF z
  <2>2. WT!SumOver(z) = 0
    BY <2>1, SumZero
  <2>3. \A i \in 1 .. Entries : currentWeight[i] = 0
    BY <1>1, <1>3, RoundOver
  <2>4. \A i \in 1 .. Entries : currentWeight[i] = 0 * WT!Share(i) - WT!RoundLength * z[i]
    BY <1>2, <2>1, <2>3
  <2>5. Owed(0, z)
    BY <1>1, <1>2, <2>1, <2>2, <2>3, <2>4 DEF Owed
  <2> QED BY <1>2, <1>3, <2>2, <2>5 DEF z
<1>4. CASE WT!Round # WT!RoundLength
  <2>1. WT!SumOver(served) = WT!Round /\ WT!Round \in Nat /\ WT!Round <= WT!RoundLength
    BY <1>1 DEF Owed
  <2>2. WT!Round < WT!RoundLength
    BY <1>2, <1>4, <2>1
  <2> QED BY <1>1, <1>4, <2>1, <2>2
<1> QED BY <1>3, <1>4

\* One selection among all positions (weighted.go:40-58).
LEMMA SelectionBalances ==
  ASSUME NEW got, NEW R, Owed(R, got), R < WT!RoundLength, NEW best0,
         NEW w, w = WT!Gained(1 .. Entries), best0 = WT!Best(w, 1 .. Entries),
         currentWeight' = [w EXCEPT ![best0] = @ - WT!RoundLength],
         served' = [got EXCEPT ![best0] = @ + 1]
  PROVE  Owed(WT!Round, served)'
<1> DEFINE W == WT!RoundLength
           pay == [i \in 1 .. Entries |-> IF i = best0 THEN 0 - W ELSE 0]
           one == [i \in 1 .. Entries |-> IF i = best0 THEN 1 ELSE 0]
<1>1. /\ currentWeight \in Numbers /\ got \in [1 .. Entries -> Nat]
      /\ R = WT!SumOver(got) /\ R \in Nat /\ WT!SumOver(currentWeight) = 0
      /\ \A i \in 1 .. Entries : currentWeight[i] = R * WT!Share(i) - W * got[i]
      /\ \A i \in 1 .. Entries : currentWeight[i] > 0 - W
  BY DEF Owed
<1>2. /\ \A i \in 1 .. Entries : WT!Share(i) \in Nat /\ WT!Share(i) >= 1 /\ WT!Weight(i) = WT!Share(i)
      /\ Shares \in Numbers /\ W = WT!SumOver(Shares) /\ W \in Nat /\ W >= 1
  BY ShareFacts
<1>3. \A i \in 1 .. Entries : currentWeight[i] \in Int /\ got[i] \in Nat
  BY ONLY <1>1 DEF Numbers
<1>4. w = [i \in 1 .. Entries |-> currentWeight[i] + WT!Share(i)]
  BY <1>2, PositionCount DEF WT!Gained
<1>5. w \in Numbers /\ \A i \in 1 .. Entries : w[i] = currentWeight[i] + Shares[i] /\ Shares[i] = WT!Share(i)
  <2>1. \A i \in 1 .. Entries : Shares[i] = WT!Share(i)
    BY DEF Shares
  <2>2. \A i \in 1 .. Entries : currentWeight[i] + WT!Share(i) \in Int
    BY <1>2, <1>3
  <2>3. w \in Numbers
    BY ONLY <1>4, <2>2 DEF Numbers
  <2> QED BY <1>4, <2>1, <2>3
<1>6. best0 \in 1 .. Entries /\ \A j \in 1 .. Entries : w[j] <= w[best0]
  BY <1>5, BestFacts
<1> HIDE DEF W
<1>7. WT!SumOver(w) = W
  <2>1. WT!SumOver(w) = WT!SumOver(currentWeight) + WT!SumOver(Shares)
    BY ONLY <1>1, <1>2, <1>5, SumAdds
  <2> QED BY <1>1, <1>2, <2>1
<1>8. w[best0] >= 1 /\ \A i \in 1 .. Entries : w[i] \in Int
  <2>1. PICK i \in 1 .. Entries : w[i] >= 1
    BY <1>2, <1>5, <1>7, SumNeeds
  <2>2. \A j \in 1 .. Entries : w[j] \in Int
    BY <1>5 DEF Numbers
  <2> QED BY <1>6, <2>1, <2>2
<1>9. /\ currentWeight' \in Numbers
      /\ \A i \in 1 .. Entries : currentWeight'[i] = w[i] + pay[i]
      /\ pay \in Numbers
  <2>1. pay \in Numbers
    BY <1>2 DEF Numbers
  <2>2. w \in [1 .. Entries -> Int] /\ w[best0] - W \in Int
    BY <1>2, <1>5, <1>6, <1>8 DEF Numbers
  <2>3. currentWeight' = [w EXCEPT ![best0] = w[best0] - W]
    BY DEF W
  <2>4. /\ currentWeight' \in Numbers /\ currentWeight'[best0] = w[best0] - W
        /\ \A i \in 1 .. Entries : i # best0 => currentWeight'[i] = w[i]
    BY ONLY <1>6, <2>2, <2>3 DEF Numbers
  <2>5. ASSUME NEW i \in 1 .. Entries PROVE currentWeight'[i] = w[i] + pay[i]
    <3>1. CASE i = best0
      BY <1>2, <1>8, <2>4, <3>1
    <3>2. CASE i # best0
      BY <1>8, <2>4, <3>2
    <3> QED BY <3>1, <3>2
  <2> QED BY <2>1, <2>4, <2>5
<1>10. /\ served' \in [1 .. Entries -> Nat] /\ one \in Numbers
       /\ \A i \in 1 .. Entries : served'[i] = got[i] + one[i]
  BY <1>1, <1>3, <1>6 DEF Numbers
<1>11. got \in Numbers /\ served' \in Numbers
  BY ONLY <1>1, <1>10 DEF Numbers
<1>12. /\ \A i \in 1 .. Entries : pay[i] = (IF i = best0 THEN 0 - W ELSE 0)
       /\ \A i \in 1 .. Entries : one[i] = (IF i = best0 THEN 1 ELSE 0)
       /\ 0 - W \in Int /\ 1 \in Int
  BY <1>2
<1> HIDE DEF pay, one
<1>13. WT!SumOver(pay) = 0 - W
  BY ONLY <1>6, <1>9, <1>12, SumOne
<1>14. WT!SumOver(one) = 1
  BY ONLY <1>6, <1>10, <1>12, SumOne
<1>15. WT!SumOver(currentWeight') = 0
  <2>1. WT!SumOver(currentWeight') = WT!SumOver(w) + WT!SumOver(pay)
    BY ONLY <1>5, <1>9, SumAdds
  <2> QED BY <1>2, <1>7, <1>13, <2>1
<1>16. WT!SumOver(served') = R + 1
  <2>1. WT!SumOver(served') = WT!SumOver(got) + WT!SumOver(one)
    BY ONLY <1>10, <1>11, SumAdds
  <2> QED BY <1>1, <1>14, <2>1
<1>17. ASSUME NEW i \in 1 .. Entries
       PROVE  /\ currentWeight'[i] = (R + 1) * WT!Share(i) - W * served'[i]
              /\ currentWeight'[i] > 0 - W
  <2>1. WT!Share(i) \in Nat /\ got[i] \in Nat /\ W \in Nat /\ R \in Nat /\ currentWeight[i] \in Int
    BY <1>1, <1>2, <1>3
  <2> DEFINE a == R * WT!Share(i)
             b == W * got[i]
             sh == WT!Share(i)
  <2>2. /\ (R + 1) * sh = a + sh /\ W * (got[i] + 1) = b + W
        /\ a \in Int /\ b \in Int /\ sh \in Nat
    <3>1. \A y, z \in Nat : (y + 1) * z = y * z + z /\ y * (z + 1) = y * z + y /\ y * z \in Int
      OBVIOUS
    <3> QED BY ONLY <2>1, <3>1
  <2>3. /\ currentWeight[i] = a - b /\ currentWeight[i] > 0 - W
        /\ w[i] = currentWeight[i] + sh
        /\ currentWeight'[i] = w[i] + pay[i] /\ served'[i] = got[i] + one[i]
    BY <1>1, <1>5, <1>9, <1>10
  <2>4. CASE i = best0
    <3>1. pay[i] = 0 - W /\ one[i] = 1 /\ w[i] >= 1
      BY <1>8, <1>12, <2>4
    <3>2. (R + 1) * sh - W * served'[i] = (a + sh) - (b + W)
      BY <2>2, <2>3, <3>1
    <3> HIDE DEF a, b, sh
    <3>3. currentWeight'[i] = (a + sh) - (b + W) /\ currentWeight'[i] > 0 - W
      BY ONLY <2>1, <2>2, <2>3, <3>1
    <3> QED BY ONLY <3>2, <3>3 DEF sh
  <2>5. CASE i # best0
    <3>1. pay[i] = 0 /\ served'[i] = got[i]
      <4>1. pay[i] = 0 /\ one[i] = 0
        BY <1>12, <2>5, ZenonT(20)
      <4> QED BY ONLY <2>1, <2>3, <4>1
    <3>2. (R + 1) * sh - W * served'[i] = (a + sh) - b
      BY <2>2, <3>1
    <3> HIDE DEF a, b, sh
    <3>3. currentWeight'[i] = (a + sh) - b /\ currentWeight'[i] > 0 - W
      BY ONLY <2>1, <2>2, <2>3, <3>1
    <3> QED BY ONLY <3>2, <3>3 DEF sh
  <2> QED BY <2>4, <2>5
<1>18. WT!Round' = R + 1 /\ R + 1 <= W
  BY <1>1, <1>2, <1>16 DEF WT!Round, W
<1> QED BY <1>1, <1>9, <1>10, <1>15, <1>16, <1>17, <1>18 DEF Owed, W

LEMMA WeightedStart == Init => WeightedInv
<1> SUFFICES ASSUME Init PROVE Owed(WT!Round, served)
  BY DEF WeightedInv
<1>1. currentWeight = [i \in 1 .. Entries |-> 0] /\ served = [i \in 1 .. Entries |-> 0]
  BY PositionCount DEF Init, WT!Init
<1>2. /\ currentWeight \in Numbers /\ served \in Numbers /\ served \in [1 .. Entries -> Nat]
      /\ \A i \in 1 .. Entries : currentWeight[i] = 0 /\ served[i] = 0
  BY <1>1 DEF Numbers
<1>3. WT!SumOver(currentWeight) = 0 /\ WT!SumOver(served) = 0
  BY ONLY <1>2, SumZero
<1>4. WT!RoundLength \in Nat /\ WT!RoundLength >= 1 /\ \A i \in 1 .. Entries : WT!Share(i) \in Nat
  BY ShareFacts
<1>5. \A i \in 1 .. Entries : currentWeight[i] = 0 * WT!Share(i) - WT!RoundLength * served[i]
  BY <1>2, <1>4
<1> QED BY <1>2, <1>3, <1>4, <1>5 DEF Owed, WT!Round

LEMMA WeightedStep == WeightedInv /\ [Next]_vars => WeightedInv'
<1> SUFFICES ASSUME WeightedInv, [Next]_vars PROVE WeightedInv'
  OBVIOUS
<1>1. CASE UNCHANGED ofWeighted
  BY <1>1 DEF WeightedInv, Owed, WT!Round, WT!SumOver, ofWeighted
<1>2. CASE WT!Next
  <2>1. PICK ex \in ExcludeSets : WT!Select(ex)
    BY <1>2 DEF WT!Next
  <2> SUFFICES ASSUME pristine' PROVE Owed(WT!Round, served)'
    BY DEF WeightedInv
  <2>2. pristine /\ ex = {}
    BY <2>1 DEF WT!Select
  <2>3. {i \in WT!Index : Targets[i] \notin ex} = 1 .. Entries
    BY <2>2, PositionCount
  <2> DEFINE w == WT!Gained(1 .. Entries)
             best0 == WT!Best(w, 1 .. Entries)
             got == IF WT!Round = WT!RoundLength THEN [i \in WT!Index |-> 0] ELSE served
  <2>4. /\ currentWeight' = [w EXCEPT ![best0] = @ - WT!TotalWeight(1 .. Entries)]
        /\ served' = [got EXCEPT ![best0] = @ + 1]
    BY <2>1, <2>3 DEF WT!Select
  <2>5. WT!TotalWeight(1 .. Entries) = WT!RoundLength
    BY ShareFacts
  <2>6. Owed(WT!SumOver(got), got) /\ WT!SumOver(got) < WT!RoundLength
    BY <2>2, RoundOpens
  <2> HIDE DEF w, best0, got
  <2> QED BY <2>4, <2>5, <2>6, SelectionBalances DEF w, best0
<1> QED BY <1>1, <1>2 DEF Next, vars, RoundRobin, Weighted, LeastConn

\* A position is never ahead of its share by a whole selection, and a round
\* of as many selections as the weights add up to serves every position
\* exactly its weight (weighted.go:32-64), for any number of targets, any
\* weights and whatever weights the configuration leaves out.
THEOREM ProportionSafety == FairSpec => []Proportional
<1>1. WeightedInv => Proportional
  <2> SUFFICES ASSUME pristine, Owed(WT!Round, served), NEW i \in 1 .. Entries
               PROVE  /\ WT!RoundLength * served[i] - WT!Round * WT!Share(i) < WT!RoundLength
                      /\ WT!Round = WT!RoundLength => served[i] = WT!Share(i)
    BY PositionCount DEF WeightedInv, Proportional, WT!Proportional
  <2>1. WT!RoundLength \in Nat /\ WT!Share(i) \in Nat /\ served[i] \in Nat /\ WT!Round \in Nat
    BY ShareFacts DEF Owed
  <2>2. WT!RoundLength * served[i] \in Int /\ WT!Round * WT!Share(i) \in Int
    BY <2>1
  <2>3. /\ currentWeight[i] = WT!Round * WT!Share(i) - WT!RoundLength * served[i]
        /\ currentWeight[i] > 0 - WT!RoundLength
    BY DEF Owed
  <2>4. WT!RoundLength * served[i] - WT!Round * WT!Share(i) < WT!RoundLength
    BY <2>1, <2>2, <2>3
  <2> QED BY <2>4, RoundOver
<1> QED BY <1>1, WeightedStart, WeightedStep, PTL DEF FairSpec

-----------------------------------------------------------------------------
(***************************************************************************)
(* One bucket of the rate limiter in Redis: what it grants within a window *)
(* stays bounded and its promises are kept, for any limit and window, any  *)
(* number of requests and gateways, and every lag between the stamp of a   *)
(* request and its arrival at the store.                                   *)
(***************************************************************************)

\* The set's size as the library's theorems know it.
LEMMA CountIsCardinality ==
  ASSUME NEW z, NEW A
  PROVE  Count(z, A) = Cardinality(Members(z, A))
BY DEF Count

\* A member is a score and a number among those of this score.
LEMMA MembersOf ==
  ASSUME NEW z, NEW A, NEW e
  PROVE  e \in Members(z, A) <=>
             \E a \in A, k \in Int : k \in 1..z[a] /\ e = <<a, k>>
BY DEF Members

Fits(z, A) == IsFiniteSet(Members(z, A))

\* Fewer scores and fewer members of each: no greater count (ZREMRANGEBYSCORE).
LEMMA CountMonotonic ==
  ASSUME NEW A, NEW B, NEW y, NEW z, A \subseteq B, Fits(z, B),
         \A a \in A : y[a] \in Nat /\ z[a] \in Nat /\ y[a] <= z[a]
  PROVE  /\ Fits(y, A)
         /\ Count(y, A) \in Nat /\ Count(z, B) \in Nat
         /\ Count(y, A) <= Count(z, B)
<1>1. Members(y, A) \subseteq Members(z, B)
  <2> SUFFICES ASSUME NEW e \in Members(y, A) PROVE e \in Members(z, B)
    OBVIOUS
  <2>1. PICK a \in A, k \in Int : k \in 1..y[a] /\ e = <<a, k>>
    BY MembersOf
  <2>2. a \in B /\ k \in 1..z[a]
    BY <2>1
  <2> QED BY <2>1, <2>2, MembersOf
<1> QED BY <1>1, FS_Subset, FS_CardinalityType, CountIsCardinality DEF Fits

\* A member that is missing makes the count smaller.
LEMMA CountSmaller ==
  ASSUME NEW A, NEW y, NEW z, Fits(z, A), NEW m \in A, y[m] = 0, z[m] > 0,
         \A a \in A : y[a] \in Nat /\ z[a] \in Nat /\ y[a] <= z[a]
  PROVE  Count(y, A) < Count(z, A)
<1>1. /\ Fits(y, A)
      /\ Count(y, A) \in Nat /\ Count(z, A) \in Nat
      /\ Count(y, A) <= Count(z, A)
  BY CountMonotonic
<1>2. Members(y, A) \subseteq Members(z, A)
  <2> SUFFICES ASSUME NEW e \in Members(y, A) PROVE e \in Members(z, A)
    OBVIOUS
  <2>1. PICK a \in A, k \in Int : k \in 1..y[a] /\ e = <<a, k>>
    BY MembersOf
  <2> QED BY <2>1, MembersOf
<1>3. <<m, 1>> \in Members(z, A)
  <2>1. 1 \in 1..z[m]
    OBVIOUS
  <2> QED BY <2>1, MembersOf
<1>4. <<m, 1>> \notin Members(y, A)
  <2> SUFFICES ASSUME <<m, 1>> \in Members(y, A) PROVE FALSE
    OBVIOUS
  <2>1. PICK a \in A, k \in Int : k \in 1..y[a] /\ <<m, 1>> = <<a, k>>
    BY MembersOf
  <2> QED BY <2>1
<1>5. Count(y, A) # Count(z, A)
  BY <1>2, <1>3, <1>4, FS_Subset, CountIsCardinality DEF Fits
<1> QED BY <1>1, <1>5

\* ZADD of a new member adds one to every count that includes its score.
LEMMA CountAdd ==
  ASSUME NEW S, NEW A \in SUBSET S, NEW z \in [S -> Nat], NEW s \in A, Fits(z, A)
  PROVE  /\ Fits(AddAt(z, s), A)
         /\ Count(AddAt(z, s), A) = Count(z, A) + 1
<1> DEFINE y == AddAt(z, s)
           e == <<s, z[s] + 1>>
<1>1. /\ y \in [S -> Nat] /\ y[s] = z[s] + 1
      /\ \A a \in S \ {s} : y[a] = z[a]
  BY DEF AddAt
<1> HIDE DEF y
<1>2. ASSUME NEW f \in Members(y, A)
      PROVE  f \in Members(z, A) \cup {e}
  <2>1. PICK a \in A, k \in Int : k \in 1..y[a] /\ f = <<a, k>>
    BY MembersOf
  <2>2. CASE a = s /\ k = z[s] + 1
    BY <2>1, <2>2
  <2>3. CASE ~(a = s /\ k = z[s] + 1)
    <3>1. k \in 1..z[a]
      BY <1>1, <2>1, <2>3
    <3> QED BY <2>1, <3>1, MembersOf
  <2> QED BY <2>2, <2>3
<1>3. ASSUME NEW f \in Members(z, A) \cup {e}
      PROVE  f \in Members(y, A)
  <2>1. CASE f \in Members(z, A)
    <3>1. PICK a \in A, k \in Int : k \in 1..z[a] /\ f = <<a, k>>
      BY <2>1, MembersOf
    <3>2. k \in 1..y[a]
      BY <1>1, <3>1
    <3> QED BY <3>1, <3>2, MembersOf
  <2>2. CASE f = e
    <3>1. z[s] + 1 \in 1..y[s]
      BY <1>1
    <3> QED BY <2>2, <3>1, MembersOf
  <2> QED BY <1>3, <2>1, <2>2
<1>4. Members(y, A) = Members(z, A) \cup {e}
  BY <1>2, <1>3
<1>5. e \notin Members(z, A)
  <2> SUFFICES ASSUME NEW a \in A, NEW k \in 1..z[a], e = <<a, k>> PROVE FALSE
    BY MembersOf
  <2> QED OBVIOUS
<1> QED BY <1>4, <1>5, FS_AddElement, CountIsCardinality DEF y, Fits

\* It leaves the others alone.
LEMMA CountElsewhere ==
  ASSUME NEW S, NEW A \in SUBSET S, NEW z \in [S -> Nat], NEW s \in S \ A
  PROVE  Count(AddAt(z, s), A) = Count(z, A)
<1>1. \A a \in A : AddAt(z, s)[a] = z[a]
  BY DEF AddAt
<1>2. \A f : f \in Members(AddAt(z, s), A) <=> f \in Members(z, A)
  BY <1>1, MembersOf
<1> QED BY <1>2, CountIsCardinality, Zenon

\* One tick makes every member one older; those that leave the scores in view
\* make the count no greater.
LEMMA CountShift ==
  ASSUME NEW A, NEW B, NEW y, NEW z, Fits(z, B),
         \A a \in A : /\ a \in Int /\ y[a] \in Nat
                      /\ y[a] > 0 => a - 1 \in B /\ z[a - 1] \in Nat /\ y[a] <= z[a - 1]
  PROVE  /\ Fits(y, A)
         /\ Count(y, A) \in Nat /\ Count(z, B) \in Nat
         /\ Count(y, A) <= Count(z, B)
<1>1. ASSUME NEW e \in Members(y, A)
      PROVE  \E a \in A, k \in Int : k \in 1..y[a] /\ e = <<a, k>>
  BY MembersOf
<1>2. ASSUME NEW a \in A, NEW k \in Int, k \in 1..y[a]
      PROVE  a \in Int /\ a - 1 \in B /\ k \in 1..z[a - 1]
  <2>1. y[a] \in Nat /\ k >= 1 /\ k <= y[a] /\ a \in Int
    BY <1>2
  <2>2. a - 1 \in B /\ z[a - 1] \in Nat /\ y[a] <= z[a - 1]
    BY <2>1
  <2> QED BY <2>1, <2>2
<1>3. ASSUME NEW a \in Int, NEW b \in Int, NEW k, NEW l, <<a - 1, k>> = <<b - 1, l>>
      PROVE  <<a, k>> = <<b, l>>
  <2>1. a - 1 = b - 1 /\ k = l
    BY <1>3
  <2>2. a = b
    BY <2>1
  <2> QED BY <2>1, <2>2
<1> DEFINE S == Members(y, A)
           T == Members(z, B)
           f == [e \in S |-> <<e[1] - 1, e[2]>>]
<1>4. ASSUME NEW e \in S, NEW a, NEW k, e = <<a, k>> PROVE f[e] = <<a - 1, k>>
  BY <1>4
<1> HIDE DEF f
<1>5. ASSUME NEW e \in S PROVE f[e] \in T
  <2>1. PICK a \in A, k \in Int : k \in 1..y[a] /\ e = <<a, k>>
    BY <1>1
  <2>2. a - 1 \in B /\ k \in 1..z[a - 1]
    BY <1>2, <2>1
  <2>3. f[e] = <<a - 1, k>>
    BY <1>4, <2>1
  <2> QED BY <2>2, <2>3, MembersOf
<1>6. f \in [S -> T]
  BY <1>5 DEF f
<1>7. ASSUME NEW d \in S, NEW e \in S, f[d] = f[e] PROVE d = e
  <2>1. PICK a \in A, k \in Int : k \in 1..y[a] /\ d = <<a, k>>
    BY <1>1
  <2>2. PICK b \in A, l \in Int : l \in 1..y[b] /\ e = <<b, l>>
    BY <1>1
  <2>3. a \in Int /\ b \in Int
    BY <1>2, <2>1, <2>2
  <2>4. <<a - 1, k>> = <<b - 1, l>>
    BY <1>4, <1>7, <2>1, <2>2
  <2> QED BY <1>3, <2>1, <2>2, <2>3, <2>4
<1>8. f \in Injection(S, T)
  BY <1>6, <1>7, Zenon DEF Injection, IsInjective
<1> QED BY <1>8, FS_Injection, FS_CardinalityType, CountIsCardinality DEF Fits

-----------------------------------------------------------------------------
\* A set of ages that is not empty has a greatest one.
LEMMA GreatestAge ==
  ASSUME NEW h \in Nat, NEW S \in SUBSET (0..h), S # {}
  PROVE  Max(S) \in S /\ \A a \in S : a <= Max(S)
<1> DEFINE T == {n \in Nat : h - n \in S}
<1>1. T \subseteq Nat /\ T # {}
  <2>1. PICK a \in S : TRUE
    BY Zenon
  <2>2. h - a \in Nat /\ h - (h - a) = a
    OBVIOUS
  <2>3. h - a \in T
    BY <2>2
  <2> QED BY <2>3, Zenon
<1> HIDE DEF T
<1>2. PICK n \in T : \A k \in T : ~(<<k, n>> \in OpToRel(<, Nat))
  BY <1>1, NatLessThanWellFounded, WFMin
<1>3. \A k \in T : ~(k < n)
  BY <1>1, <1>2, Zenon DEF OpToRel
<1>4. h - n \in S /\ n \in Nat
  BY <1>2 DEF T
<1>5. ASSUME NEW a \in S PROVE a <= h - n
  <2>1. h - a \in Nat /\ h - (h - a) = a
    OBVIOUS
  <2>2. h - a \in T
    BY <2>1 DEF T
  <2> QED BY <1>3, <1>4, <2>1, <2>2
<1>6. \A a \in S : h - n >= a
  BY <1>4, <1>5
<1>7. Max(S) \in S /\ \A a \in S : Max(S) >= a
  BY <1>4, <1>6, Zenon DEF Max
<1> QED BY <1>7

\* retryAfterSeconds rounds up (ratelimit.go:314): the whole seconds it promises
\* are not shorter than the time left.
LEMMA RetryAfterCovers ==
  ASSUME NEW left \in Int
  PROVE  /\ RetryAfterSeconds(left) \in Int
         /\ RetryAfterSeconds(left) * TicksPerSecond >= left
<1> DEFINE u == left + TicksPerSecond - 1
           q == u \div TicksPerSecond
           m == Max({1, q})
<1>1. TicksPerSecond \in Nat \ {0}
  BY LimiterAssumption DEF LegalBounds
<1>2. q \in Int /\ q * TicksPerSecond >= left
  BY <1>1
<1>3. m \in {1, q} /\ m >= 1 /\ m >= q
  <2>1. \E x \in {1, q} : \A y \in {1, q} : x >= y
    BY <1>2
  <2> HIDE DEF q
  <2> QED BY <2>1 DEF Max
<1>4. RetryAfterSeconds(left) = m
  BY DEF RetryAfterSeconds
<1> HIDE DEF m, q
<1>5. m * TicksPerSecond >= q * TicksPerSecond
  BY <1>1, <1>2, <1>3
<1> QED BY <1>1, <1>2, <1>3, <1>4, <1>5

-----------------------------------------------------------------------------
\* What the sorted set and the histories satisfy between two scripts.  A member
\* is pruned, and the key expires, only once its stamp has left the window of
\* every request that may still come (store.go:24-56).
SetInv ==
  /\ zset \in [Age -> Nat] /\ granted \in [Age -> Nat]
  /\ ttl \in 0..Window /\ promise \in Int
  /\ Fits(zset, Age) /\ Fits(granted, Age)
  /\ Count(zset, Age) <= Limit
  /\ \A a \in Age : zset[a] > 0 => ttl > 0 /\ a + ttl < Horizon
  /\ \A a \in Age : granted[a] > 0 => a + ttl >= Window
  /\ \A a \in Age : a < Window => zset[a] = granted[a]

\* The refusal that Retry-After was computed from: the set has shrunk since, or
\* it still holds a member that will leave the window in time.
Promised ==
  promise # NoPromise =>
     \/ Count(zset, Age) < Limit
     \/ \E m \in Age : zset[m] > 0 /\ m + promise >= Window

\* The inductive invariant.
LimiterInv ==
  /\ LimiterTypeOK
  /\ SetInv /\ Promised /\ WindowBound

\* The ages and what they are compared with.
LEMMA AgeFacts ==
  /\ Limit \in Nat \ {0} /\ Window \in Nat \ {0} /\ MaxLag \in Nat /\ MaxLag < Window
  /\ Horizon \in Nat /\ Horizon = 2 * Window + MaxLag
  /\ NoPromise \in Int
  /\ Age = 0..Horizon
  /\ 0..MaxLag \subseteq Age
BY LimiterAssumption DEF LegalBounds, Horizon, Age, NoPromise

\* ZREMRANGEBYSCORE removes what has left the window of the stamp.
LEMMA PruneFacts ==
  ASSUME LimiterInv, NEW now \in 0..MaxLag
  PROVE  LET kept == Pruned(zset, now) IN
         /\ kept \in [Age -> Nat]
         /\ \A a \in Age : kept[a] = IF a >= now + Window THEN 0 ELSE zset[a]
         /\ \A a \in Age : kept[a] <= zset[a]
         /\ Fits(kept, Age)
         /\ Count(kept, Age) \in Nat
         /\ Count(kept, Age) <= Count(zset, Age)
<1> DEFINE kept == Pruned(zset, now)
<1>1. /\ kept \in [Age -> Nat]
      /\ \A a \in Age : kept[a] = IF a >= now + Window THEN 0 ELSE zset[a]
  BY DEF Pruned, LimiterInv, SetInv
<1> HIDE DEF kept
<1>2. \A a \in Age : kept[a] \in Nat /\ zset[a] \in Nat /\ kept[a] <= zset[a]
  BY <1>1 DEF LimiterInv, SetInv
<1>3. /\ Fits(kept, Age)
      /\ Count(kept, Age) \in Nat
      /\ Count(kept, Age) <= Count(zset, Age)
  BY <1>2, CountMonotonic DEF LimiterInv, SetInv
<1> QED BY <1>1, <1>2, <1>3 DEF kept

\* A script that lets nobody new in: it prunes and renews the expiry.
LEMMA PruneStep ==
  ASSUME LimiterInv, NEW now \in 0..MaxLag,
         zset' = Pruned(zset, now), ttl' = Window, granted' = granted, promise' \in Int
  PROVE  SetInv'
<1> DEFINE kept == Pruned(zset, now)
<1>1. /\ kept \in [Age -> Nat]
      /\ \A a \in Age : kept[a] = IF a >= now + Window THEN 0 ELSE zset[a]
      /\ Fits(kept, Age)
      /\ Count(kept, Age) \in Nat
      /\ Count(kept, Age) <= Count(zset, Age)
  BY PruneFacts
<1> HIDE DEF kept
<1>2. LegalBounds
  BY LimiterAssumption
<1>3. Count(kept, Age) <= Limit
  BY <1>1, <1>2, AgeFacts, FS_CardinalityType, CountIsCardinality
     DEF LimiterInv, SetInv, Fits
<1>4. \A a \in Age : kept[a] > 0 => Window > 0 /\ a + Window < Horizon
  BY <1>1, <1>2, AgeFacts
<1>5. \A a \in Age : a < Window => kept[a] = granted[a]
  BY <1>1, <1>2, AgeFacts DEF LimiterInv, SetInv
<1>6. \A a \in Age : granted[a] > 0 => a + Window >= Window
  BY <1>2, AgeFacts
<1>7. zset' = kept
  BY DEF kept
<1>8. Window \in 0..Window
  BY <1>2, AgeFacts
<1> QED BY <1>1, <1>3, <1>4, <1>5, <1>6, <1>7, <1>8 DEF LimiterInv, SetInv

\* A script that lets a request in: an interval of the window less the delay
\* that holds its stamp lies within the window, where the set and the history
\* agree, so what the script has counted is what the interval holds.
LEMMA GrantStep ==
  ASSUME LimiterInv, NEW now \in 0..MaxLag,
         Count(Pruned(zset, now), Age) < Limit,
         zset' = AddAt(Pruned(zset, now), now), ttl' = Window,
         granted' = AddAt(granted, now), promise' = NoPromise
  PROVE  SetInv' /\ WindowBound'
<1> DEFINE kept == Pruned(zset, now)
<1>1. /\ kept \in [Age -> Nat]
      /\ \A a \in Age : kept[a] = IF a >= now + Window THEN 0 ELSE zset[a]
      /\ Fits(kept, Age)
      /\ Count(kept, Age) \in Nat
      /\ Count(kept, Age) < Limit
  BY PruneFacts
<1>2. zset' = AddAt(kept, now)
  OBVIOUS
<1> HIDE DEF kept
<1>3. /\ now \in Age /\ now \in Nat /\ now <= MaxLag
      /\ Window \in Nat \ {0} /\ MaxLag \in Nat /\ MaxLag < Window /\ Limit \in Nat
      /\ Horizon = 2 * Window + MaxLag
      /\ \A a \in Age : a \in Nat
  BY AgeFacts DEF LimiterInv
<1>4. /\ zset' \in [Age -> Nat]
      /\ \A a \in Age : zset'[a] = IF a = now THEN kept[a] + 1 ELSE kept[a]
  BY ONLY <1>1, <1>2, <1>3 DEF AddAt
<1>5. /\ granted' \in [Age -> Nat]
      /\ \A a \in Age : granted'[a] = IF a = now THEN granted[a] + 1 ELSE granted[a]
  BY <1>3 DEF AddAt, LimiterInv, SetInv
<1>6. /\ Fits(zset', Age)
      /\ Count(zset', Age) = Count(kept, Age) + 1
  BY ONLY <1>1, <1>2, <1>3, CountAdd, Zenon
<1>7. Fits(granted', Age)
  BY <1>3, CountAdd, Zenon DEF LimiterInv, SetInv
<1>8. Count(zset', Age) <= Limit
  BY ONLY <1>1, <1>3, <1>6
<1>9. ASSUME NEW a \in Age, zset'[a] > 0
      PROVE  Window > 0 /\ a + Window < Horizon
  <2>1. CASE a = now
    BY ONLY <1>3, <2>1
  <2>2. CASE a # now
    <3>1. kept[a] > 0
      BY ONLY <1>4, <1>9, <2>2
    <3>2. a < now + Window
      BY ONLY <1>1, <1>3, <3>1
    <3> QED BY ONLY <1>3, <3>2
  <2> QED BY <2>1, <2>2
<1>10. \A a \in Age : granted'[a] > 0 => a + Window >= Window
  BY <1>3, AgeFacts
<1>11. ASSUME NEW a \in Age, a < Window PROVE zset'[a] = granted'[a]
  <2>1. zset[a] = granted[a]
    BY <1>11 DEF LimiterInv, SetInv
  <2>2. kept[a] = zset[a]
    BY ONLY <1>1, <1>3, <1>11
  <2> QED BY ONLY <1>4, <1>5, <2>1, <2>2
<1>12. Window \in 0..Window /\ NoPromise \in Int
  BY <1>3, AgeFacts
<1>13. SetInv'
  BY <1>4, <1>5, <1>6, <1>7, <1>8, <1>9, <1>10, <1>11, <1>12 DEF SetInv
<1>14. ASSUME NEW a \in Age
       PROVE  Count(granted', {b \in Age : a <= b /\ b < a + (Window - MaxLag)}) <= Limit
  <2> DEFINE I == {b \in Age : a <= b /\ b < a + (Window - MaxLag)}
  <2>1. I \subseteq Age
    OBVIOUS
  <2>2. Count(granted, I) <= Limit
    BY DEF LimiterInv, WindowBound, AtMostLimitIn
  <2>3. ASSUME now \in I, NEW b \in I PROVE kept[b] = granted[b]
    <3>1. b \in Age /\ b < Window /\ b < now + Window
      BY ONLY <1>3, <2>3
    <3>2. zset[b] = granted[b]
      BY <3>1 DEF LimiterInv, SetInv
    <3> QED BY ONLY <1>1, <1>3, <3>1, <3>2
  <2> HIDE DEF I
  <2>4. /\ Fits(granted, I)
        /\ Count(granted, I) \in Nat
    <3>1. Fits(granted, Age) /\ \A b \in I : granted[b] \in Nat /\ granted[b] <= granted[b]
      BY <2>1 DEF LimiterInv, SetInv
    <3> QED BY ONLY <2>1, <3>1, CountMonotonic
  <2>5. granted \in [Age -> Nat] /\ granted' = AddAt(granted, now)
    BY DEF LimiterInv, SetInv
  <2>6. CASE now \in I
    <3>1. \A b \in I : granted[b] \in Nat /\ kept[b] \in Nat /\ granted[b] <= kept[b]
      BY <1>1, <2>1, <2>3, <2>6
    <3>2. Count(granted, I) <= Count(kept, Age)
      BY <1>1, <2>1, <3>1, CountMonotonic
    <3>3. Count(granted', I) = Count(granted, I) + 1
      <4>1. Count(AddAt(granted, now), I) = Count(granted, I) + 1
        BY ONLY <2>1, <2>4, <2>5, <2>6, CountAdd, Zenon
      <4> QED BY ONLY <2>5, <4>1
    <3> QED BY <1>1, <1>3, <2>4, <3>2, <3>3 DEF I
  <2>7. CASE now \notin I
    <3>1. Count(granted', I) = Count(granted, I)
      <4>1. Count(AddAt(granted, now), I) = Count(granted, I)
        BY ONLY <1>3, <2>1, <2>5, <2>7, CountElsewhere, ZenonT(40)
      <4> QED BY ONLY <2>5, <4>1
    <3> QED BY <2>2, <3>1 DEF I
  <2> QED BY <2>6, <2>7
<1>15. WindowBound'
  BY <1>14 DEF WindowBound, AtMostLimitIn
<1> QED BY <1>13, <1>15

\* The Retry-After of a refusal covers the time until the oldest member leaves.
LEMMA RefusalPromises ==
  ASSUME LimiterInv, NEW now \in 0..MaxLag,
         ~(Count(Pruned(zset, now), Age) < Limit),
         zset' = Pruned(zset, now),
         promise' = RetryAfterSeconds(ResetAfter(Pruned(zset, now), now))
                        * TicksPerSecond - now
  PROVE  promise' \in Int /\ Promised'
<1> DEFINE kept == Pruned(zset, now)
           Held == {a \in Age : kept[a] > 0}
           m == Max(Held)
           left == ResetAfter(kept, now)
<1>1. LegalBounds
  BY LimiterAssumption
<1>2. Held # {}
  <2> SUFFICES ASSUME Held = {} PROVE FALSE
    OBVIOUS
  <2>1. \A a \in Age : ~(kept[a] > 0) /\ kept[a] \in Nat
    BY PruneFacts
  <2>2. \A e : e \notin Members(kept, Age)
    <3> SUFFICES ASSUME NEW e \in Members(kept, Age) PROVE FALSE
      OBVIOUS
    <3>1. PICK a \in Age, k \in Int : k \in 1..kept[a] /\ e = <<a, k>>
      BY MembersOf
    <3> QED BY <2>1, <3>1
  <2>3. Members(kept, Age) = {}
    BY <2>2
  <2>4. Count(kept, Age) = 0
    BY <2>3, FS_EmptySet, CountIsCardinality
  <2> QED BY <1>1, <2>4, AgeFacts
<1>3. m \in Held
  <2>1. Held \in SUBSET (0..Horizon) /\ Horizon \in Nat
    BY <1>1, AgeFacts
  <2> HIDE DEF Held
  <2> QED BY <1>2, <2>1, GreatestAge, Zenon
<1>4. left = Window + now - m
  BY DEF ResetAfter
<1>5. m \in Age /\ kept[m] > 0 /\ m \in Int
  BY <1>1, <1>3, AgeFacts
<1> HIDE DEF m, Held
<1>6. left \in Int /\ now \in Int /\ Window \in Int /\ TicksPerSecond \in Int
  BY <1>1, <1>4, <1>5, AgeFacts, LimiterAssumption DEF LegalBounds
<1> DEFINE s == RetryAfterSeconds(left)
<1>7. promise' = s * TicksPerSecond - now
  OBVIOUS
<1>8. zset' = kept
  OBVIOUS
<1> HIDE DEF kept, left
<1>9. s \in Int /\ s * TicksPerSecond >= left
  BY <1>1, <1>6, RetryAfterCovers
<1> HIDE DEF s
<1>10. promise' \in Int
  BY <1>6, <1>7, <1>9
<1>11. m + promise' >= Window
  <2> DEFINE p == s * TicksPerSecond
  <2>1. p \in Int /\ p >= left /\ promise' = p - now
    BY <1>6, <1>7, <1>9
  <2> HIDE DEF p
  <2> QED BY <1>4, <1>5, <1>6, <2>1
<1> QED BY <1>5, <1>8, <1>10, <1>11 DEF Promised

\* The members one tick later.
LEMMA OlderFacts ==
  ASSUME NEW z \in [Age -> Nat], z[Horizon] = 0
  PROVE  /\ Older(z) \in [Age -> Nat]
         /\ \A a \in Age : Older(z)[a] = IF a > 0 THEN z[a - 1] ELSE 0
<1>1. /\ Age = 0..Horizon /\ Horizon \in Nat
  BY AgeFacts
<1>2. \A a \in Age : Older(z)[a] =
          (IF a > 0 THEN z[a - 1] ELSE 0) + (IF a = Horizon THEN z[a] ELSE 0)
  BY DEF Older
<1>3. ASSUME NEW a \in Age
      PROVE  Older(z)[a] = (IF a > 0 THEN z[a - 1] ELSE 0) /\ Older(z)[a] \in Nat
  <2>1. a > 0 => z[a - 1] \in Nat
    BY <1>1
  <2> QED BY <1>2, <2>1
<1>4. Older(z) \in [Age -> Nat]
  BY <1>3 DEF Older
<1> QED BY <1>3, <1>4

\* The sets of ages that WindowBound looks at.
Interval(a) == {b \in Age : a <= b /\ b < a + (Window - MaxLag)}

\* Time passes.
LEMMA TickStep ==
  ASSUME LimiterInv, Tick
  PROVE  SetInv' /\ Promised' /\ WindowBound'
<1>0. /\ Age = 0..Horizon /\ Horizon \in Nat
      /\ Horizon = 2 * Window + MaxLag
      /\ Window \in Nat \ {0} /\ MaxLag \in Nat /\ MaxLag < Window /\ Limit \in Nat \ {0}
      /\ NoPromise \in Int
  BY AgeFacts DEF LimiterInv
<1>1. /\ zset \in [Age -> Nat] /\ granted \in [Age -> Nat]
      /\ ttl \in 0..Window /\ promise \in Int
      /\ Fits(zset, Age) /\ Fits(granted, Age)
      /\ Count(zset, Age) <= Limit
  BY DEF LimiterInv, SetInv
<1>2. \A a \in Age : zset[a] > 0 => ttl > 0 /\ a + ttl < Horizon
  BY DEF LimiterInv, SetInv
<1>3. \A a \in Age : granted[a] > 0 => a + ttl >= Window
  BY DEF LimiterInv, SetInv
<1>4. \A a \in Age : a < Window => zset[a] = granted[a]
  BY DEF LimiterInv, SetInv
<1>5. /\ ttl' = IF ttl > 0 THEN ttl - 1 ELSE 0
      /\ zset' = IF ttl = 1 THEN Empty ELSE Older(zset)
      /\ granted' = [Older(granted) EXCEPT ![Horizon] = 0]
      /\ promise' = IF promise = NoPromise \/ promise <= 0 THEN promise ELSE promise - 1
  BY DEF Tick
<1>6. /\ zset' \in [Age -> Nat]
      /\ \A a \in Age : zset'[a] = IF a > 0 /\ ttl # 1 THEN zset[a - 1] ELSE 0
  <2>1. CASE ttl = 1
    BY <1>5, <2>1 DEF Empty
  <2>2. CASE ttl # 1
    <3>1. zset[Horizon] = 0
      BY ONLY <1>0, <1>1, <1>2
    <3> QED BY ONLY <1>0, <1>1, <1>5, <2>2, <3>1, OlderFacts, Zenon
  <2> QED BY <2>1, <2>2
<1>7. /\ granted' \in [Age -> Nat]
      /\ granted'[Horizon] = 0
      /\ \A a \in Age : a < Horizon =>
            granted'[a] = IF a > 0 THEN granted[a - 1] ELSE 0
  <2>1. ASSUME NEW a \in Age
        PROVE  /\ Older(granted)[a] \in Nat
               /\ a < Horizon => Older(granted)[a] = IF a > 0 THEN granted[a - 1] ELSE 0
    <3>1. Older(granted)[a] =
            (IF a > 0 THEN granted[a - 1] ELSE 0) + (IF a = Horizon THEN granted[a] ELSE 0)
      BY DEF Older
    <3>2. (a > 0 => granted[a - 1] \in Nat) /\ granted[a] \in Nat
      BY ONLY <1>0, <1>1, <2>1
    <3> QED BY ONLY <1>0, <2>1, <3>1, <3>2
  <2>2. Older(granted) \in [Age -> Nat]
    BY <2>1 DEF Older
  <2> HIDE DEF Older
  <2> QED BY ONLY <1>0, <1>5, <2>1, <2>2
<1>8. ASSUME NEW a \in Age
      PROVE  /\ a \in Int /\ zset'[a] \in Nat
             /\ zset'[a] > 0 => /\ a - 1 \in Age /\ zset[a - 1] \in Nat
                                /\ zset'[a] <= zset[a - 1]
  <2>1. a \in Int /\ zset'[a] \in Nat
    BY ONLY <1>0, <1>6, <1>8
  <2>2. zset'[a] > 0 => a > 0 /\ zset'[a] = zset[a - 1]
    BY ONLY <1>6, <1>8
  <2>3. a > 0 => a - 1 \in Age
    BY ONLY <1>0, <1>8
  <2> QED BY ONLY <1>1, <2>1, <2>2, <2>3
<1>9. ASSUME NEW a \in Age
      PROVE  /\ a \in Int /\ granted'[a] \in Nat
             /\ granted'[a] > 0 => /\ a - 1 \in Age /\ granted[a - 1] \in Nat
                                   /\ granted'[a] <= granted[a - 1]
  <2>1. a \in Int /\ granted'[a] \in Nat
    BY ONLY <1>0, <1>7, <1>9
  <2>2. ASSUME granted'[a] > 0 PROVE a > 0 /\ granted'[a] = granted[a - 1]
    <3>1. a # Horizon
      BY ONLY <1>7, <2>2
    <3>2. a < Horizon
      BY ONLY <1>0, <1>9, <3>1
    <3>3. granted'[a] = IF a > 0 THEN granted[a - 1] ELSE 0
      BY ONLY <1>7, <1>9, <3>2
    <3> QED BY ONLY <2>2, <3>3
  <2>3. a > 0 => a - 1 \in Age
    BY ONLY <1>0, <1>9
  <2> QED BY ONLY <1>1, <2>1, <2>2, <2>3
<1>10. /\ Fits(zset', Age)
       /\ Count(zset', Age) \in Nat /\ Count(zset, Age) \in Nat
       /\ Count(zset', Age) <= Count(zset, Age)
  BY ONLY <1>1, <1>8, CountShift
<1>11. Fits(granted', Age)
  BY ONLY <1>1, <1>9, CountShift, Zenon
<1>12. SetInv'
  <2>0. ttl \in Int /\ (ttl > 0 => ttl' = ttl - 1)
    BY ONLY <1>0, <1>1, <1>5
  <2>1. ASSUME NEW a \in Age, zset'[a] > 0
        PROVE  ttl' > 0 /\ a + ttl' < Horizon
    <3>1. a > 0 /\ ttl # 1 /\ zset'[a] = zset[a - 1]
      BY ONLY <1>6, <2>1
    <3>2. a \in Int /\ a - 1 \in Age
      BY ONLY <1>0, <2>1, <3>1
    <3>3. ttl > 0 /\ (a - 1) + ttl < Horizon
      BY ONLY <1>2, <2>1, <3>1, <3>2
    <3> QED BY ONLY <1>0, <2>0, <3>1, <3>2, <3>3
  <2>2. \A a \in Age : granted'[a] > 0 => a + ttl' >= Window
    BY ONLY <1>0, <1>1, <1>3, <1>5, <1>7
  <2>3. ASSUME NEW a \in Age, a < Window PROVE zset'[a] = granted'[a]
    <3>1. granted'[a] = IF a > 0 THEN granted[a - 1] ELSE 0
      BY ONLY <1>0, <1>7, <2>3
    <3>2. CASE a > 0
      <4>1. zset[a - 1] = granted[a - 1] /\ granted[a - 1] \in Nat
        BY ONLY <1>0, <1>1, <1>4, <2>3, <3>2
      <4>2. ttl = 1 => granted[a - 1] = 0
        BY ONLY <1>0, <1>1, <1>3, <2>3, <3>2, <4>1
      <4> QED BY ONLY <1>6, <3>1, <3>2, <4>1, <4>2
    <3>3. CASE ~(a > 0)
      BY ONLY <1>6, <3>1, <3>3
    <3> QED BY <3>2, <3>3
  <2>4. ttl' \in 0..Window /\ promise' \in Int
    BY ONLY <1>0, <1>1, <1>5
  <2>5. Count(zset', Age) <= Limit
    BY ONLY <1>0, <1>1, <1>10
  <2> QED BY ONLY <1>6, <1>7, <1>10, <1>11, <2>1, <2>2, <2>3, <2>4, <2>5 DEF SetInv
<1>13. Promised'
  <2> SUFFICES ASSUME promise' # NoPromise,
                      ~(Count(zset', Age) < Limit)
               PROVE  \E m \in Age : zset'[m] > 0 /\ m + promise' >= Window
    BY DEF Promised
  <2>1. promise # NoPromise /\ promise' \in Int /\ promise' >= promise - 1
    BY <1>1, <1>5
  <2>2. ~(Count(zset, Age) < Limit)
    BY <1>0, <1>10
  <2>3. PICK m \in Age : zset[m] > 0 /\ m + promise >= Window
    BY <2>1, <2>2 DEF LimiterInv, Promised
  <2>4. ttl > 0 /\ m + ttl < Horizon
    BY <1>2, <2>3
  <2>5. ttl # 1
    <3> SUFFICES ASSUME ttl = 1 PROVE FALSE
      OBVIOUS
    <3>1. \A a \in Age : zset'[a] = 0
      BY <1>6
    <3>2. Members(zset', Age) = {}
      <4> SUFFICES ASSUME NEW e \in Members(zset', Age) PROVE FALSE
        OBVIOUS
      <4>1. PICK a \in Age, k \in Int : k \in 1..zset'[a] /\ e = <<a, k>>
        BY MembersOf
      <4> QED BY ONLY <3>1, <4>1
    <3>3. Count(zset', Age) = 0
      BY <3>2, FS_EmptySet, CountIsCardinality
    <3> QED BY <1>0, <3>3
  <2>6. m + 1 \in Age /\ zset'[m + 1] = zset[m]
    BY ONLY <1>0, <1>1, <1>6, <2>3, <2>4, <2>5
  <2>7. (m + 1) + promise' >= Window
    <3>1. m \in Int /\ m + promise >= Window
      BY ONLY <1>0, <2>3
    <3>2. Window \in Int /\ promise \in Int /\ promise' \in Int /\ promise' >= promise - 1
      BY ONLY <1>0, <1>1, <2>1
    <3>3. \A a, p, q, w \in Int : a + p >= w /\ q >= p - 1 => (a + 1) + q >= w
      OBVIOUS
    <3> QED BY ONLY <3>1, <3>2, <3>3, Zenon
  <2> QED BY ONLY <2>3, <2>6, <2>7
<1>14. ASSUME NEW a \in Age
       PROVE  Count(granted', Interval(a)) <= Limit
  <2> DEFINE b == IF a > 0 THEN a - 1 ELSE 0
  <2>1. b \in Age
    BY ONLY <1>0, <1>14
  <2>2. Count(granted, Interval(b)) <= Limit
    BY <2>1 DEF LimiterInv, WindowBound, AtMostLimitIn, Interval
  <2>3. Fits(granted, Interval(b))
    <3>1. Interval(b) \subseteq Age
      BY DEF Interval
    <3>2. \A c \in Interval(b) : granted[c] \in Nat /\ granted[c] <= granted[c]
      BY ONLY <1>1, <3>1
    <3> QED BY ONLY <1>1, <3>1, <3>2, CountMonotonic
  <2>4. \A c \in Interval(a) : c \in Age
    BY DEF Interval
  <2>5. ASSUME NEW c \in Interval(a), granted'[c] > 0 PROVE c - 1 \in Interval(b)
    <3>1. c - 1 \in Age /\ c \in Int /\ c - 1 >= 0
      BY ONLY <1>0, <1>9, <2>4, <2>5
    <3>2. a \in Int /\ a >= 0 /\ a <= c /\ c < a + (Window - MaxLag)
      BY ONLY <1>0, <1>14, <2>5 DEF Interval
    <3>3. b <= c - 1 /\ c - 1 < b + (Window - MaxLag)
      BY ONLY <1>0, <3>1, <3>2
    <3> HIDE DEF b
    <3> QED BY ONLY <3>1, <3>3 DEF Interval
  <2>6. /\ Count(granted', Interval(a)) \in Nat
        /\ Count(granted, Interval(b)) \in Nat
        /\ Count(granted', Interval(a)) <= Count(granted, Interval(b))
    <3> HIDE DEF b
    <3> QED BY ONLY <1>9, <2>3, <2>4, <2>5, CountShift
  <2> QED BY ONLY <1>0, <2>2, <2>6
<1>15. WindowBound'
  BY <1>14 DEF WindowBound, AtMostLimitIn, Interval
<1> QED BY <1>12, <1>13, <1>15

\* Any run of the script, whoever waits for it.
LEMMA ScriptStep ==
  ASSUME LimiterInv, NEW r \in Request, NEW allowed \in BOOLEAN, RunScript(r, allowed)
  PROVE  SetInv' /\ Promised' /\ WindowBound'
<1> DEFINE now == stamp[r]
           kept == Pruned(zset, now)
<1>1. now \in 0..MaxLag
  BY ZenonT(20) DEF LimiterInv, LimiterTypeOK
<1>2. /\ allowed = (Count(kept, Age) < Limit)
      /\ zset' = IF allowed /\ ~member[r] THEN AddAt(kept, now) ELSE kept
      /\ ttl' = Window
      /\ granted' = IF allowed /\ ~member[r] THEN AddAt(granted, now) ELSE granted
      /\ promise' = IF allowed /\ ~member[r] THEN NoPromise
                    ELSE IF allowed THEN promise
                    ELSE RetryAfterSeconds(ResetAfter(kept, now))
                            * TicksPerSecond - now
  BY DEF RunScript
<1> HIDE DEF now
<1>3. CASE allowed /\ ~member[r]
  <2>1. SetInv' /\ WindowBound'
    BY <1>1, <1>2, <1>3, GrantStep, Zenon
  <2> QED BY <1>2, <1>3, <2>1 DEF Promised, NoPromise, Horizon
<1>4. CASE ~(allowed /\ ~member[r])
  <2>1. zset' = kept /\ ttl' = Window /\ granted' = granted
    BY <1>2, <1>4
  <2>2. WindowBound'
    BY <2>1 DEF LimiterInv, WindowBound, AtMostLimitIn
  <2>3. CASE allowed
    <3>1. promise' = promise /\ promise \in Int
      BY <1>2, <1>4, <2>3 DEF LimiterInv, SetInv
    <3>2. SetInv'
      BY <1>1, <2>1, <3>1, PruneStep
    <3>3. Promised'
      BY <1>2, <2>1, <2>3, Zenon DEF Promised
    <3> QED BY <2>2, <3>2, <3>3
  <2>4. CASE ~allowed
    <3>1. promise' \in Int /\ Promised'
      BY <1>1, <1>2, <2>1, <2>4, RefusalPromises, Zenon
    <3>2. SetInv'
      BY <1>1, <2>1, <3>1, PruneStep
    <3> QED BY <2>2, <3>1, <3>2
  <2> QED BY <2>3, <2>4
<1> QED BY <1>3, <1>4

\* A step that runs no script and passes no time leaves the set alone.
LEMMA SetUnchanged ==
  ASSUME LimiterInv, UNCHANGED <<zset, ttl, granted, promise>>
  PROVE  SetInv' /\ Promised' /\ WindowBound'
BY DEF LimiterInv, SetInv, Promised, WindowBound, AtMostLimitIn

\* An empty set with no key behind it.
LEMMA LimiterStart == LimiterInit => LimiterInv
<1> SUFFICES ASSUME LimiterInit PROVE LimiterInv
  OBVIOUS
<1>1. /\ zset \in [Age -> Nat] /\ granted = zset /\ ttl = 0
      /\ \A a \in Age : zset[a] = 0
      /\ promise = NoPromise
  BY DEF LimiterInit, Empty
<1>2. ASSUME NEW A \in SUBSET Age PROVE Members(zset, A) = {}
  <2> SUFFICES ASSUME NEW e \in Members(zset, A) PROVE FALSE
    OBVIOUS
  <2>1. PICK a \in A, k \in Int : k \in 1..zset[a] /\ e = <<a, k>>
    BY MembersOf
  <2> QED BY <1>1, <2>1
<1>3. ASSUME NEW A \in SUBSET Age
      PROVE  Fits(zset, A) /\ Count(zset, A) = 0
  BY <1>2, FS_EmptySet, CountIsCardinality DEF Fits
<1>4. /\ Window \in Nat \ {0} /\ Limit \in Nat \ {0} /\ NoPromise \in Int
      /\ MaxLag \in Nat /\ MaxRetries \in Nat
  BY AgeFacts, LimiterAssumption DEF LegalBounds
<1>5. SetInv
  BY <1>1, <1>3, <1>4 DEF SetInv
<1>6. Promised
  BY <1>1 DEF Promised
<1>7. WindowBound
  <2> SUFFICES ASSUME NEW a \in Age
               PROVE  Count(granted, Interval(a)) <= Limit
    BY DEF WindowBound, AtMostLimitIn, Interval
  <2>1. Interval(a) \in SUBSET Age
    BY DEF Interval
  <2>2. Count(granted, Interval(a)) = 0
    BY <1>1, <1>3, <2>1
  <2> QED BY <1>4, <2>2
<1>8. LimiterTypeOK
  BY <1>1, <1>4 DEF LimiterInit, LimiterTypeOK
<1> QED BY <1>5, <1>6, <1>7, <1>8 DEF LimiterInv

\* Every step of the middleware, the client library, Redis and the clock.
LEMMA LimiterStep == LimiterInv /\ [LimiterNext]_limiterVars => LimiterInv'
<1> SUFFICES ASSUME LimiterInv, [LimiterNext]_limiterVars PROVE LimiterInv'
  OBVIOUS
<1>1. LimiterTypeOK
  BY DEF LimiterInv
<1>2. ASSUME SetInv', Promised', WindowBound',
             pc' \in [Request -> {"idle", "sent", "allowed", "denied", "ghost"}],
             stamp' \in [Request -> 0..MaxLag],
             member' \in [Request -> BOOLEAN],
             retries' \in [Request -> 0..MaxRetries]
      PROVE  LimiterInv'
  <2>1. zset' \in [Age -> Nat] /\ granted' \in [Age -> Nat]
        /\ ttl' \in 0..Window /\ promise' \in Int
    BY <1>2 DEF SetInv
  <2>2. LimiterTypeOK'
    BY <1>2, <2>1 DEF LimiterTypeOK
  <2> QED BY <1>1, <1>2, <2>2 DEF LimiterInv
<1>3. /\ pc \in [Request -> {"idle", "sent", "allowed", "denied", "ghost"}]
      /\ stamp \in [Request -> 0..MaxLag]
      /\ member \in [Request -> BOOLEAN]
      /\ retries \in [Request -> 0..MaxRetries]
      /\ MaxLag \in Nat /\ MaxRetries \in Nat
  BY <1>1, LimiterAssumption DEF LimiterTypeOK, LegalBounds
<1>4. ASSUME NEW r \in Request, Arrive(r) PROVE LimiterInv'
  BY <1>2, <1>3, <1>4, SetUnchanged DEF Arrive
<1>5. ASSUME NEW r \in Request, Execute(r) PROVE LimiterInv'
  <2>1. PICK allowed \in BOOLEAN :
          /\ RunScript(r, allowed)
          /\ pc' = [pc EXCEPT ![r] = IF allowed THEN "allowed" ELSE "denied"]
          /\ member' = [member EXCEPT ![r] = @ \/ allowed]
    BY <1>5, Zenon DEF Execute
  <2>2. SetInv' /\ Promised' /\ WindowBound'
    BY <2>1, ScriptStep
  <2>3. pc' \in [Request -> {"idle", "sent", "allowed", "denied", "ghost"}]
    BY <1>3, <2>1
  <2>4. member' \in [Request -> BOOLEAN]
    BY <1>3, <2>1
  <2> QED BY <1>2, <1>3, <1>5, <2>2, <2>3, <2>4 DEF Execute
<1>6. ASSUME NEW r \in Request, Forget(r)
      PROVE  /\ pc' \in [Request -> {"idle", "sent", "allowed", "denied", "ghost"}]
             /\ stamp' \in [Request -> 0..MaxLag]
             /\ member' \in [Request -> BOOLEAN]
             /\ retries' \in [Request -> 0..MaxRetries]
  BY <1>3, <1>6 DEF Forget
<1>7. ASSUME NEW r \in Request, Respond(r) PROVE LimiterInv'
  BY <1>2, <1>6, <1>7, SetUnchanged DEF Respond
<1>8. ASSUME NEW r \in Request, Resend(r) PROVE LimiterInv'
  <2>1. /\ pc' \in [Request -> {"idle", "sent", "allowed", "denied", "ghost"}]
        /\ retries' \in [Request -> 0..MaxRetries]
        /\ UNCHANGED <<zset, ttl, stamp, member, granted, promise>>
    BY <1>3, <1>8 DEF Resend
  <2> QED BY <1>2, <1>3, <2>1, SetUnchanged
<1>9. ASSUME NEW r \in Request, FailOpen(r) PROVE LimiterInv'
  <2>1. SetInv' /\ Promised' /\ WindowBound'
    BY <1>9, SetUnchanged DEF FailOpen
  <2>2. CASE pc[r] = "sent"
    BY <1>2, <1>3, <1>9, <2>1, <2>2 DEF FailOpen
  <2>3. CASE pc[r] # "sent"
    BY <1>2, <1>6, <1>9, <2>1, <2>3 DEF FailOpen
  <2> QED BY <2>2, <2>3
<1>10. ASSUME NEW r \in Request, ExecuteLate(r) PROVE LimiterInv'
  <2>1. SetInv' /\ Promised' /\ WindowBound'
    BY <1>10, ScriptStep, SetUnchanged DEF ExecuteLate
  <2> QED BY <1>2, <1>6, <1>10, <2>1 DEF ExecuteLate
<1>11. CASE Tick
  <2>1. /\ stamp' \in [Request -> 0..MaxLag]
        /\ UNCHANGED <<pc, member, retries>>
    BY <1>3, <1>11 DEF Tick
  <2> QED BY <1>2, <1>3, <1>11, <2>1, TickStep
<1>12. CASE UNCHANGED limiterVars
  BY <1>2, <1>3, <1>12, SetUnchanged DEF limiterVars
<1> QED BY <1>4, <1>5, <1>7, <1>8, <1>9, <1>10, <1>11, <1>12 DEF LimiterNext

\* The set holds what was let in and is not yet too old, its key outlives its
\* youngest member's window, and a refusal's promise is kept by a member that
\* leaves in time (store.go:20-62).
THEOREM LimiterInvariant == LimiterSpec => []LimiterInv
BY LimiterStart, LimiterStep, PTL DEF LimiterSpec

\* At most Limit requests are let in with stamps in any window less the delay to
\* Redis (store.go:20-62,129-182), for any limit, window, delay and number of
\* requests, retries and abandoned commands.
THEOREM LimiterWindowBound == LimiterSpec => []WindowBound
<1>1. LimiterInv => WindowBound
  BY DEF LimiterInv
<1> QED BY <1>1, LimiterInvariant, PTL

\* Once a Retry-After has passed and nobody else was let in, a request is let in
\* (ratelimit.go:314, store.go:44-50), at any resolution of the header.
THEOREM LimiterRetryAfter == LimiterSpec => []RetryAfterHonest
<1>1. LimiterInv => RetryAfterHonest
  <2> SUFFICES ASSUME LimiterInv, promise <= 0
               PROVE  Count(Pruned(zset, 0), Age) < Limit
    BY DEF RetryAfterHonest
  <2> DEFINE kept == Pruned(zset, 0)
  <2>1. /\ Window \in Nat \ {0} /\ MaxLag \in Nat /\ Limit \in Nat
        /\ 0 \in 0..MaxLag /\ promise \in Int /\ TicksPerSecond \in Nat
        /\ \A a \in Age : a \in Nat
    BY AgeFacts, LimiterAssumption DEF LimiterInv, SetInv, LegalBounds
  <2>2. promise # NoPromise
    BY <2>1 DEF NoPromise, Horizon
  <2>3. /\ \A a \in Age : kept[a] = IF a >= 0 + Window THEN 0 ELSE zset[a]
        /\ \A a \in Age : kept[a] \in Nat /\ zset[a] \in Nat /\ kept[a] <= zset[a]
        /\ Count(kept, Age) \in Nat
        /\ Count(kept, Age) <= Count(zset, Age)
    BY <2>1, PruneFacts DEF LimiterInv, SetInv
  <2>4. /\ Fits(zset, Age) /\ Count(zset, Age) <= Limit
        /\ Count(zset, Age) \in Nat
    BY FS_CardinalityType, CountIsCardinality DEF LimiterInv, SetInv, Fits
  <2> HIDE DEF kept
  <2>5. CASE Count(zset, Age) < Limit
    BY ONLY <2>1, <2>3, <2>4, <2>5 DEF kept
  <2>6. CASE ~(Count(zset, Age) < Limit)
    <3>1. PICK m \in Age : zset[m] > 0 /\ m + promise >= Window
      BY <2>2, <2>6 DEF LimiterInv, Promised
    <3>2. m >= Window
      BY <2>1, <3>1
    <3>3. kept[m] = 0
      BY ONLY <2>1, <2>3, <3>2
    <3>4. Count(kept, Age) < Count(zset, Age)
      BY ONLY <2>3, <2>4, <3>1, <3>3, CountSmaller
    <3> QED BY ONLY <2>1, <2>3, <2>4, <3>4 DEF kept
  <2> QED BY <2>5, <2>6
<1> QED BY <1>1, LimiterInvariant, PTL
=============================================================================
