---------------------- MODULE ResilientTransportProofs ----------------------
(***************************************************************************)
(* What an attempt takes it gives back once: the connection counts and the *)
(* probe slots of ResilientTransport, for any route, any finite set of     *)
(* concurrent requests and every legal configuration.                      *)
(***************************************************************************)
EXTENDS ResilientTransport, BreakerProofs

InUse == {"admit", "sent", "body", "error_body", "broken"}
Owing == {"sent", "body"}

RequestType ==
  [pc : Location, idempotent : BOOLEAN, ctx : {"live", "canceled", "deadline"},
   attempt : Nat, tried : SUBSET Target, target : Target \cup {None},
   visits : Seq(Target), result : Nat \cup {None}]

\* A request that holds something knows of what.
HasTarget(q) == q.pc \in InUse => q.target \in Target

Shape ==
  /\ req \in [Request -> RequestType]
  /\ \A r \in Request : HasTarget(req[r])
  /\ active \in [Target -> Int]
  /\ br \in [Target -> BreakerType]
  /\ \A t \in Target : WellFormed(br[t], Cfg)

IInv == Shape /\ ActiveIsInUse /\ SlotsOwed

-----------------------------------------------------------------------------
\* One if the request counts for the target at one of these places, else none.
One(q, t, where) == IF q.target = t /\ q.pc \in where THEN 1 ELSE 0

\* When one request moves, a count of holders changes by what it was and what
\* it becomes.
LEMMA HoldersMove ==
  ASSUME NEW t, NEW where, NEW r \in Request, NEW q,
         req \in [Request -> RequestType], req' = [req EXCEPT ![r] = q]
  PROVE  /\ Cardinality(Holding(t, where)) \in Nat
         /\ Cardinality(Holding(t, where)) >= One(req[r], t, where)
         /\ Cardinality(Holding(t, where))' =
              Cardinality(Holding(t, where)) - One(req[r], t, where) + One(q, t, where)
<1> DEFINE H == Holding(t, where)
           Rest == H \ {r}
<1>1. IsFiniteSet(H) /\ IsFiniteSet(Rest)
  BY RouteAssumption, FS_Subset, FS_RemoveElement DEF Holding
<1>2. Cardinality(H) \in Nat /\ Cardinality(Rest) \in Nat
  BY <1>1, FS_CardinalityType
<1>3. Cardinality(Rest) = IF r \in H THEN Cardinality(H) - 1 ELSE Cardinality(H)
  BY <1>1, FS_RemoveElement
<1>4. r \in H <=> One(req[r], t, where) = 1
  BY DEF Holding, One
<1>5. H' = IF q.target = t /\ q.pc \in where THEN Rest \cup {r} ELSE Rest
  BY DEF Holding
<1>6. Cardinality(Rest \cup {r}) = Cardinality(Rest) + 1
  BY <1>1, FS_AddElement, ZenonT(20)
<1>7. Cardinality(H)' = Cardinality(Rest) + One(q, t, where)
  BY <1>2, <1>5, <1>6 DEF One
<1> QED BY <1>2, <1>3, <1>4, <1>7 DEF One

\* A step that moves r to q and takes or gives back accordingly: connections,
\* and slots.
BalancedActive(r, q) ==
  /\ active' \in [Target -> Int]
  /\ \A t \in Target : active'[t] = active[t] - One(req[r], t, InUse) + One(q, t, InUse)

BalancedSlots(r, q) ==
  /\ br' \in [Target -> BreakerType]
  /\ \A t \in Target :
        /\ WellFormed(br'[t], Cfg)
        /\ \/ br'[t].halfOpenInFlight <=
                 br[t].halfOpenInFlight - One(req[r], t, Owing) + One(q, t, Owing)
           \/ br'[t].halfOpenInFlight <= One(q, t, Owing)

Balanced(r, q) ==
  /\ req' = [req EXCEPT ![r] = q]
  /\ q \in RequestType /\ HasTarget(q)
  /\ BalancedActive(r, q)
  /\ BalancedSlots(r, q)

\* The slots of a well-formed breaker are a natural number.
LEMMA SlotsNat ==
  ASSUME NEW b, WellFormed(b, Cfg)
  PROVE  b.halfOpenInFlight \in Nat
BY DEF WellFormed, BreakerType

\* A balanced step keeps the invariant.
LEMMA BalancedIInv ==
  ASSUME IInv, NEW r \in Request, NEW q, Balanced(r, q)
  PROVE  IInv'
<1>1. Shape'
  BY DEF IInv, Shape, Balanced, BalancedActive, BalancedSlots
<1>2. ActiveIsInUse'
  <2> SUFFICES ASSUME NEW t \in Target
               PROVE  active'[t] = Cardinality(Holding(t, InUse))'
    BY DEF ActiveIsInUse, InUse
  <2>1. active[t] = Cardinality(Holding(t, InUse))
    BY DEF IInv, ActiveIsInUse, InUse
  <2>2. active'[t] = active[t] - One(req[r], t, InUse) + One(q, t, InUse)
    BY DEF Balanced, BalancedActive
  <2>3. Cardinality(Holding(t, InUse))' =
          Cardinality(Holding(t, InUse)) - One(req[r], t, InUse) + One(q, t, InUse)
    BY HoldersMove, ZenonT(20) DEF IInv, Shape, Balanced
  <2> QED BY <2>1, <2>2, <2>3
<1>3. SlotsOwed'
  <2> SUFFICES ASSUME NEW t \in Target
               PROVE  br'[t].halfOpenInFlight <= Cardinality(Holding(t, Owing))'
    BY DEF SlotsOwed, Owing
  <2> DEFINE n == Cardinality(Holding(t, Owing))
             old == One(req[r], t, Owing)
             new == One(q, t, Owing)
  <2>1. br[t].halfOpenInFlight <= n
    BY DEF IInv, SlotsOwed, Owing
  <2>2. br[t].halfOpenInFlight \in Nat /\ br'[t].halfOpenInFlight \in Nat
    BY SlotsNat DEF IInv, Shape, Balanced, BalancedSlots
  <2>3. n \in Nat /\ n >= old /\ n' = n - old + new
    BY HoldersMove, ZenonT(20) DEF IInv, Shape, Balanced
  <2>4. old \in {0, 1} /\ new \in {0, 1}
    BY DEF One
  <2>5. \/ br'[t].halfOpenInFlight <= br[t].halfOpenInFlight - old + new
        \/ br'[t].halfOpenInFlight <= new
    BY DEF Balanced, BalancedSlots
  <2> HIDE DEF n, old, new
  <2> QED BY <2>1, <2>2, <2>3, <2>4, <2>5 DEF n
<1> QED BY <1>1, <1>2, <1>3 DEF IInv

-----------------------------------------------------------------------------
\* The records a request becomes.
LEMMA EndedType ==
  ASSUME NEW res \in Nat
  PROVE  Ended(res) \in RequestType /\ Ended(res).pc = "done"
BY EmptySeq, ZenonT(20) DEF Ended, Fresh, RequestType, Location

LEMMA FailedType ==
  ASSUME NEW q, NEW status \in Nat
  PROVE  Failed(q, status) \in RequestType /\ Failed(q, status).pc = "done"
BY EndedType DEF Failed

LEMMA AtType ==
  ASSUME NEW q \in RequestType, NEW l \in Location
  PROVE  At(q, l) \in RequestType /\ At(q, l).pc = l /\ At(q, l).target = q.target
BY DEF At, RequestType

LEMMA RetryingType ==
  ASSUME NEW q \in RequestType, q.target \in Target
  PROVE  Retrying(q) \in RequestType /\ Retrying(q).pc = "backoff"
BY ZenonT(20) DEF Retrying, RequestType, Location

LEMMA AfterRejectionType ==
  ASSUME NEW q \in RequestType, q.target \in Target
  PROVE  AfterRejection(q) \in RequestType /\ AfterRejection(q).pc \in {"done", "loop"}
<1> DEFINE seen == q.tried \cup {q.target}
<1>1. seen \in SUBSET Target
  BY DEF RequestType
<1>2. [q EXCEPT !.pc = "loop", !.tried = seen] \in RequestType
  BY <1>1, ZenonT(20) DEF RequestType, Location
<1>3. [q EXCEPT !.pc = "loop", !.tried = seen].pc = "loop"
  BY DEF RequestType
<1> QED BY <1>2, <1>3, FailedType DEF AfterRejection

-----------------------------------------------------------------------------
\* The request gives its connection back (least_conn.go:53-61).
LEMMA Released ==
  ASSUME Shape, NEW r \in Request, NEW q, req[r].pc \in InUse, q.pc \notin InUse,
         Release(req[r].target)
  PROVE  BalancedActive(r, q)
<1>1. req[r].target \in Target
  BY DEF Shape, HasTarget
<1> QED BY <1>1 DEF Shape, Release, BalancedActive, One

\* It holds the same connection as before, or none before and after.
LEMMA Kept ==
  ASSUME Shape, NEW r \in Request, NEW q, UNCHANGED active,
         \/ req[r].pc \in InUse /\ q.pc \in InUse /\ q.target = req[r].target
         \/ req[r].pc \notin InUse /\ q.pc \notin InUse
  PROVE  BalancedActive(r, q)
BY DEF Shape, BalancedActive, One

\* No breaker is touched.
LEMMA Untouched ==
  ASSUME Shape, NEW r \in Request, NEW q, UNCHANGED br,
         \/ req[r].pc \in Owing /\ q.pc \in Owing /\ q.target = req[r].target
         \/ req[r].pc \notin Owing /\ q.pc \notin Owing
  PROVE  BalancedSlots(r, q)
<1> SUFFICES ASSUME NEW t \in Target
             PROVE  br[t].halfOpenInFlight <=
                      br[t].halfOpenInFlight - One(req[r], t, Owing) + One(q, t, Owing)
  BY DEF Shape, BalancedSlots
<1>1. br[t].halfOpenInFlight \in Nat
  BY SlotsNat DEF Shape
<1> QED BY <1>1 DEF One

\* An outcome returns the slot, if there is one (breaker.go:85-133).
Outcome(b) == {RecordSuccess(b, Cfg), RecordFailure(b, Cfg), RecordIgnored(b, Cfg)}

LEMMA OutcomeProperties ==
  ASSUME NEW b, WellFormed(b, Cfg), NEW o \in Outcome(b)
  PROVE  /\ WellFormed(o, Cfg)
         /\ o.halfOpenInFlight <= b.halfOpenInFlight - 1 \/ o.halfOpenInFlight = 0
<1>1. WellFormed(o, Cfg) /\ SlotReturned(b, o)
  BY CfgAssumption, RecordSuccessProperties, RecordFailureProperties,
     RecordIgnoredProperties DEF Outcome, SlotReturned
<1>2. o.halfOpenInFlight \in Nat /\ b.halfOpenInFlight \in Nat
  BY <1>1, SlotsNat
<1>3. o.state # "half_open" => o.halfOpenInFlight = 0
  BY <1>1 DEF WellFormed
<1> QED BY <1>1, <1>2, <1>3 DEF SlotReturned

\* An attempt that owed its breaker an outcome reports it.
LEMMA Recorded ==
  ASSUME Shape, NEW r \in Request, NEW q, req[r].pc \in Owing, q.pc \notin Owing,
         NEW o \in Outcome(br[req[r].target]), Record(req[r].target, o)
  PROVE  BalancedSlots(r, q)
<1> DEFINE t0 == req[r].target
<1>1. t0 \in Target
  BY DEF Shape, HasTarget, Owing, InUse
<1>2. WellFormed(o, Cfg) /\ (o.halfOpenInFlight <= br[t0].halfOpenInFlight - 1
                             \/ o.halfOpenInFlight = 0)
  BY <1>1, OutcomeProperties DEF Shape
<1>3. br' = [br EXCEPT ![t0] = o]
  BY DEF Record
<1>4. \A t \in Target : One(q, t, Owing) = 0
  BY DEF One
<1>5. \A t \in Target : One(req[r], t, Owing) = IF t = t0 THEN 1 ELSE 0
  BY DEF One
<1>6. \A t \in Target : br[t].halfOpenInFlight \in Nat
  BY SlotsNat DEF Shape
<1> HIDE DEF t0
<1>7. ASSUME NEW t \in Target
      PROVE  /\ WellFormed(br'[t], Cfg)
             /\ \/ br'[t].halfOpenInFlight <=
                     br[t].halfOpenInFlight - One(req[r], t, Owing) + One(q, t, Owing)
                \/ br'[t].halfOpenInFlight <= One(q, t, Owing)
  <2>1. CASE t = t0
    <3>1. br'[t] = o
      BY <2>1, <1>1, <1>3 DEF Shape
    <3> QED BY <3>1, <2>1, <1>2, <1>4, <1>5, <1>6, SlotsNat
  <2>2. CASE t # t0
    <3>1. br'[t] = br[t]
      BY <2>2, <1>3 DEF Shape
    <3> QED BY <3>1, <2>2, <1>4, <1>5, <1>6 DEF Shape
  <2> QED BY <2>1, <2>2
<1> QED BY <1>2, <1>3, <1>7, ZenonT(20) DEF BalancedSlots, Shape, WellFormed

-----------------------------------------------------------------------------
\* A request that holds nothing and goes on holding nothing.
LEMMA IdleMoves ==
  ASSUME IInv, NEW r \in Request, NEW q \in RequestType,
         req[r].pc \notin InUse, q.pc \notin InUse, Become(r, q), UNCHANGED <<br, active>>
  PROVE  IInv'
<1>1. req[r].pc \notin Owing /\ q.pc \notin Owing
  BY DEF InUse, Owing
<1> QED BY <1>1, Kept, Untouched, BalancedIInv, ZenonT(20) DEF IInv, Balanced, HasTarget, Become

\* A request that goes from one place to another with what it holds.
LEMMA HolderMoves ==
  ASSUME IInv, NEW r \in Request, NEW q \in RequestType,
         req[r].pc \in InUse, q.pc \in InUse, q.target = req[r].target,
         req[r].pc \in Owing <=> q.pc \in Owing, Become(r, q), UNCHANGED <<br, active>>
  PROVE  IInv'
<1>1. HasTarget(q)
  BY DEF IInv, Shape, HasTarget
<1> QED BY <1>1, Kept, Untouched, BalancedIInv, ZenonT(20) DEF IInv, Balanced, Become

\* An attempt ends: its outcome is recorded and its connection released.
LEMMA AttemptEnds ==
  ASSUME IInv, NEW r \in Request, NEW q \in RequestType,
         req[r].pc \in Owing, q.pc \notin InUse, Become(r, q),
         NEW o \in Outcome(br[req[r].target]), Record(req[r].target, o),
         Release(req[r].target)
  PROVE  IInv'
<1>1. req[r].pc \in InUse /\ q.pc \notin Owing
  BY DEF InUse, Owing
<1> QED BY <1>1, Released, Recorded, BalancedIInv, ZenonT(20) DEF IInv, Balanced, HasTarget, Become

\* Its outcome is recorded while its body is still open.
LEMMA OutcomeFirst ==
  ASSUME IInv, NEW r \in Request, NEW q \in RequestType,
         req[r].pc \in Owing, q.pc \in InUse \ Owing, q.target = req[r].target, Become(r, q),
         NEW o \in Outcome(br[req[r].target]), Record(req[r].target, o),
         UNCHANGED active
  PROVE  IInv'
<1>1. req[r].pc \in InUse /\ HasTarget(q)
  BY DEF IInv, Shape, HasTarget, InUse, Owing
<1> QED BY <1>1, Kept, Recorded, BalancedIInv, ZenonT(20) DEF IInv, Balanced, Become

\* The body of an attempt whose outcome is known is closed.
LEMMA BodyEnds ==
  ASSUME IInv, NEW r \in Request, NEW q \in RequestType,
         req[r].pc \in InUse \ Owing, q.pc \notin InUse, Become(r, q),
         Release(req[r].target), UNCHANGED br
  PROVE  IInv'
<1>1. q.pc \notin Owing /\ HasTarget(q)
  BY DEF HasTarget, InUse, Owing
<1> QED BY <1>1, Released, Untouched, BalancedIInv, ZenonT(20) DEF IInv, Balanced, Become

-----------------------------------------------------------------------------
\* Every request has a typed record; one that holds something has a target.
LEMMA Typed ==
  ASSUME IInv, NEW r \in Request
  PROVE  req[r] \in RequestType /\ (req[r].pc \in InUse => req[r].target \in Target)
BY DEF IInv, Shape, HasTarget

LEMMA FreshType == Fresh \in RequestType /\ Fresh.pc = "idle"
BY EmptySeq DEF Fresh, RequestType, Location

LEMMA StartIInv ==
  ASSUME IInv, NEW r \in Request, Start(r)
  PROVE  IInv'
<1>1. PICK m \in BOOLEAN :
         LET q == [Fresh EXCEPT !.idempotent = m] IN
         Become(r, At(q, "loop")) \/ Become(r, Failed(q, 502))
  BY DEF Start
<1> DEFINE q == [Fresh EXCEPT !.idempotent = m]
<1>2. q \in RequestType
  BY FreshType DEF RequestType
<1>3. req[r].pc \notin InUse /\ UNCHANGED <<br, active>>
  BY DEF Start, InUse
<1>4. CASE Become(r, At(q, "loop"))
  BY <1>2, <1>3, <1>4, AtType, IdleMoves DEF Location, InUse
<1>5. CASE Become(r, Failed(q, 502))
  BY <1>2, <1>3, <1>5, FailedType, IdleMoves DEF InUse
<1> QED BY <1>1, <1>4, <1>5

LEMMA SelectIInv ==
  ASSUME IInv, NEW r \in Request, Select(r)
  PROVE  IInv'
<1> DEFINE q == req[r]
<1>1. q \in RequestType /\ q.pc = "loop" /\ UNCHANGED br
  BY Typed DEF Select
<1>2. CASE Become(r, Failed(q, 502)) /\ UNCHANGED active
  BY <1>1, <1>2, FailedType, IdleMoves DEF InUse
<1>3. ASSUME NEW t \in Target,
             active' = [active EXCEPT ![t] = @ + 1],
             Become(r, [q EXCEPT !.pc = "admit", !.target = t, !.visits = Append(@, t)])
      PROVE  IInv'
  <2> DEFINE n == [q EXCEPT !.pc = "admit", !.target = t, !.visits = Append(@, t)]
  <2>1. n \in RequestType /\ n.pc = "admit" /\ n.target = t
    <3>1. Append(q.visits, t) \in Seq(Target)
      BY <1>1, AppendProperties DEF RequestType
    <3> QED BY <3>1, <1>1, ZenonT(20) DEF RequestType, Location
  <2>2. BalancedActive(r, n)
    BY <1>1, <1>3, <2>1 DEF IInv, Shape, BalancedActive, One, InUse
  <2>3. BalancedSlots(r, n)
    BY <1>1, <2>1, Untouched, ZenonT(20) DEF IInv, Owing
  <2> QED BY <1>3, <2>1, <2>2, <2>3, BalancedIInv, ZenonT(20) DEF Balanced, Become, HasTarget
<1> QED BY <1>2, <1>3, ZenonT(40) DEF Select
\* An admitted attempt may take one slot and owes one outcome; a refused one
\* leaves the breaker as it is and gives its connection back.
LEMMA AdmitIInv ==
  ASSUME IInv, NEW r \in Request, Admit(r)
  PROVE  IInv'
<1> DEFINE q == req[r]
           t0 == q.target
           a == Allow(br[t0], Cfg)
<1>1. q \in RequestType /\ q.pc = "admit" /\ t0 \in Target
  BY Typed DEF Admit, InUse
<1>2. br' = [br EXCEPT ![t0] = a]
  BY DEF Admit, Record
<1>3. WellFormed(br[t0], Cfg) /\ br \in [Target -> BreakerType]
  BY <1>1 DEF IInv, Shape
<1>4. /\ WellFormed(a, Cfg)
      /\ ~Allowed(br[t0], Cfg) => a = br[t0]
      /\ a.state = "half_open" =>
            \/ a.halfOpenInFlight <= br[t0].halfOpenInFlight + 1
            \/ a.halfOpenInFlight = 1
  BY <1>3, CfgAssumption, AllowProperties
<1>5. CASE Allowed(br[t0], Cfg)
  <2> DEFINE n == [q EXCEPT !.pc = "sent"]
  <2>1. n \in RequestType /\ n.pc = "sent" /\ n.target = t0
    BY <1>1 DEF RequestType, Location
  <2>2. Become(r, n) /\ UNCHANGED active
    BY <1>5 DEF Admit
  <2>3. BalancedActive(r, n)
    BY <1>1, <2>1, <2>2, Kept DEF IInv, InUse
  <2>4. a.halfOpenInFlight <= br[t0].halfOpenInFlight + 1 \/ a.halfOpenInFlight <= 1
    <3>1. a.halfOpenInFlight \in Nat
      BY <1>4, SlotsNat
    <3>2. a.state # "half_open" => a.halfOpenInFlight = 0
      BY <1>4 DEF WellFormed
    <3> QED BY <3>1, <3>2, <1>4
  <2>5. ASSUME NEW t \in Target
        PROVE  /\ WellFormed(br'[t], Cfg)
               /\ \/ br'[t].halfOpenInFlight <=
                       br[t].halfOpenInFlight - One(q, t, Owing) + One(n, t, Owing)
                  \/ br'[t].halfOpenInFlight <= One(n, t, Owing)
    <3>1. br[t].halfOpenInFlight \in Nat /\ WellFormed(br[t], Cfg)
      BY SlotsNat DEF IInv, Shape
    <3>2. One(q, t, Owing) = 0 /\ One(n, t, Owing) = IF t = t0 THEN 1 ELSE 0
      BY <1>1, <2>1 DEF One, Owing
    <3>3. br'[t] = IF t = t0 THEN a ELSE br[t]
      BY <1>2, <1>3
    <3> HIDE DEF a, n, t0, q
    <3>4. CASE t = t0
      BY <3>1, <3>2, <3>3, <3>4, <2>4, <1>4
    <3>5. CASE t # t0
      BY <3>1, <3>2, <3>3, <3>5
    <3> QED BY <3>4, <3>5
  <2>6. BalancedSlots(r, n)
    BY <1>2, <1>3, <1>4, <2>5 DEF BalancedSlots, WellFormed
  <2> QED BY <1>1, <2>1, <2>2, <2>3, <2>6, BalancedIInv, ZenonT(20) DEF Balanced, Become, HasTarget
<1>6. CASE ~Allowed(br[t0], Cfg)
  <2>1. br' = br
    BY <1>2, <1>3, <1>4, <1>6
  <2>2. Become(r, AfterRejection(q)) /\ Release(t0)
    BY <1>6 DEF Admit
  <2> QED BY <1>1, <2>1, <2>2, AfterRejectionType, BodyEnds DEF InUse, Owing
<1> QED BY <1>5, <1>6

-----------------------------------------------------------------------------
\* The three ways an upstream call ends an attempt.
LEMMA UpstreamErrorIInv ==
  ASSUME IInv, NEW r \in Request, UpstreamError(r) \/ UpstreamAborted(r)
  PROVE  IInv'
<1> DEFINE q == req[r]
<1>1. q \in RequestType /\ q.pc \in Owing /\ q.target \in Target
  BY Typed DEF UpstreamError, UpstreamAborted, InUse, Owing
<1>2. PICK n \in {Retrying(q), Failed(q, 502)}, o \in Outcome(br[q.target]) :
        Become(r, n) /\ Record(q.target, o) /\ Release(q.target)
  BY DEF UpstreamError, UpstreamAborted, Outcome
<1>3. n \in RequestType /\ n.pc \notin InUse
  BY <1>1, RetryingType, FailedType DEF InUse
<1> QED BY <1>1, <1>2, <1>3, AttemptEnds

LEMMA Upstream5xxIInv ==
  ASSUME IInv, NEW r \in Request, Upstream5xx(r)
  PROVE  IInv'
<1> DEFINE q == req[r]
           o == RecordFailure(br[q.target], Cfg)
<1>1. q \in RequestType /\ q.pc \in Owing /\ q.target \in Target
  BY Typed DEF Upstream5xx, InUse, Owing
<1>2. o \in Outcome(br[q.target]) /\ Record(q.target, o)
  BY DEF Upstream5xx, Outcome
<1>3. CASE Become(r, Retrying(q)) /\ Release(q.target)
  BY <1>1, <1>2, <1>3, RetryingType, AttemptEnds DEF InUse
<1>4. CASE Become(r, At(q, "error_body")) /\ UNCHANGED active
  BY <1>1, <1>2, <1>4, AtType, OutcomeFirst, ZenonT(20) DEF Location, InUse, Owing
<1> QED BY <1>3, <1>4 DEF Upstream5xx

LEMMA UpstreamOKIInv ==
  ASSUME IInv, NEW r \in Request, UpstreamOK(r)
  PROVE  IInv'
BY Typed, AtType, HolderMoves DEF UpstreamOK, Location, InUse, Owing

-----------------------------------------------------------------------------
\* The ways a body ends it.
LEMMA ReadEOFIInv ==
  ASSUME IInv, NEW r \in Request, ReadEOF(r)
  PROVE  IInv'
<1> DEFINE q == req[r]
           n == At(q, "drained")
<1>1. q \in RequestType /\ q.pc \in {"body", "error_body"}
  BY Typed DEF ReadEOF
<1>2. n \in RequestType /\ n.pc \notin InUse
  BY <1>1, AtType DEF Location, InUse
<1>3. Become(r, n) /\ Release(q.target)
  BY DEF ReadEOF
<1>4. CASE q.pc = "body"
  <2>1. Record(q.target, RecordSuccess(br[q.target], Cfg))
    BY <1>4 DEF ReadEOF
  <2> QED BY <1>2, <1>3, <1>4, <2>1, AttemptEnds DEF Owing, Outcome
<1>5. CASE q.pc = "error_body"
  BY <1>2, <1>3, <1>5, BodyEnds DEF ReadEOF, InUse, Owing
<1> QED BY <1>1, <1>4, <1>5

LEMMA BodyBreaksIInv ==
  ASSUME IInv, NEW r \in Request, BodyBreaks(r)
  PROVE  IInv'
<1> DEFINE q == req[r]
<1>1. q \in RequestType /\ q.pc = "body"
  BY Typed DEF BodyBreaks
<1>2. PICK o \in Outcome(br[q.target]) : Record(q.target, o)
  BY DEF BodyBreaks, Outcome
<1>3. Become(r, At(q, "broken")) /\ UNCHANGED active
  BY DEF BodyBreaks
<1> QED BY <1>1, <1>2, <1>3, AtType, OutcomeFirst DEF Location, InUse, Owing

LEMMA CloseEarlyIInv ==
  ASSUME IInv, NEW r \in Request, CloseEarly(r)
  PROVE  IInv'
<1> DEFINE q == req[r]
           n == Ended(200)
<1>1. n \in RequestType /\ n.pc \notin InUse
  BY EndedType DEF InUse
<1>2. Become(r, n) /\ Release(q.target)
  BY DEF CloseEarly
<1>3. CASE q.pc = "error_body" /\ UNCHANGED br
  BY <1>1, <1>2, <1>3, BodyEnds DEF InUse, Owing
<1>4. ASSUME q.pc = "body", NEW o \in Outcome(br[q.target]), Record(q.target, o)
      PROVE  IInv'
  BY <1>1, <1>2, <1>4, AttemptEnds DEF Owing
<1> QED BY <1>3, <1>4 DEF CloseEarly, Outcome

LEMMA CloseBodyIInv ==
  ASSUME IInv, NEW r \in Request, CloseBody(r)
  PROVE  IInv'
<1> DEFINE n == Ended(200)
<1>1. n \in RequestType /\ n.pc \notin InUse
  BY EndedType DEF InUse
<1>2. CASE req[r].pc = "broken"
  BY <1>1, <1>2, BodyEnds DEF CloseBody, InUse, Owing
<1>3. CASE req[r].pc = "drained"
  BY <1>1, <1>3, IdleMoves DEF CloseBody, InUse
<1> QED BY <1>2, <1>3 DEF CloseBody

-----------------------------------------------------------------------------
\* The steps of a request that touch neither counts nor breakers.
LEMMA BackoffIInv ==
  ASSUME IInv, NEW r \in Request, Backoff(r)
  PROVE  IInv'
<1> DEFINE q == req[r]
           n == [q EXCEPT !.pc = "loop", !.attempt = @ + 1]
<1>1. q \in RequestType /\ q.pc = "backoff" /\ UNCHANGED <<br, active>>
  BY Typed DEF Backoff
<1>2. n \in RequestType /\ n.pc = "loop"
  <2>1. q.attempt + 1 \in Nat
    BY <1>1 DEF RequestType
  <2> QED BY <1>1, <2>1, ZenonT(20) DEF RequestType, Location
<1>3. CASE Become(r, n)
  BY <1>1, <1>2, <1>3, IdleMoves, ZenonT(20) DEF InUse
<1>4. CASE Become(r, Failed(q, 502))
  BY <1>1, <1>4, FailedType, IdleMoves DEF InUse
<1> QED BY <1>3, <1>4 DEF Backoff

LEMMA ContextEndsIInv ==
  ASSUME IInv, NEW r \in Request, NEW why \in {"canceled", "deadline"}, ContextEnds(r, why)
  PROVE  IInv'
<1> DEFINE q == req[r]
           n == [q EXCEPT !.ctx = why]
<1>1. n \in RequestType /\ n.pc = q.pc /\ n.target = q.target
  BY Typed DEF RequestType
<1>2. Become(r, n) /\ UNCHANGED <<br, active>>
  BY DEF ContextEnds
<1> HIDE DEF n
<1> QED BY <1>1, <1>2, IdleMoves, HolderMoves

LEMMA ReuseIInv ==
  ASSUME IInv, NEW r \in Request, Reuse(r)
  PROVE  IInv'
BY FreshType, IdleMoves DEF Reuse, InUse

\* Time changes neither slots nor holders.
LEMMA TickIInv ==
  ASSUME IInv, Tick
  PROVE  IInv'
<1>1. \A t \in Target : /\ br'[t] = Elapse(br[t])
                        /\ WellFormed(br'[t], Cfg)
                        /\ br'[t].halfOpenInFlight = br[t].halfOpenInFlight
  BY CfgAssumption, ElapseProperties, ZenonT(20) DEF Tick, IInv, Shape
<1>2. Shape'
  BY <1>1 DEF Tick, IInv, Shape, WellFormed
<1>3. ActiveIsInUse' /\ SlotsOwed'
  BY <1>1 DEF Tick, IInv, ActiveIsInUse, SlotsOwed, Holding
<1> QED BY <1>2, <1>3 DEF IInv

-----------------------------------------------------------------------------
\* The initial state has nothing out, and every step keeps the books.
LEMMA InitIInv == Init => IInv
<1> SUFFICES ASSUME Init PROVE IInv
  OBVIOUS
<1>1. Shape
  BY FreshType, CfgAssumption, NewBreakerWellFormed
  DEF Init, Shape, HasTarget, InUse, WellFormed
<1>2. \A t, where : where \subseteq InUse => Cardinality(Holding(t, where)) = 0
  BY FreshType, FS_EmptySet DEF Init, Holding, InUse
<1>3. ActiveIsInUse
  BY <1>2 DEF Init, ActiveIsInUse, InUse
<1>4. SlotsOwed
  BY <1>2 DEF Init, SlotsOwed, InUse, NewBreaker
<1> QED BY <1>1, <1>3, <1>4 DEF IInv

LEMMA NextIInv == IInv /\ [Next]_vars => IInv'
<1> SUFFICES ASSUME IInv, [Next]_vars PROVE IInv'
  OBVIOUS
<1>1. CASE UNCHANGED vars
  BY <1>1 DEF vars, IInv, Shape, ActiveIsInUse, SlotsOwed, Holding
<1>2. CASE Tick
  BY <1>2, TickIInv
<1>3. ASSUME NEW r \in Request,
             \/ Start(r) \/ Select(r) \/ Admit(r) \/ Backoff(r) \/ CloseBody(r) \/ Reuse(r)
      PROVE  IInv'
  BY <1>3, StartIInv, SelectIInv, AdmitIInv, BackoffIInv, CloseBodyIInv, ReuseIInv
<1>4. ASSUME NEW r \in Request,
             \/ UpstreamError(r) \/ UpstreamAborted(r) \/ Upstream5xx(r) \/ UpstreamOK(r)
             \/ ReadEOF(r) \/ BodyBreaks(r) \/ CloseEarly(r)
             \/ ContextEnds(r, "canceled") \/ ContextEnds(r, "deadline")
      PROVE  IInv'
  BY <1>4, UpstreamErrorIInv, Upstream5xxIInv, UpstreamOKIInv, ReadEOFIInv,
     BodyBreaksIInv, CloseEarlyIInv, ContextEndsIInv
<1> QED BY <1>1, <1>2, <1>3, <1>4 DEF Next

\* The books balance in every reachable state (resilient.go:150-316,560-647).
THEOREM Balance == Spec => []IInv
BY InitIInv, NextIInv, PTL DEF Spec

\* Through every way an attempt can end, each selection is released exactly
\* once: least-connections counts the connections in use, for any route and
\* any number of concurrent requests (least_conn.go:51-61, resilient.go:588).
THEOREM ReleaseSafety == Spec => []ActiveIsInUse
<1>1. IInv => ActiveIsInUse
  BY DEF IInv
<1> QED BY <1>1, Balance, PTL

\* Every admitted attempt reports to its breaker once: the probe slots taken
\* never outnumber the attempts that owe an outcome (resilient.go:215-312).
THEOREM OwedSafety == Spec => []SlotsOwed
<1>1. IInv => SlotsOwed
  BY DEF IInv
<1> QED BY <1>1, Balance, PTL

-----------------------------------------------------------------------------
\* Division with remainder, for any number of targets.
LEMMA Quotient ==
  ASSUME NEW m \in Nat \ {0}, NEW n \in Nat, NEW k \in Nat, NEW d \in 0..(m - 1), n = m * k + d
  PROVE  n \div m = k /\ (n % m) = d
<1>1. n \div m \in Nat /\ (n % m) \in 0..(m - 1) /\ n = m * (n \div m) + (n % m)
  OBVIOUS
<1>2. ASSUME NEW a \in Nat, NEW b \in Nat, a < b
      PROVE  m * a + m <= m * b
  <2>1. PICK c \in Nat : b = a + 1 + c
    BY <1>2
  <2>2. m * b = m * a + m + m * c /\ m * c \in Nat
    BY <2>1
  <2> QED BY <2>2
<1>3. n \div m = k
  BY <1>1, <1>2
<1> QED BY <1>1, <1>3

\* The next number is in the same pass, or it starts one.
LEMMA NextInPass ==
  ASSUME NEW m \in Nat \ {0}, NEW n \in Nat
  PROVE  /\ (n % m) \in 0..(m - 1) /\ n - (n % m) \in Nat
         /\ (n % m) + 1 < m => ((n + 1) % m) = (n % m) + 1
         /\ (n % m) + 1 >= m => ((n + 1) % m) = 0
<1> DEFINE k == n \div m
           d == (n % m)
<1>1. k \in Nat /\ d \in 0..(m - 1) /\ n = m * k + d /\ m * k \in Nat
  OBVIOUS
<1> HIDE DEF k, d
<1>2. CASE d + 1 < m
  <2> DEFINE a == n + 1
             b == d + 1
  <2>1. a = m * k + b /\ b \in 0..(m - 1) /\ a \in Nat
    BY <1>1, <1>2
  <2> HIDE DEF a, b
  <2>2. (a % m) = b
    BY <1>1, <2>1, Quotient
  <2> QED BY <1>1, <1>2, <2>2 DEF a, b, d
<1>3. CASE d + 1 >= m
  <2>1. n + 1 = m * (k + 1) + 0 /\ k + 1 \in Nat
    BY <1>1, <1>3
  <2>2. ((n + 1) % m) = 0
    BY <1>1, <2>1, Quotient
  <2> QED BY <1>1, <1>3, <2>2 DEF d
<1> QED BY <1>1, <1>2, <1>3

\* What belongs to the pass of n comes after its first number.
LEMMA SamePass ==
  ASSUME NEW m \in Nat \ {0}, NEW n \in Nat, NEW i \in Nat, i \div m = n \div m
  PROVE  i >= n - (n % m)
<1>1. n = m * (n \div m) + (n % m) /\ i = m * (i \div m) + (i % m)
  OBVIOUS
<1>2. (i % m) \in Nat /\ (n % m) \in Nat /\ n \div m \in Nat
  OBVIOUS
<1> DEFINE p == m * (n \div m)
<1>3. p \in Nat /\ n = p + (n % m) /\ i = p + (i % m)
  BY <1>1, <1>2
<1> HIDE DEF p
<1> QED BY <1>2, <1>3

\* A route names finitely many targets and at least one.
LEMMA SomeTargets == IsFiniteSet(Target) /\ TotalTargets \in Nat \ {0}
<1> DEFINE D == 1..Len(RouteTargets)
<1>1. Len(RouteTargets) \in Nat /\ RouteTargets \in [D -> Target] /\ RouteTargets # <<>>
  BY RouteAssumption DEF Target
<1>2. RouteTargets \in Surjection(D, Target)
  BY <1>1 DEF Surjection, Target, Range
<1>3. IsFiniteSet(Target)
  BY <1>1, <1>2, FS_Surjection, FS_Interval
<1>4. Len(RouteTargets) # 0
  BY RouteAssumption DEF Target
<1>5. RouteTargets[1] \in Target
  BY <1>1, <1>4
<1> QED BY <1>3, <1>5, FS_CardinalityType, FS_EmptySet DEF TotalTargets

-----------------------------------------------------------------------------
\* The visits before the one in progress.
Selected == {"admit", "sent", "body", "error_body", "drained", "broken"}
Concluded(q) == IF q.pc \in Selected THEN Len(q.visits) - 1 ELSE Len(q.visits)

\* The targets among the first n visits that belong to the pass of the next.
ThisPass(v, n) == {v[j] : j \in (n - (n % TotalTargets) + 1)..n}

Distinct(v) ==
  \A i, j \in 1..Len(v) :
     i < j /\ (i - 1) \div TotalTargets = (j - 1) \div TotalTargets => v[i] # v[j]

\* triedTargets is the pass so far, and the target in use is not in it.
PassOK(q) ==
  /\ Concluded(q) \in Nat
  /\ q.tried = ThisPass(q.visits, Concluded(q))
  /\ Cardinality(q.tried) = (Concluded(q) % TotalTargets)
  /\ q.pc \in Selected => /\ q.target = q.visits[Len(q.visits)]
                          /\ q.target \in Target \ q.tried
  /\ Distinct(q.visits)

\* An attempt is within the budget, and a backoff leaves one.
BudgetOK(q) ==
  /\ q.attempt < Budget(q)
  /\ q.pc = "backoff" => q.attempt + 1 < Budget(q)

\* The ways a request's record changes.
Restarts(q, n) ==
  /\ \/ n.pc = "done"
     \/ q.pc = "done" /\ n.pc = "idle"
     \/ q.pc = "idle" /\ n.pc = "loop"
  /\ n.visits = <<>> /\ n.tried = {} /\ n.attempt = 0

Selects(q, n) ==
  /\ q.pc = "loop"
  /\ \E t \in Target \ q.tried :
        n = [q EXCEPT !.pc = "admit", !.target = t, !.visits = Append(@, t)]

Seen(q) == q.tried \cup {q.target}

Refused(q, n) ==
  /\ q.pc = "admit"
  /\ Cardinality(Seen(q)) < TotalTargets
  /\ n = [q EXCEPT !.pc = "loop", !.tried = Seen(q)]

Retries(q, n) == q.pc = "sent" /\ q.attempt + 1 < Budget(q) /\ n = Retrying(q)

Resumes(q, n) == q.pc = "backoff" /\ n = [q EXCEPT !.pc = "loop", !.attempt = @ + 1]

Proceeds(q, n) ==
  \E l \in Location :
     /\ n = At(q, l)
     /\ \/ q.pc = "admit" /\ l = "sent"
        \/ q.pc = "sent" /\ l \in {"body", "error_body"}
        \/ q.pc \in {"body", "error_body"} /\ l \in {"drained", "broken"}

Expires(q, n) ==
  /\ q.pc \notin {"idle", "done"} /\ q.ctx = "live"
  /\ \E why \in {"canceled", "deadline"} : n = [q EXCEPT !.ctx = why]

Move(q, n) ==
  \/ Restarts(q, n) \/ Selects(q, n) \/ Refused(q, n) \/ Retries(q, n)
  \/ Resumes(q, n) \/ Proceeds(q, n) \/ Expires(q, n)

PassInv == \A r \in Request : PassOK(req[r]) /\ BudgetOK(req[r])

-----------------------------------------------------------------------------
\* A record that starts over has visited nothing.
LEMMA RestartOK ==
  ASSUME NEW q, NEW n \in RequestType, Restarts(q, n)
  PROVE  PassOK(n) /\ BudgetOK(n)
<1>1. n.visits = <<>> /\ n.tried = {} /\ n.attempt = 0 /\ n.pc \in {"done", "idle", "loop"}
  BY DEF Restarts
<1>2. Len(n.visits) = 0 /\ Concluded(n) = 0
  BY <1>1 DEF Concluded, Selected
<1>3. (0 % TotalTargets) = 0
  BY SomeTargets, NextInPass
<1>4. ThisPass(n.visits, 0) = {}
  BY <1>3 DEF ThisPass
<1>5. PassOK(n)
  BY <1>1, <1>2, <1>3, <1>4, FS_EmptySet DEF PassOK, Selected, Distinct
<1>6. Budget(n) \in Nat \ {0}
  BY RouteAssumption DEF Budget
<1> QED BY <1>1, <1>5, <1>6 DEF BudgetOK

\* A selection is new to its pass.
LEMMA SelectOK ==
  ASSUME NEW q \in RequestType, NEW n, PassOK(q), BudgetOK(q), Selects(q, n)
  PROVE  PassOK(n) /\ BudgetOK(n)
<1>1. PICK t \in Target \ q.tried :
        n = [q EXCEPT !.pc = "admit", !.target = t, !.visits = Append(@, t)]
  BY DEF Selects
<1> DEFINE v == q.visits
           w == Append(v, t)
           L == Len(v)
<1>2. v \in Seq(Target) /\ L \in Nat
  BY DEF RequestType
<1>3. /\ n.visits = w /\ n.pc = "admit" /\ n.target = t /\ n.tried = q.tried
      /\ n.attempt = q.attempt /\ n.idempotent = q.idempotent
  BY <1>1 DEF RequestType
<1>4. Len(w) = L + 1 /\ w[L + 1] = t /\ \A i \in 1..L : w[i] = v[i]
  BY <1>2, AppendProperties
<1>5. Concluded(q) = L /\ Concluded(n) = L
  BY <1>2, <1>3, <1>4 DEF Concluded, Selected, Selects
<1>6. (L % TotalTargets) \in Nat /\ L - (L % TotalTargets) \in Nat
  <2>1. TotalTargets \in Nat \ {0}
    BY SomeTargets
  <2>2. (L % TotalTargets) \in 0..(TotalTargets - 1) /\ L - (L % TotalTargets) \in Nat
    BY <1>2, <2>1, NextInPass, Zenon
  <2>3. 0..(TotalTargets - 1) \subseteq Nat
    BY <2>1
  <2> QED BY <2>2, <2>3, Zenon
<1>7. q.tried = ThisPass(v, L) /\ Cardinality(q.tried) = (L % TotalTargets) /\ Distinct(v)
  BY <1>5 DEF PassOK
<1> HIDE DEF v, w, L
<1>8. ThisPass(w, L) = ThisPass(v, L)
  <2>1. \A j \in (L - (L % TotalTargets) + 1)..L : w[j] = v[j]
    BY <1>2, <1>4, <1>6
  <2> QED BY <2>1 DEF ThisPass
<1>9. Distinct(w)
  <2> SUFFICES ASSUME NEW i \in 1..Len(w), NEW j \in 1..Len(w), i < j,
                      (i - 1) \div TotalTargets = (j - 1) \div TotalTargets
               PROVE  w[i] # w[j]
    BY DEF Distinct
  <2>1. i \in 1..L /\ w[i] = v[i]
    BY <1>2, <1>4
  <2>2. CASE j \in 1..L
    BY <2>1, <2>2, <1>4, <1>7 DEF Distinct, L
  <2>3. CASE j = L + 1
    <3>1. i - 1 >= L - (L % TotalTargets)
      <4>1. i - 1 \in Nat /\ (i - 1) \div TotalTargets = L \div TotalTargets
        BY <2>1, <2>3, <1>2
      <4> QED BY <4>1, <1>2, SomeTargets, SamePass, ZenonT(20)
    <3>2. i \in (L - (L % TotalTargets) + 1)..L
      BY <3>1, <2>1, <1>2, <1>6
    <3>3. v[i] \in q.tried
      BY <3>2, <1>7 DEF ThisPass
    <3> QED BY <3>3, <2>1, <2>3, <1>4
  <2> QED BY <2>2, <2>3, <1>2, <1>4
<1>10. PassOK(n)
  BY <1>1, <1>2, <1>3, <1>4, <1>5, <1>7, <1>8, <1>9, ZenonT(20) DEF PassOK
<1> QED BY <1>3, <1>10 DEF BudgetOK, Budget

\* The visit in progress joins its pass, and completes it or does not.
LEMMA ConcludeOK ==
  ASSUME NEW q \in RequestType, PassOK(q), q.pc \in Selected,
         NEW n, n.visits = q.visits, n.pc \notin Selected,
         n.tried = IF Cardinality(Seen(q)) >= TotalTargets THEN {} ELSE Seen(q)
  PROVE  PassOK(n)
<1> DEFINE v == q.visits
           c == Concluded(q)
           N == TotalTargets
<1>1. v \in Seq(Target) /\ c \in Nat /\ c + 1 = Len(v) /\ Concluded(n) = c + 1
  BY DEF PassOK, RequestType, Concluded
<1>2. /\ q.tried = ThisPass(v, c) /\ Cardinality(q.tried) = (c % N)
      /\ q.target = v[c + 1] /\ q.target \in Target \ q.tried /\ Distinct(v)
  BY <1>1 DEF PassOK
<1>3. Cardinality(Seen(q)) = (c % N) + 1
  <2>1. IsFiniteSet(q.tried)
    BY SomeTargets, FS_Subset DEF RequestType
  <2> QED BY <2>1, <1>2, FS_AddElement DEF Seen
<1>4. /\ (c % N) \in 0..(N - 1) /\ c - (c % N) \in Nat
      /\ (c % N) + 1 < N => ((c + 1) % N) = (c % N) + 1
      /\ (c % N) + 1 >= N => ((c + 1) % N) = 0
  BY <1>1, SomeTargets, NextInPass, ZenonT(20)
<1>5. N \in Nat
  BY SomeTargets
<1> HIDE DEF v, c, N
<1>6. CASE (c % N) + 1 < N
  <2>1. n.tried = Seen(q)
    BY <1>3, <1>4, <1>5, <1>6 DEF N
  <2>2. (c + 1) - ((c + 1) % N) + 1 = c - (c % N) + 1
    BY <1>1, <1>4, <1>6
  <2>3. ((c + 1) - ((c + 1) % N) + 1)..(c + 1) = ((c - (c % N) + 1)..c) \cup {c + 1}
    BY <2>2, <1>1, <1>4
  <2>4. ThisPass(v, c + 1) = ThisPass(v, c) \cup {v[c + 1]}
    BY <2>3 DEF ThisPass, N
  <2>5. n.tried = ThisPass(n.visits, c + 1)
    BY <2>1, <2>4, <1>2, ZenonT(20) DEF Seen, v
  <2>6. Cardinality(n.tried) = ((c + 1) % N)
    BY <2>1, <1>3, <1>4, <1>6
  <2> QED BY <2>5, <2>6, <1>1, <1>2 DEF PassOK, v, N
<1>7. CASE (c % N) + 1 >= N
  <2>1. n.tried = {}
    BY <1>3, <1>7 DEF N
  <2>2. ((c + 1) - ((c + 1) % N) + 1)..(c + 1) = {}
    BY <1>1, <1>4, <1>7
  <2>3. ThisPass(v, c + 1) = {}
    BY <2>2 DEF ThisPass, N
  <2>4. Cardinality(n.tried) = ((c + 1) % N)
    BY <2>1, <1>4, <1>7, FS_EmptySet, ZenonT(20)
  <2>5. n.tried = ThisPass(n.visits, c + 1)
    BY <2>1, <2>3 DEF v
  <2> QED BY <2>4, <2>5, <1>1, <1>2 DEF PassOK, v, N
<1> QED BY <1>4, <1>5, <1>6, <1>7

\* A record whose pass, target and attempt stay.
LEMMA StayOK ==
  ASSUME NEW q, NEW n, PassOK(q), BudgetOK(q),
         n.visits = q.visits, n.tried = q.tried, n.target = q.target,
         n.attempt = q.attempt, n.idempotent = q.idempotent,
         n.pc \in Selected <=> q.pc \in Selected, n.pc = "backoff" => q.pc = "backoff"
  PROVE  PassOK(n) /\ BudgetOK(n)
<1>1. Concluded(n) = Concluded(q) /\ Budget(n) = Budget(q)
  BY DEF Concluded, Budget
<1> QED BY <1>1 DEF PassOK, BudgetOK

\* Whatever a request does next, its pass and its budget stay in order.
LEMMA MoveOK ==
  ASSUME NEW q \in RequestType, NEW n \in RequestType, PassOK(q), BudgetOK(q), Move(q, n)
  PROVE  PassOK(n) /\ BudgetOK(n)
<1>1. CASE Restarts(q, n)
  BY <1>1, RestartOK
<1>2. CASE Selects(q, n)
  BY <1>2, SelectOK
<1>3. CASE Refused(q, n)
  <2>1. /\ n.visits = q.visits /\ n.pc = "loop" /\ n.tried = Seen(q)
        /\ n.attempt = q.attempt /\ n.idempotent = q.idempotent
    BY <1>3 DEF Refused, RequestType
  <2>2. n.tried = IF Cardinality(Seen(q)) >= TotalTargets THEN {} ELSE Seen(q)
    <3>1. Cardinality(Seen(q)) \in Nat
      <4>1. Seen(q) \in SUBSET Target
        BY <1>3 DEF Refused, Seen, RequestType, PassOK, Selected
      <4> QED BY <4>1, SomeTargets, FS_Subset, FS_CardinalityType
    <3> QED BY <2>1, <3>1, <1>3, SomeTargets DEF Refused
  <2>3. PassOK(n)
    BY <1>3, <2>1, <2>2, ConcludeOK, ZenonT(20) DEF Refused, Selected
  <2> QED BY <2>1, <2>3 DEF BudgetOK, Budget
<1>4. CASE Retries(q, n)
  <2>1. /\ n.visits = q.visits /\ n.pc = "backoff"
        /\ n.tried = IF Cardinality(Seen(q)) >= TotalTargets THEN {} ELSE Seen(q)
        /\ n.attempt = q.attempt /\ n.idempotent = q.idempotent
    BY <1>4 DEF Retries, Retrying, Seen, RequestType
  <2>2. PassOK(n)
    BY <1>4, <2>1, ConcludeOK DEF Retries, Selected
  <2> QED BY <1>4, <2>1, <2>2 DEF Retries, BudgetOK, Budget
<1>5. CASE Resumes(q, n)
  <2>1. /\ n.visits = q.visits /\ n.pc = "loop" /\ n.tried = q.tried
        /\ n.attempt = q.attempt + 1 /\ n.idempotent = q.idempotent /\ q.pc = "backoff"
    BY <1>5 DEF Resumes, RequestType
  <2>2. PassOK(n)
    BY <2>1 DEF PassOK, Concluded, Selected
  <2> QED BY <2>1, <2>2 DEF BudgetOK, Budget
<1>6. CASE Proceeds(q, n)
  <2>1. PICK l \in Location : n = At(q, l) /\ q.pc \in Selected /\ l \in Selected
    BY <1>6 DEF Proceeds, Selected
  <2>2. /\ n.visits = q.visits /\ n.pc = l /\ n.tried = q.tried /\ n.target = q.target
        /\ n.attempt = q.attempt /\ n.idempotent = q.idempotent
    BY <2>1 DEF At, RequestType
  <2> QED BY <2>1, <2>2, StayOK DEF Selected
<1>7. CASE Expires(q, n)
  <2>1. /\ n.visits = q.visits /\ n.pc = q.pc /\ n.tried = q.tried /\ n.target = q.target
        /\ n.attempt = q.attempt /\ n.idempotent = q.idempotent
    BY <1>7 DEF Expires, RequestType
  <2> QED BY <2>1, StayOK
<1> QED BY <1>1, <1>2, <1>3, <1>4, <1>5, <1>6, <1>7 DEF Move

-----------------------------------------------------------------------------
\* Every action of a request is one of these moves.
LEMMA LoopMoves ==
  ASSUME IInv, NEW r \in Request,
         Start(r) \/ Select(r) \/ Admit(r) \/ Backoff(r) \/ CloseBody(r) \/ Reuse(r)
  PROVE  \E n : Move(req[r], n) /\ Become(r, n)
<1> DEFINE q == req[r]
<1>1. \A x, s : Restarts(q, Failed(x, s)) /\ Restarts(q, Ended(s))
  BY DEF Failed, Ended, Fresh, Restarts
<1>2. \A x, s : Move(q, Failed(x, s)) /\ Move(q, Ended(s))
  BY <1>1 DEF Move
<1>3. CASE Start(r)
  <2>1. ASSUME NEW m \in BOOLEAN
        PROVE  Move(q, At([Fresh EXCEPT !.idempotent = m], "loop"))
    BY <1>3 DEF Start, At, Fresh, Move, Restarts
  <2> QED BY <1>2, <1>3, <2>1 DEF Start
<1>4. CASE Select(r)
  <2>1. CASE \E s : Become(r, Failed(q, s))
    BY <2>1, <1>2
  <2>2. CASE \E t \in Target \ q.tried :
               Become(r, [q EXCEPT !.pc = "admit", !.target = t, !.visits = Append(@, t)])
    <3>1. PICK t \in Target \ q.tried :
             Become(r, [q EXCEPT !.pc = "admit", !.target = t, !.visits = Append(@, t)])
      BY <2>2, ZenonT(40)
    <3>2. Selects(q, [q EXCEPT !.pc = "admit", !.target = t, !.visits = Append(@, t)])
      BY <1>4 DEF Select, Selects
    <3> QED BY <3>1, <3>2 DEF Move
  <2> QED BY <1>4, <2>1, <2>2, ZenonT(20) DEF Select
<1>5. CASE Admit(r)
  <2>1. q \in RequestType /\ q.pc = "admit"
    BY <1>5, Typed DEF Admit
  <2>2. Move(q, [q EXCEPT !.pc = "sent"])
    BY <2>1 DEF Move, Proceeds, At, Location
  <2>3. Move(q, AfterRejection(q))
    <3>1. CASE AfterRejection(q) = [q EXCEPT !.pc = "loop", !.tried = Seen(q)]
               /\ ~(Cardinality(Seen(q)) >= TotalTargets)
      <4>1. Cardinality(Seen(q)) < TotalTargets
        <5>1. Seen(q) \in SUBSET Target
          BY <2>1, Typed DEF Seen, RequestType, InUse
        <5>2. Cardinality(Seen(q)) \in Nat
          BY <5>1, SomeTargets, FS_Subset, FS_CardinalityType
        <5> QED BY <3>1, <5>2, SomeTargets
      <4> QED BY <3>1, <4>1, <2>1 DEF Move, Refused
    <3> QED BY <3>1, <1>2 DEF AfterRejection, Seen
  <2> QED BY <1>5, <2>2, <2>3 DEF Admit
<1>6. CASE Backoff(r)
  BY <1>2, <1>6 DEF Backoff, Move, Resumes
<1>7. CASE CloseBody(r)
  BY <1>2, <1>7 DEF CloseBody
<1>8. CASE Reuse(r)
  <2>1. Move(q, Fresh)
    BY <1>8 DEF Reuse, Move, Restarts, Fresh
  <2> QED BY <1>8, <2>1, ZenonT(20) DEF Reuse
<1> QED BY <1>3, <1>4, <1>5, <1>6, <1>7, <1>8

LEMMA AttemptMoves ==
  ASSUME IInv, NEW r \in Request,
         \/ UpstreamError(r) \/ UpstreamAborted(r) \/ Upstream5xx(r) \/ UpstreamOK(r)
         \/ ReadEOF(r) \/ BodyBreaks(r) \/ CloseEarly(r)
         \/ ContextEnds(r, "canceled") \/ ContextEnds(r, "deadline")
  PROVE  \E n : Move(req[r], n) /\ Become(r, n)
<1> DEFINE q == req[r]
<1>1. \A x, s : Restarts(q, Failed(x, s)) /\ Restarts(q, Ended(s))
  BY DEF Failed, Ended, Fresh, Restarts
<1>2. \A x, s : Move(q, Failed(x, s)) /\ Move(q, Ended(s))
  BY <1>1, ZenonT(20) DEF Move
<1>3. ASSUME q.pc = "sent"
      PROVE  \A b : ShouldRetry(q, b) => Move(q, Retrying(q))
  BY <1>3, ZenonT(20) DEF ShouldRetry, Move, Retries
<1> DEFINE after(b) == IF ShouldRetry(q, b) THEN Retrying(q) ELSE Failed(q, 502)
<1>4. ASSUME q.pc = "sent" PROVE \A b : Move(q, after(b))
  <2> SUFFICES ASSUME NEW b PROVE Move(q, after(b))
    OBVIOUS
  <2>1. CASE ShouldRetry(q, b)
    BY <2>1, <1>3, <1>4
  <2>2. CASE ~ShouldRetry(q, b)
    BY <2>2, <1>2
  <2> QED BY <2>1, <2>2
<1> HIDE DEF after
<1>5. ASSUME NEW l \in Location,
             \/ q.pc = "sent" /\ l \in {"body", "error_body"}
             \/ q.pc \in {"body", "error_body"} /\ l \in {"drained", "broken"}
      PROVE  Move(q, At(q, l))
  BY <1>5, ZenonT(20) DEF Move, Proceeds
<1>6. CASE UpstreamError(r)
  <2>1. q.pc = "sent" /\ \E b : Become(r, after(b))
    BY <1>6, ZenonT(20) DEF UpstreamError, after
  <2> QED BY <2>1, <1>4, Zenon
<1>7. CASE UpstreamAborted(r)
  <2>1. q.pc = "sent" /\ \E b : Become(r, after(b))
    BY <1>7, ZenonT(20) DEF UpstreamAborted, after
  <2> QED BY <2>1, <1>4, Zenon
<1>8. CASE Upstream5xx(r)
  BY <1>3, <1>5, <1>8, ZenonT(20) DEF Upstream5xx, Location
<1>9. CASE UpstreamOK(r)
  BY <1>5, <1>9, ZenonT(20) DEF UpstreamOK, Location
<1>10. CASE ReadEOF(r) \/ BodyBreaks(r)
  <2>1. q.pc \in {"body", "error_body"} /\ \E l \in {"drained", "broken"} : Become(r, At(q, l))
    BY <1>10, ZenonT(20) DEF ReadEOF, BodyBreaks
  <2>2. \A l \in {"drained", "broken"} : Move(q, At(q, l))
    BY <2>1, <1>5 DEF Location
  <2> QED BY <2>1, <2>2, ZenonT(20)
<1>11. CASE CloseEarly(r)
  BY <1>2, <1>11 DEF CloseEarly
<1>12. CASE ContextEnds(r, "canceled") \/ ContextEnds(r, "deadline")
  BY <1>12, ZenonT(20) DEF ContextEnds, Move, Expires
<1> QED BY <1>6, <1>7, <1>8, <1>9, <1>10, <1>11, <1>12

\* In a step of the system each request stays or makes a move.
LEMMA StepMoves ==
  ASSUME IInv, [Next]_vars, NEW r \in Request
  PROVE  req'[r] = req[r] \/ Move(req[r], req'[r])
<1>1. CASE req' = req
  BY <1>1
<1>2. ASSUME NEW s \in Request, \E n : Move(req[s], n) /\ Become(s, n)
      PROVE  req'[r] = req[r] \/ Move(req[r], req'[r])
  <2>1. PICK n : Move(req[s], n) /\ req' = [req EXCEPT ![s] = n]
    BY <1>2, ZenonT(20) DEF Become
  <2>2. req'[r] = IF r = s THEN n ELSE req[r]
    BY <2>1 DEF IInv, Shape
  <2> QED BY <2>1, <2>2
<1> QED BY <1>1, <1>2, LoopMoves, AttemptMoves DEF Next, Tick, vars

\* Passes and budgets stay in order (retry.go:140-215).
THEOREM PassSafety == Spec => []PassInv
<1>1. Init => PassInv
  <2> SUFFICES ASSUME Init, NEW r \in Request
               PROVE  PassOK(req[r]) /\ BudgetOK(req[r])
    BY DEF PassInv
  <2>1. req[r] = Fresh /\ Fresh \in RequestType
    BY FreshType DEF Init
  <2>2. Restarts(At(Fresh, "done"), Fresh)
    BY DEF Restarts, At, Fresh
  <2> QED BY <2>1, <2>2, RestartOK
<1>2. IInv /\ IInv' /\ PassInv /\ [Next]_vars => PassInv'
  <2> SUFFICES ASSUME IInv, IInv', PassInv, [Next]_vars, NEW r \in Request
               PROVE  PassOK(req'[r]) /\ BudgetOK(req'[r])
    BY DEF PassInv
  <2>1. req[r] \in RequestType /\ req'[r] \in RequestType
    BY DEF IInv, Shape
  <2>2. PassOK(req[r]) /\ BudgetOK(req[r])
    BY DEF PassInv
  <2> QED BY <2>1, <2>2, StepMoves, MoveOK
<1> QED BY <1>1, <1>2, Balance, PTL DEF Spec

\* A target that failed or refused is not selected again before every other
\* target of the route has been, for any route, any attempt limit and any
\* number of requests that share it (retry.go:156-158,202-207).
THEOREM NoRepeatSafety == Spec => []NoRepeatInPass
<1>1. PassInv => NoRepeatInPass
  BY DEF PassInv, PassOK, Distinct, NoRepeatInPass
<1> QED BY <1>1, PassSafety, PTL

-----------------------------------------------------------------------------
\* The parts of Rank: attempts, targets left, the way and the context.
Attempts(q) == Budget(q) - q.attempt - (IF q.pc = "backoff" THEN 1 ELSE 0)
Left(q) == Cardinality(Target \ q.tried)
Alive(q) == IF q.ctx = "live" THEN 1 ELSE 0

LEMMA RankParts ==
  ASSUME NEW q
  PROVE  Rank(q) = 2 * (Attempts(q) * 7 * (TotalTargets + 1) + (7 * Left(q) + Way[q.pc]))
                   + Alive(q)
BY DEF Rank, Attempts, Left, Alive

LEMMA WayValues ==
  /\ Way["loop"] = 5 /\ Way["admit"] = 4 /\ Way["sent"] = 3
  /\ Way["body"] = 2 /\ Way["error_body"] = 2
  /\ Way["drained"] = 1 /\ Way["broken"] = 1 /\ Way["backoff"] = 6
BY DEF Way

\* Attempts and targets left are natural numbers, and a tried target is one less.
LEMMA PartTypes ==
  ASSUME NEW q \in RequestType, BudgetOK(q)
  PROVE  Attempts(q) \in Nat /\ Left(q) \in 0..TotalTargets /\ Alive(q) \in 0..1
<1>1. Budget(q) \in Nat /\ q.attempt \in Nat
  BY RouteAssumption DEF Budget, RequestType
<1>2. Attempts(q) \in Nat
  BY <1>1 DEF BudgetOK, Attempts
<1>3. Left(q) \in 0..TotalTargets
  <2>1. Target \ q.tried \in SUBSET Target
    OBVIOUS
  <2> QED BY <2>1, SomeTargets, FS_Subset, FS_CardinalityType DEF Left, TotalTargets
<1> QED BY <1>2, <1>3 DEF Alive

LEMMA OneLess ==
  ASSUME NEW q \in RequestType, q.target \in Target \ q.tried
  PROVE  /\ Cardinality(Target \ Seen(q)) = Left(q) - 1
         /\ Left(q) >= 1
<1> DEFINE rest == Target \ q.tried
<1>1. Target \ Seen(q) = rest \ {q.target} /\ Left(q) = Cardinality(rest)
  BY DEF Seen, Left
<1>2. IsFiniteSet(rest) /\ q.target \in rest
  BY SomeTargets, FS_Subset
<1> HIDE DEF rest
<1>3. Cardinality(rest) \in Nat /\ Cardinality(rest) # 0
  BY <1>2, FS_CardinalityType, FS_EmptySet
<1>4. Cardinality(rest \ {q.target}) = Cardinality(rest) - 1
  BY <1>2, FS_RemoveElement, ZenonT(20)
<1> QED BY <1>1, <1>3, <1>4

\* One attempt weighs more than a pass over the targets.
LEMMA Weight ==
  ASSUME NEW a \in Nat, NEW m \in Nat
  PROVE  /\ a * 7 * (m + 1) \in Nat
         /\ (a + 1) * 7 * (m + 1) = a * 7 * (m + 1) + 7 * m + 7
OBVIOUS

\* Less of the way, of the targets or of the attempts is a smaller rank.
LEMMA Smaller ==
  ASSUME NEW q, NEW n, Attempts(q) \in Nat, Attempts(n) \in Nat,
         Left(q) \in 0..TotalTargets, Left(n) \in 0..TotalTargets,
         Alive(q) \in 0..1, Alive(n) \in 0..1,
         Way[q.pc] \in 1..6, Way[n.pc] \in 1..6,
         \/ /\ Attempts(n) = Attempts(q) /\ Left(n) = Left(q)
            /\ \/ Way[n.pc] < Way[q.pc]
               \/ Way[n.pc] = Way[q.pc] /\ Alive(n) < Alive(q)
         \/ Attempts(n) = Attempts(q) /\ Left(n) = Left(q) - 1
         \/ Attempts(q) = Attempts(n) + 1 /\ Way[n.pc] = 6 /\ Way[q.pc] = 3
  PROVE  Rank(n) < Rank(q) /\ Rank(n) > 0
<1> DEFINE x == Attempts(q) * 7 * (TotalTargets + 1)
           y == Attempts(n) * 7 * (TotalTargets + 1)
<1>1. TotalTargets \in Nat
  BY SomeTargets
<1>2. x \in Nat /\ y \in Nat
  BY <1>1, Weight, ZenonT(20)
<1>3. Attempts(n) = Attempts(q) => x = y
  OBVIOUS
<1>4. Attempts(q) = Attempts(n) + 1 => x = y + 7 * TotalTargets + 7
  BY <1>1, Weight, ZenonT(20)
<1>5. Rank(q) = 2 * (x + (7 * Left(q) + Way[q.pc])) + Alive(q)
  BY RankParts, ZenonT(20)
<1>6. Rank(n) = 2 * (y + (7 * Left(n) + Way[n.pc])) + Alive(n)
  BY RankParts
<1> HIDE DEF x, y
<1>7. CASE Attempts(n) = Attempts(q)
  BY <1>1, <1>2, <1>3, <1>5, <1>6, <1>7
<1>8. CASE Attempts(q) = Attempts(n) + 1
  BY <1>1, <1>2, <1>4, <1>5, <1>6, <1>8
<1> QED BY <1>7, <1>8

LEMMA MoveRank ==
  ASSUME NEW q \in RequestType, NEW n \in RequestType, PassOK(q), BudgetOK(q), BudgetOK(n),
         Move(q, n), q.pc \notin {"idle", "done"}, n.pc # "done"
  PROVE  Rank(n) < Rank(q) /\ Rank(n) > 0
<1>1. /\ Attempts(q) \in Nat /\ Left(q) \in 0..TotalTargets /\ Alive(q) \in 0..1
      /\ Attempts(n) \in Nat /\ Left(n) \in 0..TotalTargets /\ Alive(n) \in 0..1
  BY PartTypes
<1>2. \A l \in Location \ {"idle", "done"} : Way[l] \in 1..6
  BY WayValues DEF Location
<1>3. Way[q.pc] \in 1..6
  BY <1>2 DEF RequestType
<1>4. CASE Selects(q, n)
  <2>1. /\ q.pc = "loop" /\ n.pc = "admit" /\ n.tried = q.tried
        /\ n.attempt = q.attempt /\ n.idempotent = q.idempotent
    BY <1>4, ZenonT(20) DEF Selects, RequestType
  <2>2. Attempts(n) = Attempts(q) /\ Left(n) = Left(q)
    BY <2>1 DEF Attempts, Left, Budget
  <2>3. Way[n.pc] = 4 /\ Way[q.pc] = 5
    BY <2>1, WayValues
  <2> QED BY <1>1, <2>2, <2>3, Smaller
<1>5. CASE Refused(q, n)
  <2>1. /\ q.pc = "admit" /\ n.pc = "loop" /\ n.tried = Seen(q)
        /\ n.attempt = q.attempt /\ n.idempotent = q.idempotent
    BY <1>5 DEF Refused, RequestType
  <2>2. Attempts(n) = Attempts(q)
    BY <2>1 DEF Attempts, Budget
  <2>3. Left(n) = Left(q) - 1
    BY <2>1, OneLess DEF Left, PassOK, Selected
  <2>4. Way[n.pc] \in 1..6
    BY <2>1, WayValues
  <2> QED BY <1>1, <1>3, <2>2, <2>3, <2>4, Smaller
<1>6. CASE Retries(q, n)
  <2>1. /\ q.pc = "sent" /\ n.pc = "backoff"
        /\ n.attempt = q.attempt /\ n.idempotent = q.idempotent
    BY <1>6 DEF Retries, Retrying, RequestType
  <2>2. Attempts(q) = Attempts(n) + 1
    <3>1. Budget(q) \in Int /\ q.attempt \in Nat /\ Budget(n) = Budget(q)
      BY <2>1, RouteAssumption DEF Budget, RequestType
    <3> QED BY <2>1, <3>1 DEF Attempts
  <2>3. Way[n.pc] = 6 /\ Way[q.pc] = 3
    BY <2>1, WayValues, ZenonT(20)
  <2> QED BY <1>1, <2>2, <2>3, Smaller
<1>7. CASE Resumes(q, n)
  <2>1. /\ q.pc = "backoff" /\ n.pc = "loop" /\ n.tried = q.tried
        /\ n.attempt = q.attempt + 1 /\ n.idempotent = q.idempotent
    BY <1>7 DEF Resumes, RequestType
  <2>2. Attempts(n) = Attempts(q)
    <3>1. Budget(q) \in Int /\ q.attempt \in Nat /\ Budget(n) = Budget(q)
      BY <2>1, RouteAssumption DEF Budget, RequestType
    <3> QED BY <2>1, <3>1 DEF Attempts
  <2>3. Left(n) = Left(q)
    BY <2>1 DEF Left
  <2>4. Way[n.pc] = 5 /\ Way[q.pc] = 6
    BY <2>1, WayValues, ZenonT(20)
  <2> QED BY <1>1, <2>2, <2>3, <2>4, Smaller
<1>8. CASE Proceeds(q, n)
  <2>1. PICK l \in Location :
          /\ n = At(q, l)
          /\ \/ q.pc = "admit" /\ l = "sent"
             \/ q.pc = "sent" /\ l \in {"body", "error_body"}
             \/ q.pc \in {"body", "error_body"} /\ l \in {"drained", "broken"}
    BY <1>8 DEF Proceeds
  <2>2. /\ n.pc = l /\ n.tried = q.tried
        /\ n.attempt = q.attempt /\ n.idempotent = q.idempotent
    BY <2>1, ZenonT(20) DEF At, RequestType
  <2>3. Attempts(n) = Attempts(q) /\ Left(n) = Left(q)
    BY <2>1, <2>2 DEF Attempts, Left, Budget
  <2>4. Way[n.pc] \in 1..6 /\ Way[n.pc] < Way[q.pc]
    BY <2>1, <2>2, WayValues
  <2> QED BY <1>1, <1>3, <2>3, <2>4, Smaller
<1>9. CASE Expires(q, n)
  <2>1. /\ n.pc = q.pc /\ n.tried = q.tried /\ q.ctx = "live" /\ n.ctx # "live"
        /\ n.attempt = q.attempt /\ n.idempotent = q.idempotent
    BY <1>9, ZenonT(20) DEF Expires, RequestType
  <2>2. Attempts(n) = Attempts(q) /\ Left(n) = Left(q) /\ Alive(n) < Alive(q)
    BY <2>1 DEF Attempts, Left, Budget, Alive
  <2> QED BY <1>1, <1>3, <2>1, <2>2, Smaller
<1>10. ~Restarts(q, n)
  BY DEF Restarts
<1> QED BY <1>4, <1>5, <1>6, <1>7, <1>8, <1>9, <1>10 DEF Move

\* The loop of RetryTransport ends: every step of a request in progress ends it
\* or decreases a natural number, for any route, any attempt limit and whatever
\* upstreams, breakers and the other requests do (retry.go:154-211).
THEOREM AdvanceSafety == Spec => EveryStepAdvances
<1> DEFINE Advance ==
      \A r \in Request :
         req'[r] # req[r] /\ req[r].pc \notin {"idle", "done"} /\ req'[r].pc # "done"
            => Rank(req'[r]) < Rank(req[r]) /\ Rank(req'[r]) > 0
<1>1. IInv /\ IInv' /\ PassInv /\ PassInv' /\ [Next]_vars => [Advance]_vars
  <2> SUFFICES ASSUME IInv, IInv', PassInv, PassInv', [Next]_vars, NEW r \in Request,
                      req'[r] # req[r], req[r].pc \notin {"idle", "done"}, req'[r].pc # "done"
               PROVE  Rank(req'[r]) < Rank(req[r]) /\ Rank(req'[r]) > 0
    OBVIOUS
  <2>1. req[r] \in RequestType /\ req'[r] \in RequestType
    BY DEF IInv, Shape
  <2>2. PassOK(req[r]) /\ BudgetOK(req[r]) /\ BudgetOK(req'[r])
    BY DEF PassInv
  <2>3. Move(req[r], req'[r])
    BY StepMoves
  <2> QED BY <2>1, <2>2, <2>3, MoveRank
<1>2. Spec => [][Next]_vars
  BY PTL DEF Spec
<1> QED BY <1>1, <1>2, Balance, PassSafety, PTL DEF EveryStepAdvances
=============================================================================
