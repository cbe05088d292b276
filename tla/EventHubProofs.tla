--------------------------- MODULE EventHubProofs ----------------------------
(***************************************************************************)
(* The event feed of the observatory, for any number of publishers and     *)
(* clients, any capacity and any retention: the log stream skips no line   *)
(* whatever connections break, a connection is shown the events of a       *)
(* publisher in order and misses none until its channel is full, and the   *)
(* buffer keeps what a later subscriber is to see.                         *)
(***************************************************************************)
EXTENDS EventHub, FiniteSetTheorems, SequenceTheorems, TLAPS

LogLine == [kind : {"event", "sampled", "other"}, ts : Nat, at : Nat]

StreamType == [pc : {"off", "closed", "open"}, conn : Nat, pos : Nat, since : Nat, start : Nat]

\* The daemon receives lines in order and no line before its own time.
LogShape ==
  /\ now \in Nat
  /\ log \in Seq(LogLine)
  /\ \A i \in 1 .. Len(log) : log[i].ts <= log[i].at /\ log[i].at <= now
  /\ \A i, j \in 1 .. Len(log) : i <= j => log[i].at <= log[j].at

StreamShape ==
  stream \in StreamType /\ stream.since <= now /\ stream.pos <= Len(log)

\* No line that is still owed lies before the point of resumption, connected
\* or not: this is what lets a connection break at any time.
Resumable ==
  \A i \in DOMAIN log \ handled : InScope(i) =>
      /\ log[i].at >= stream.since
      /\ stream.pc = "open" => i > stream.pos

IInv == LogShape /\ StreamShape /\ Resumable

-----------------------------------------------------------------------------
\* The fields of a line.
LEMMA LineFields ==
  ASSUME LogShape, NEW i \in DOMAIN log
  PROVE  /\ i \in 1 .. Len(log) /\ Len(log) \in Nat
         /\ log[i] \in LogLine /\ log[i].ts \in Nat /\ log[i].at \in Nat
<1>1. i \in 1 .. Len(log) /\ Len(log) \in Nat
  BY LenProperties DEF LogShape
<1>2. log[i] \in LogLine
  BY <1>1, ElementOfSeq DEF LogShape
<1> QED BY <1>1, <1>2 DEF LogLine

\* How many numbers there are up to n.
LEMMA FirstNumbers ==
  ASSUME NEW n \in Nat
  PROVE  IsFiniteSet(1 .. n) /\ Cardinality(1 .. n) = n
<1>1. 1 \in Int /\ n \in Int
  OBVIOUS
<1>2. IsFiniteSet(1 .. n) /\ Cardinality(1 .. n) = IF 1 > n THEN 0 ELSE n - 1 + 1
  BY <1>1, FS_Interval
<1> QED BY <1>2

\* Since the lines are in order, the ones received before some time are a
\* prefix: the daemon starts with the first line that is not among them.
LEMMA StartsBefore ==
  ASSUME LogShape, NEW since \in Nat, NEW k \in 1 .. Len(log), log[k].at >= since
  PROVE  /\ Cardinality({i \in DOMAIN log : log[i].at < since}) \in Nat
         /\ Cardinality({i \in DOMAIN log : log[i].at < since}) < k
<1> DEFINE H == {i \in DOMAIN log : log[i].at < since}
<1>1. DOMAIN log = 1 .. Len(log) /\ Len(log) \in Nat
  BY LenProperties DEF LogShape
<1>2. \A i \in 1 .. Len(log) : log[i].at \in Nat
  BY <1>1, LineFields
<1>3. H \subseteq 1 .. (k - 1)
  BY <1>1, <1>2 DEF LogShape
<1>4. IsFiniteSet(1 .. (k - 1)) /\ Cardinality(1 .. (k - 1)) = k - 1
  BY <1>1, FirstNumbers
<1>5. Cardinality(H) \in Nat /\ Cardinality(H) <= k - 1
  BY <1>3, <1>4, FS_Subset, FS_CardinalityType
<1> QED BY <1>1, <1>5

\* It starts within the log.
LEMMA StartsWithin ==
  ASSUME LogShape, NEW since
  PROVE  /\ Cardinality({i \in DOMAIN log : log[i].at < since}) \in Nat
         /\ Cardinality({i \in DOMAIN log : log[i].at < since}) <= Len(log)
<1>1. DOMAIN log = 1 .. Len(log) /\ Len(log) \in Nat
  BY LenProperties DEF LogShape
<1>2. IsFiniteSet(DOMAIN log) /\ Cardinality(DOMAIN log) = Len(log)
  BY <1>1, FirstNumbers
<1> QED BY <1>1, <1>2, FS_Subset, FS_CardinalityType

-----------------------------------------------------------------------------
\* The hub's own steps and the clients leave the log and the stream alone.
LEMMA HubIInv ==
  ASSUME IInv, UNCHANGED <<now, logVars>>
  PROVE  IInv'
BY DEF IInv, LogShape, StreamShape, Resumable, InScope, logVars

LEMMA TickIInv ==
  ASSUME IInv, Tick
  PROVE  IInv'
<1>1. LogShape'
  <2>1. now' = now + 1 /\ now \in Nat /\ log' = log
    BY DEF Tick, IInv, LogShape, logVars
  <2>2. \A i \in 1 .. Len(log) : log[i].at <= now + 1
    <3> SUFFICES ASSUME NEW i \in DOMAIN log PROVE log[i].at <= now + 1
      BY LenProperties DEF IInv, LogShape
    <3> QED BY <2>1, LineFields DEF IInv, LogShape
  <2> QED BY <2>1, <2>2 DEF IInv, LogShape
<1>2. StreamShape'
  BY DEF Tick, IInv, LogShape, StreamShape, StreamType, logVars
<1>3. Resumable'
  BY DEF Tick, IInv, Resumable, InScope, logVars
<1> QED BY <1>1, <1>2, <1>3 DEF IInv

\* A new line is behind all others and not before the point of resumption.
LEMMA WriteIInv ==
  ASSUME IInv, Write
  PROVE  IInv'
<1>1. PICK kind \in {"event", "sampled", "other"}, ts \in Recently :
        log' = Append(log, [kind |-> kind, ts |-> ts, at |-> now])
  BY DEF Write
<1> DEFINE line == [kind |-> kind, ts |-> ts, at |-> now]
           n == Len(log) + 1
<1>2. ts \in Nat /\ ts <= now /\ now \in Nat
  BY HubAssumption DEF Recently, IInv, LogShape
<1>3. line \in LogLine /\ line.at = now /\ line.ts = ts
  BY <1>2 DEF LogLine
<1>4. /\ log \in Seq(LogLine) /\ Len(log) \in Nat
      /\ log' \in Seq(LogLine) /\ Len(log') = n /\ log'[n] = line
      /\ \A i \in 1 .. Len(log) : log'[i] = log[i]
      /\ DOMAIN log = 1 .. Len(log) /\ DOMAIN log' = 1 .. n
  BY <1>1, <1>3, AppendProperties, LenProperties DEF IInv, LogShape
<1>5. UNCHANGED <<now, stream, handled>>
  BY DEF Write
<1>6. \A i \in 1 .. Len(log) : log[i].at \in Nat /\ log[i].ts \in Nat
  BY <1>4, LineFields DEF IInv
<1> HIDE DEF line
<1>7. \A i \in 1 .. n : i \in 1 .. Len(log) \/ i = n
  BY <1>4
<1>8. LogShape'
  <2>1. \A i \in 1 .. n : log'[i].ts <= log'[i].at /\ log'[i].at <= now
    BY <1>2, <1>3, <1>4, <1>7 DEF IInv, LogShape
  <2>2. ASSUME NEW i \in 1 .. n, NEW j \in 1 .. n, i <= j
        PROVE  log'[i].at <= log'[j].at
    <3>1. CASE j = n
      BY <2>1, <3>1, <1>3, <1>4
    <3>2. CASE j # n
      <4>1. i \in 1 .. Len(log) /\ j \in 1 .. Len(log)
        BY <2>2, <3>2, <1>4
      <4> QED BY <4>1, <2>2, <1>4 DEF IInv, LogShape
    <3> QED BY <3>1, <3>2
  <2> QED BY <1>2, <1>4, <1>5, <2>1, <2>2 DEF LogShape
<1>9. StreamShape'
  BY <1>4, <1>5 DEF IInv, StreamShape, StreamType
<1>10. Resumable'
  <2> SUFFICES ASSUME NEW i \in DOMAIN log' \ handled, InScope(i)'
               PROVE  log'[i].at >= stream.since /\ (stream.pc = "open" => i > stream.pos)
    BY <1>5 DEF Resumable
  <2>1. CASE i = n
    BY <2>1, <1>2, <1>3, <1>4 DEF IInv, StreamShape, StreamType
  <2>2. CASE i \in 1 .. Len(log)
    BY <2>2, <1>4, <1>5 DEF IInv, Resumable, InScope
  <2> QED BY <1>4, <1>7, <2>1, <2>2
<1> QED BY <1>8, <1>9, <1>10 DEF IInv

-----------------------------------------------------------------------------
LEMMA StartStreamIInv ==
  ASSUME IInv, StartStream
  PROVE  IInv'
<1>1. /\ stream' = [stream EXCEPT !.pc = "closed", !.since = now, !.start = now]
      /\ stream \in StreamType /\ now \in Nat /\ UNCHANGED <<now, log, handled>>
  BY DEF StartStream, IInv, LogShape, StreamShape
<1>2. /\ stream' \in StreamType /\ stream'.pc = "closed" /\ stream'.since = now
      /\ stream'.start = now /\ stream'.pos = stream.pos
  BY <1>1, Zenon DEF StreamType
<1>3. LogShape' /\ StreamShape'
  BY <1>1, <1>2 DEF IInv, LogShape, StreamShape
<1>4. Resumable'
  BY <1>1, <1>2 DEF Resumable, InScope
<1> QED BY <1>3, <1>4 DEF IInv

\* A connection starts before every line that is owed.
LEMMA ConnectIInv ==
  ASSUME IInv, Connect
  PROVE  IInv'
<1> DEFINE pos == Cardinality({i \in DOMAIN log : log[i].at < stream.since})
<1>1. /\ stream' = [stream EXCEPT !.pc = "open", !.conn = @ + 1, !.pos = pos]
      /\ stream \in StreamType /\ UNCHANGED <<now, log, handled>>
  BY DEF Connect, IInv, StreamShape
<1>2. stream.since \in Nat /\ stream.conn + 1 \in Nat /\ pos \in Nat /\ pos <= Len(log)
  <2>1. stream.since \in Nat /\ stream.conn + 1 \in Nat
    BY <1>1 DEF StreamType
  <2>2. pos \in Nat /\ pos <= Len(log)
    BY StartsWithin, Zenon DEF IInv
  <2> QED BY <2>1, <2>2
<1>3. \A i \in 1 .. Len(log) : log[i].at >= stream.since => pos < i
  BY <1>2, StartsBefore DEF IInv
<1> HIDE DEF pos
<1>4. /\ stream' \in StreamType /\ stream'.since = stream.since
      /\ stream'.start = stream.start /\ stream'.pos = pos
  BY <1>1, <1>2, Zenon DEF StreamType
<1>5. LogShape' /\ StreamShape'
  BY <1>1, <1>2, <1>4 DEF IInv, LogShape, StreamShape
<1>6. Resumable'
  <2> SUFFICES ASSUME NEW i \in DOMAIN log \ handled, InScope(i)'
               PROVE  log[i].at >= stream.since /\ i > pos
    BY <1>1, <1>4 DEF Resumable
  <2>1. log[i].at >= stream.since
    BY <1>1, <1>4 DEF IInv, Resumable, InScope, Connect
  <2>2. i \in 1 .. Len(log)
    BY LineFields DEF IInv
  <2> QED BY <1>2, <1>3, <2>1, <2>2
<1> QED BY <1>5, <1>6 DEF IInv

\* The time inside a line is no later than the receipt of the lines after it.
LEMMA ReadLineIInv ==
  ASSUME IInv, ReadLine
  PROVE  IInv'
<1> DEFINE i == stream.pos + 1
           since == IF log[i].kind = "other" THEN stream.since ELSE log[i].ts
<1>1. /\ stream' = [stream EXCEPT !.pos = i, !.since = since]
      /\ handled' = handled \cup {i} /\ log' = log
      /\ stream.pc = "open" /\ i <= Len(log)
  BY DEF ReadLine
<1>2. now' = now
  BY Zenon DEF ReadLine, Accept
<1>3. stream \in StreamType /\ stream.pos \in Nat /\ Len(log) \in Nat
  BY LenProperties DEF IInv, StreamShape, StreamType, LogShape
<1>4. i \in 1 .. Len(log) /\ i \in DOMAIN log
  BY <1>1, <1>3, LenProperties DEF IInv, LogShape
<1>5. log[i].ts \in Nat /\ log[i].at \in Nat /\ log[i].ts <= log[i].at /\ log[i].at <= now
  BY <1>4, LineFields DEF IInv, LogShape
<1>6. since \in Nat /\ since <= now
  <2>1. stream.since \in Nat /\ stream.since <= now /\ now \in Nat
    BY <1>3 DEF IInv, StreamShape, StreamType, LogShape
  <2>2. log[i].ts <= now
    BY ONLY <1>5, <2>1
  <2> QED BY ONLY <1>5, <2>1, <2>2, Zenon
<1>7. \A k \in DOMAIN log : k > i /\ log[k].at >= stream.since => log[k].at >= since
  <2> SUFFICES ASSUME NEW k \in DOMAIN log, k > i, log[k].at >= stream.since
               PROVE  log[k].at >= since
    OBVIOUS
  <2>1. k \in 1 .. Len(log) /\ log[k].at \in Nat
    BY LineFields DEF IInv
  <2>2. log[i].at <= log[k].at
    BY <1>4, <2>1 DEF IInv, LogShape
  <2>3. log[i].ts <= log[k].at
    BY ONLY <1>5, <2>1, <2>2
  <2>4. log[k].at >= stream.since /\ log[k].at >= log[i].ts
    BY <1>5, <2>1, <2>3
  <2> QED BY ONLY <2>4, Zenon
<1> HIDE DEF since
<1>8. /\ stream' \in StreamType /\ stream'.pc = "open" /\ stream'.since = since
      /\ stream'.start = stream.start /\ stream'.pos = i
  <2>1. i \in Nat
    BY <1>3
  <2> HIDE DEF i
  <2> QED BY <1>1, <1>3, <1>6, <2>1, Zenon DEF StreamType
<1>9. LogShape' /\ StreamShape'
  BY <1>1, <1>2, <1>6, <1>8 DEF IInv, LogShape, StreamShape
<1>10. Resumable'
  <2> SUFFICES ASSUME NEW k \in DOMAIN log \ handled', InScope(k)'
               PROVE  log[k].at >= since /\ k > i
    BY <1>1, <1>8 DEF Resumable
  <2>1. log[k].at >= stream.since /\ k > stream.pos /\ k # i
    BY <1>1, <1>8 DEF IInv, Resumable, InScope
  <2>2. k \in 1 .. Len(log)
    BY LineFields DEF IInv
  <2>3. k > i
    BY <1>3, <2>1, <2>2
  <2> QED BY <1>7, <2>1, <2>3
<1> QED BY <1>9, <1>10 DEF IInv

LEMMA BreakIInv ==
  ASSUME IInv, Break
  PROVE  IInv'
<1>1. /\ stream' = [stream EXCEPT !.pc = "closed"] /\ stream.pc = "open"
      /\ stream \in StreamType /\ UNCHANGED <<now, log, handled>>
  BY DEF Break, IInv, StreamShape
<1>2. /\ stream' \in StreamType /\ stream'.pc = "closed" /\ stream'.since = stream.since
      /\ stream'.start = stream.start /\ stream'.pos = stream.pos
  BY <1>1 DEF StreamType
<1>3. LogShape' /\ StreamShape'
  BY <1>1, <1>2 DEF IInv, LogShape, StreamShape
<1>4. Resumable'
  BY <1>1, <1>2 DEF IInv, Resumable, InScope
<1> QED BY <1>3, <1>4 DEF IInv

-----------------------------------------------------------------------------
\* The empty log is resumable, and every step keeps it so.
LEMMA InitIInv == Init => IInv
<1> SUFFICES ASSUME Init PROVE IInv
  OBVIOUS
<1>1. log \in Seq(LogLine) /\ Len(log) = 0 /\ DOMAIN log = {}
  BY EmptySeq DEF Init
<1>2. stream \in StreamType /\ stream.since = 0 /\ stream.pos = 0 /\ now = 0
  BY DEF Init, StreamType
<1> QED BY <1>1, <1>2 DEF IInv, LogShape, StreamShape, Resumable

LEMMA NextIInv == IInv /\ [Next]_vars => IInv'
<1> SUFFICES ASSUME IInv, [Next]_vars PROVE IInv'
  OBVIOUS
<1>1. CASE UNCHANGED vars
  BY <1>1, HubIInv DEF vars
<1>2. ASSUME NEW p \in Publisher, Call(p) PROVE IInv'
  <2>1. UNCHANGED <<now, logVars>>
    BY <1>2, Zenon DEF Call, Publish, Accept, Offer, Pop, Retry
  <2> QED BY <2>1, HubIInv
<1>3. ASSUME NEW c \in Client, Subscribe(c) \/ Receive(c) \/ Leave(c) PROVE IInv'
  <2>1. UNCHANGED <<now, logVars>>
    BY <1>3 DEF Subscribe, Receive, Leave
  <2> QED BY <2>1, HubIInv
<1>4. CASE Write \/ StartStream \/ Connect \/ ReadLine \/ Break \/ Tick
  BY <1>4, WriteIInv, StartStreamIInv, ConnectIInv, ReadLineIInv, BreakIInv, TickIInv
<1> QED BY <1>1, <1>2, <1>3, <1>4 DEF Next

\* The stream can be broken off and resumed in every reachable state.
THEOREM StreamInvariant == Spec => []IInv
BY InitIInv, NextIInv, PTL DEF Spec

\* Resuming at the time inside the last parsed event skips no line of the
\* gateway's log (events.go:202,215), for any number of broken connections.
THEOREM StreamSafety == Spec => []NoLineSkipped
<1>1. IInv => NoLineSkipped
  BY DEF IInv, Resumable, NoLineSkipped
<1> QED BY <1>1, StreamInvariant, PTL

-----------------------------------------------------------------------------
(* The buffer, the channels and the connections *)

Item == [by : Publisher, conn : Nat, seq : Nat, ts : Nat]

\* The order in which one publisher publishes.
Precedes(d, e) == d.conn < e.conn \/ (d.conn = e.conn /\ d.seq < e.seq)
Ordered(s) == \A i, j \in DOMAIN s : (i < j /\ s[i].by = s[j].by) => Precedes(s[i], s[j])

\* One more element at the end of a sequence.
LEMMA AppendFacts ==
  ASSUME NEW S, NEW s \in Seq(S), NEW e \in S
  PROVE  /\ Append(s, e) \in Seq(S) /\ Len(s) \in Nat /\ DOMAIN s = 1 .. Len(s)
         /\ DOMAIN Append(s, e) = 1 .. (Len(s) + 1) /\ Len(Append(s, e)) = Len(s) + 1
         /\ Append(s, e)[Len(s) + 1] = e
         /\ \A i \in 1 .. Len(s) : Append(s, e)[i] = s[i]
         /\ Range(Append(s, e)) = Range(s) \cup {e}
<1>1. /\ Append(s, e) \in Seq(S) /\ Len(s) \in Nat /\ DOMAIN s = 1 .. Len(s)
      /\ Len(Append(s, e)) = Len(s) + 1
      /\ Append(s, e)[Len(s) + 1] = e
      /\ \A i \in 1 .. Len(s) : Append(s, e)[i] = s[i]
  BY AppendProperties, LenProperties
<1>2. DOMAIN Append(s, e) = 1 .. (Len(s) + 1)
  BY <1>1, LenProperties
<1>3. \A i \in 1 .. (Len(s) + 1) : i \in 1 .. Len(s) \/ i = Len(s) + 1
  BY <1>1
<1>4. \A i \in 1 .. Len(s) : i \in 1 .. (Len(s) + 1)
  BY <1>1
<1>5. Len(s) + 1 \in 1 .. (Len(s) + 1)
  BY <1>1
<1> DEFINE t == Append(s, e)
           n == Len(s) + 1
<1>6. /\ DOMAIN t = 1 .. n /\ t[n] = e /\ n \in 1 .. n /\ DOMAIN s = 1 .. Len(s)
      /\ \A i \in 1 .. Len(s) : t[i] = s[i]
  BY <1>1, <1>2, <1>5
<1> HIDE DEF t, n
<1>7. Range(t) = Range(s) \cup {e}
  <2>1. ASSUME NEW x \in Range(t) PROVE x \in Range(s) \cup {e}
    BY <1>3, <1>6 DEF Range, n
  <2>2. ASSUME NEW x \in Range(s) PROVE x \in Range(t)
    BY <1>4, <1>6 DEF Range, n
  <2>3. e \in Range(t)
    BY <1>6 DEF Range
  <2> QED BY <2>1, <2>2, <2>3
<1> QED BY <1>1, <1>2, <1>7 DEF t

\* An event that comes after all of its publisher keeps the order.
LEMMA AppendOrdered ==
  ASSUME NEW S, NEW s \in Seq(S), NEW e \in S, Ordered(s),
         \A d \in Range(s) : d.by = e.by => Precedes(d, e)
  PROVE  Ordered(Append(s, e))
<1> DEFINE t == Append(s, e)
           n == Len(s)
<1>1. /\ n \in Nat /\ DOMAIN s = 1 .. n /\ DOMAIN t = 1 .. (n + 1) /\ t[n + 1] = e
      /\ \A i \in 1 .. n : t[i] = s[i]
  BY AppendFacts
<1>2. \A i \in 1 .. n : s[i] \in Range(s)
  BY <1>1 DEF Range
<1> HIDE DEF t, n
<1>3. ASSUME NEW i \in DOMAIN t, NEW j \in DOMAIN t, i < j, t[i].by = t[j].by
      PROVE  Precedes(t[i], t[j])
  <2>1. i \in 1 .. n
    BY <1>1, <1>3
  <2>2. CASE j = n + 1
    BY <1>1, <1>2, <1>3, <2>1, <2>2
  <2>3. CASE j \in 1 .. n
    BY <1>1, <1>3, <2>1, <2>3 DEF Ordered
  <2> QED BY <1>1, <2>2, <2>3
<1> QED BY <1>3 DEF Ordered, t

-----------------------------------------------------------------------------
\* The loop of pruneLocked, round by round: f[i] is what it has kept of the
\* first i events (events.go:114-124).
Rounds(f, n, s, cut) ==
  f = [i \in 0 .. n |-> IF i = 0 THEN <<>>
                        ELSE IF s[i].ts < cut THEN f[i - 1]
                        ELSE Append(f[i - 1], s[i])]

\* Every such loop has its rounds.
LEMMA LoopRounds ==
  ASSUME NEW n \in Nat, NEW s, NEW cut
  PROVE  \E f : Rounds(f, n, s, cut)
<1> DEFINE K(f, i) == IF i = 0 THEN <<>>
                      ELSE IF s[i].ts < cut THEN f[i - 1]
                      ELSE Append(f[i - 1], s[i])
           Bad == {m \in Nat : ~ \E f : f = [i \in 0 .. m |-> K(f, i)]}
<1>1. \A f, g, i : (i = 0 \/ f[i - 1] = g[i - 1]) => K(f, i) = K(g, i)
  BY Zenon
<1> HIDE DEF K
<1>2. Bad = {}
  <2> SUFFICES ASSUME Bad # {} PROVE FALSE
    OBVIOUS
  <2>1. Bad \subseteq Nat
    OBVIOUS
  <2> DEFINE R == OpToRel(<, Nat)
  <2>2. PICK x \in Bad : \A y \in Bad : ~(<<y, x>> \in R)
    BY <2>1, NatLessThanWellFounded, WFMin, Zenon
  <2>3. x \in Nat
    BY <2>1
  <2>4. CASE x = 0
    <3> DEFINE g == [i \in 0 .. 0 |-> K(<<>>, i)]
    <3>1. \A i \in 0 .. 0 : K(<<>>, i) = K(g, i)
      BY <1>1
    <3>2. g = [i \in 0 .. 0 |-> K(g, i)]
      BY <3>1
    <3> QED BY <2>4, <3>2
  <2>5. CASE x # 0
    <3>1. x - 1 \in Nat /\ <<x - 1, x>> \in R
      BY <2>3, <2>5 DEF OpToRel
    <3>2. PICK f : f = [i \in 0 .. (x - 1) |-> K(f, i)]
      BY <2>2, <3>1, Zenon
    <3> DEFINE g == [i \in 0 .. x |-> K(f, i)]
    <3>3. \A i \in 0 .. (x - 1) : g[i] = f[i]
      <4>1. \A i \in 0 .. (x - 1) : i \in 0 .. x
        BY <2>3
      <4>2. \A i \in 0 .. (x - 1) : f[i] = K(f, i)
        BY <3>2
      <4> QED BY <4>1, <4>2
    <3>4. \A i \in 0 .. x : i = 0 \/ i - 1 \in 0 .. (x - 1)
      BY <2>3
    <3> HIDE DEF g
    <3>5. ASSUME NEW i \in 0 .. x PROVE K(f, i) = K(g, i)
      <4>1. i = 0 \/ f[i - 1] = g[i - 1]
        BY ONLY <3>3, <3>4
      <4> QED BY ONLY <1>1, <4>1
    <3>6. g = [i \in 0 .. x |-> K(g, i)]
      BY <3>5 DEF g
    <3> QED BY <3>6
  <2> QED BY <2>4, <2>5
<1>3. \E f : f = [i \in 0 .. n |-> K(f, i)]
  BY <1>2
<1> QED BY <1>3 DEF K, Rounds

LEMMA PrunedRounds ==
  ASSUME NEW S, buffer \in Seq(S), NEW at
  PROVE  \E f : /\ Pruned(at) = f[Len(buffer)] /\ f[0] = <<>>
                /\ \A i \in 1 .. Len(buffer) :
                     f[i] = IF buffer[i].ts < at - Retention THEN f[i - 1]
                            ELSE Append(f[i - 1], buffer[i])
<1> DEFINE n == Len(buffer)
           f == CHOOSE f : Rounds(f, n, buffer, at - Retention)
<1>1. n \in Nat
  BY LenProperties
<1>2. \E g : Rounds(g, n, buffer, at - Retention)
  BY ONLY <1>1, LoopRounds, Zenon
<1>3. Rounds(f, n, buffer, at - Retention)
  BY ONLY <1>2, Zenon
<1>4. Pruned(at) = f[n]
  BY DEF Pruned, Rounds
<1> HIDE DEF f
<1>5. f[0] = <<>>
  BY <1>1, <1>3 DEF Rounds
<1>6. \A i \in 1 .. n : i \in 0 .. n /\ i # 0
  BY <1>1
<1>7. \A i \in 1 .. n : f[i] = IF buffer[i].ts < at - Retention THEN f[i - 1]
                               ELSE Append(f[i - 1], buffer[i])
  BY <1>3, <1>6, Zenon DEF Rounds
<1> QED BY <1>4, <1>5, <1>7

\* pruneLocked keeps exactly the events that are not older than the retention,
\* and keeps them in order (events.go:114-124).
LEMMA PrunedKeeps ==
  ASSUME buffer \in Seq(Item), NEW at
  PROVE  /\ Pruned(at) \in Seq(Item)
         /\ Range(Pruned(at)) = {e \in Range(buffer) : ~(e.ts < at - Retention)}
         /\ Ordered(buffer) => Ordered(Pruned(at))
<1> DEFINE n == Len(buffer)
           Old(e) == e.ts < at - Retention
           Kept(m) == {buffer[i] : i \in {j \in 1 .. m : ~Old(buffer[j])}}
<1>1. /\ n \in Nat /\ DOMAIN buffer = 1 .. n
      /\ \A i \in 1 .. n : buffer[i] \in Item
  BY LenProperties, ElementOfSeq
<1>2. PICK f : /\ Pruned(at) = f[n] /\ f[0] = <<>>
               /\ \A i \in 1 .. n : f[i] = IF Old(buffer[i]) THEN f[i - 1]
                                           ELSE Append(f[i - 1], buffer[i])
  BY PrunedRounds
<1> HIDE DEF Old
<1> DEFINE Good(m) == /\ f[m] \in Seq(Item) /\ Range(f[m]) = Kept(m)
                      /\ Ordered(buffer) => Ordered(f[m])
           Bad == {m \in 0 .. n : ~Good(m)}
<1>3. Good(0)
  <2>1. f[0] \in Seq(Item) /\ DOMAIN f[0] = {}
    BY <1>2, EmptySeq
  <2>2. Kept(0) = {}
    OBVIOUS
  <2>3. Range(f[0]) = {}
    BY <2>1 DEF Range
  <2>4. Ordered(f[0])
    BY <2>1 DEF Ordered
  <2> QED BY <2>1, <2>2, <2>3, <2>4
<1>4. ASSUME NEW m \in 1 .. n, Good(m - 1) PROVE Good(m)
  <2>1. f[m] = IF Old(buffer[m]) THEN f[m - 1] ELSE Append(f[m - 1], buffer[m])
    BY <1>2
  <2>2. \A i : i \in 1 .. m <=> i \in 1 .. (m - 1) \/ i = m
    BY <1>1
  <2>3. Kept(m) = IF Old(buffer[m]) THEN Kept(m - 1) ELSE Kept(m - 1) \cup {buffer[m]}
    BY <2>2, Zenon
  <2>4. buffer[m] \in Item
    BY <1>1
  <2>5. ASSUME Ordered(buffer), NEW d \in Kept(m - 1), d.by = buffer[m].by
        PROVE  Precedes(d, buffer[m])
    <3>1. PICK i \in 1 .. (m - 1) : d = buffer[i]
      OBVIOUS
    <3>2. i \in DOMAIN buffer /\ m \in DOMAIN buffer /\ i < m
      BY <1>1, <3>1
    <3> QED BY <2>5, <3>1, <3>2 DEF Ordered
  <2> HIDE DEF Kept
  <2>6. CASE Old(buffer[m])
    BY <1>4, <2>1, <2>3, <2>6
  <2>7. CASE ~Old(buffer[m])
    <3>1. f[m] \in Seq(Item) /\ Range(f[m]) = Range(f[m - 1]) \cup {buffer[m]}
      BY <1>4, <2>1, <2>4, <2>7, AppendFacts
    <3>2. ASSUME Ordered(buffer) PROVE Ordered(f[m])
      BY <1>4, <2>1, <2>4, <2>5, <2>7, <3>2, AppendOrdered
    <3> QED BY <1>4, <2>3, <2>7, <3>1, <3>2
  <2> QED BY <2>6, <2>7
<1> HIDE DEF Good
<1>5. Bad = {}
  <2> SUFFICES ASSUME Bad # {} PROVE FALSE
    OBVIOUS
  <2>1. Bad \subseteq Nat
    BY <1>1
  <2> DEFINE R == OpToRel(<, Nat)
  <2>2. PICK x \in Bad : \A y \in Bad : ~(<<y, x>> \in R)
    BY <2>1, NatLessThanWellFounded, WFMin, Zenon
  <2>3. x \in 0 .. n /\ ~Good(x) /\ x # 0
    BY <1>3
  <2>4. x \in 1 .. n /\ x - 1 \in 0 .. n /\ <<x - 1, x>> \in R
    BY <1>1, <2>3 DEF OpToRel
  <2>5. Good(x - 1)
    BY <2>2, <2>4, Zenon
  <2> QED BY <1>4, <2>3, <2>4, <2>5, Zenon
<1>6. n \in 0 .. n
  BY <1>1
<1>7. Good(n)
  BY <1>5, <1>6
<1>8. Kept(n) = {e \in Range(buffer) : ~Old(e)}
  BY <1>1, Zenon DEF Range
<1> QED BY <1>2, <1>7, <1>8 DEF Good, Old

-----------------------------------------------------------------------------
CallType == [pc : {"offer", "pop", "retry"}, event : Item,
             todo : SUBSET Client, slow : SUBSET Client]

HubShape ==
  /\ buffer \in Seq(Item)
  /\ client \in [Client -> {"new", "live", "gone"}]
  /\ channel \in [Client -> Seq(Item)] /\ view \in [Client -> Seq(Item)]
  /\ pub \in [Publisher -> CallType]
  /\ owed \in [Client -> SUBSET Item] /\ accepted \subseteq Item

\* A call deals with one full channel at a time.
SlowShape(p) ==
  /\ pub[p].slow \subseteq overflown /\ pub[p].slow \subseteq pub[p].todo
  /\ pub[p].pc = "offer" => pub[p].slow = {}

\* A call sends its publisher's event, to clients that have subscribed.
CallShape ==
  \A p \in Publisher :
     /\ pub[p].event.by = p
     /\ SlowShape(p)
     /\ p # Log => pub[p].event.conn = 0
     /\ \A c \in pub[p].todo : client[c] # "new"

\* The next line of the log comes after the last one published.
StreamAhead ==
  LET e == pub[Log].event IN
  e.conn < stream.conn \/ (e.conn = stream.conn /\ e.seq <= stream.pos)

\* The buffer is in order, up to the event of the current call.
BufferOrder ==
  /\ Ordered(buffer)
  /\ \A e \in Range(buffer) : e = pub[e.by].event \/ Precedes(e, pub[e.by].event)

\* So is what a client was written and has queued, and the current event is
\* not among it as long as the client is still to be served.
Feed(c) == view[c] \o channel[c]
FeedOrder ==
  \A c \in Client :
     /\ Ordered(Feed(c))
     /\ client[c] = "new" => channel[c] = <<>>
     /\ \A e \in Range(Feed(c)) :
          \/ Precedes(e, pub[e.by].event)
          \/ e = pub[e.by].event /\ c \notin pub[e.by].todo

\* An event that a client is owed was written to it, is in its channel or is
\* being sent to it: NothingLost, event by event.
OnItsWay(c, e) ==
  \/ e \in Range(view[c]) \/ e \in Range(channel[c])
  \/ \E q \in Publisher : c \in pub[q].todo /\ e = pub[q].event
Complete == \A c \in Client \ overflown : \A e \in owed[c] : OnItsWay(c, e)

FeedInv ==
  /\ HubShape /\ CallShape /\ StreamAhead /\ BufferOrder /\ FeedOrder
  /\ Complete /\ RecentKept

-----------------------------------------------------------------------------
LEMMA FeedRange ==
  ASSUME NEW s \in Seq(Item), NEW t \in Seq(Item)
  PROVE  Range(s \o t) = Range(s) \cup Range(t) /\ s \o t \in Seq(Item)
BY RangeConcatenation, ConcatProperties

LEMMA PrecedesTransitive ==
  ASSUME NEW a \in Item, NEW b \in Item, NEW c \in Item, Precedes(a, b), Precedes(b, c)
  PROVE  Precedes(a, c)
BY DEF Precedes, Item

LEMMA ClientFields ==
  ASSUME HubShape, NEW c \in Client
  PROVE  /\ view[c] \in Seq(Item) /\ channel[c] \in Seq(Item)
         /\ Range(view[c]) \subseteq Item /\ Range(channel[c]) \subseteq Item
         /\ Range(Feed(c)) = Range(view[c]) \cup Range(channel[c])
<1>1. view[c] \in Seq(Item) /\ channel[c] \in Seq(Item)
  BY DEF HubShape
<1> QED BY <1>1, FeedRange, RangeOfSeq DEF Feed

LEMMA CallFields ==
  ASSUME HubShape, NEW p \in Publisher
  PROVE  /\ pub[p] \in CallType /\ pub[p].event \in Item
         /\ pub[p].todo \subseteq Client /\ pub[p].slow \subseteq Client
<1>1. pub[p] \in CallType
  BY DEF HubShape
<1> QED BY <1>1 DEF CallType

\* A step of a call that puts t into the channel of c: every send, and every
\* event taken away, is one (events.go:75-89).
LEMMA ServeInv ==
  ASSUME FeedInv, NEW p \in Publisher, NEW c \in Client, NEW t \in Seq(Item),
         UNCHANGED <<now, logVars, buffer, client, view, owed, accepted>>,
         channel' = [channel EXCEPT ![c] = t],
         pub' \in [Publisher -> CallType],
         \A q \in Publisher : pub'[q].event = pub[q].event /\ SlowShape(q)',
         \A q \in Publisher \ {p} : pub'[q].todo = pub[q].todo,
         pub'[p].todo \in {pub[p].todo, pub[p].todo \ {c}},
         overflown \subseteq overflown',
         Ordered(view[c] \o t), client[c] = "new" => t = <<>>,
         \/ Range(t) \subseteq Range(channel[c])
         \/ Range(t) \subseteq Range(channel[c]) \cup {pub[p].event} /\ c \notin pub'[p].todo,
         \/ c \in overflown'
         \/ /\ Range(channel[c]) \subseteq Range(t)
            /\ pub'[p].todo = pub[p].todo \/ pub[p].event \in Range(t)
  PROVE  FeedInv'
<1>1. HubShape /\ CallShape /\ StreamAhead /\ BufferOrder /\ FeedOrder /\ Complete /\ RecentKept
  BY Zenon DEF FeedInv
<1>2. \A q \in Publisher : pub'[q].todo \subseteq pub[q].todo
  OBVIOUS
<1>3. \A d \in Client : d # c => channel'[d] = channel[d]
  BY <1>1 DEF HubShape
<1>4. channel'[c] = t /\ channel' \in [Client -> Seq(Item)]
  BY <1>1 DEF HubShape
<1>5. HubShape'
  BY <1>1, <1>4 DEF HubShape
<1>6. CallShape'
  BY <1>1, <1>2 DEF CallShape
<1>7. Log \in Publisher
  BY HubAssumption
<1>8. StreamAhead'
  BY <1>1, <1>7 DEF StreamAhead, logVars
<1>9. \A e \in Item : e.by \in Publisher
  BY DEF Item
<1>10. BufferOrder'
  <2>1. Range(buffer) \subseteq Item
    BY <1>1, RangeOfSeq DEF HubShape
  <2> QED BY <1>1, <1>9, <2>1 DEF BufferOrder
<1>11. RecentKept'
  BY <1>1 DEF RecentKept
<1>12. FeedOrder'
  <2> SUFFICES ASSUME NEW d \in Client
               PROVE  /\ Ordered(Feed(d)')
                      /\ client[d] = "new" => channel'[d] = <<>>
                      /\ \A e \in Range(Feed(d)') :
                           \/ Precedes(e, pub'[e.by].event)
                           \/ e = pub'[e.by].event /\ d \notin pub'[e.by].todo
    BY DEF FeedOrder
  <2>1. Range(Feed(d)) \subseteq Item
    BY <1>1, ClientFields
  <2>2. \A e \in Range(Feed(d)) : \/ Precedes(e, pub'[e.by].event)
                                  \/ e = pub'[e.by].event /\ d \notin pub'[e.by].todo
    BY <1>1, <1>2, <1>9, <2>1 DEF FeedOrder
  <2>3. CASE d # c
    <3>1. Feed(d)' = Feed(d) /\ channel'[d] = channel[d]
      BY <1>3, <2>3, Zenon DEF Feed
    <3> QED BY <1>1, <2>2, <3>1 DEF FeedOrder
  <2>4. CASE d = c
    <3>1. Feed(d)' = view[c] \o t /\ channel'[d] = t
      BY <1>4, <2>4 DEF Feed
    <3>2. Range(Feed(d)') = Range(view[c]) \cup Range(t)
      BY <1>1, <3>1, FeedRange, ClientFields
    <3>3. Range(Feed(d)) = Range(view[c]) \cup Range(channel[c])
      BY <1>1, <2>4, ClientFields
    <3>4. pub[p].event.by = p /\ pub'[p].event = pub[p].event
      BY <1>1 DEF CallShape
    <3>5. ASSUME NEW e \in Range(Feed(d)')
          PROVE  e \in Range(Feed(d)) \/ (e = pub[p].event /\ c \notin pub'[p].todo)
      BY <3>2, <3>3
    <3> QED BY <2>2, <2>4, <3>1, <3>4, <3>5
  <2> QED BY <2>3, <2>4
<1>13. Complete'
  <2> SUFFICES ASSUME NEW d \in Client \ overflown', NEW e \in owed[d],
                      e \notin Range(view[d]), e \notin Range(channel'[d])
               PROVE  \E q \in Publisher : d \in pub'[q].todo /\ e = pub'[q].event
    BY Zenon DEF Complete, OnItsWay
  <2>1. e \in Range(channel[d]) \/ \E q \in Publisher : d \in pub[q].todo /\ e = pub[q].event
    <3>1. d \notin overflown /\ e \notin Range(view[d])
      OBVIOUS
    <3>2. OnItsWay(d, e)
      BY ONLY <1>1, <3>1, d \in Client, e \in owed[d] DEF Complete
    <3> QED BY ONLY <3>1, <3>2, Zenon DEF OnItsWay
  <2>2. CASE d # c
    BY <1>3, <2>1, <2>2
  <2>3. CASE d = c
    BY <1>4, <2>1, <2>3
  <2> QED BY <2>2, <2>3
<1> QED BY <1>5, <1>6, <1>8, <1>10, <1>11, <1>12, <1>13, Zenon DEF FeedInv

\* Moving the end of one sequence to the next.
LEMMA ConcatAppend ==
  ASSUME NEW s \in Seq(Item), NEW t \in Seq(Item), NEW e \in Item
  PROVE  s \o Append(t, e) = Append(s \o t, e)
<1>1. Append(t, e) = t \o <<e>> /\ <<e>> \in Seq(Item)
  BY AppendIsConcat
<1>2. s \o t \in Seq(Item)
  BY ConcatProperties
<1>3. Append(s \o t, e) = (s \o t) \o <<e>>
  BY <1>2, AppendIsConcat
<1> QED BY <1>1, <1>3, ConcatAssociative

LEMMA ConcatHead ==
  ASSUME NEW s \in Seq(Item), NEW t \in Seq(Item), t # <<>>
  PROVE  /\ Head(t) \in Item /\ Tail(t) \in Seq(Item)
         /\ Append(s, Head(t)) \o Tail(t) = s \o t
         /\ Range(t) = {Head(t)} \cup Range(Tail(t))
<1> DEFINE h == Head(t)
           u == Tail(t)
<1>1. h \in Item /\ u \in Seq(Item) /\ <<h>> \in Seq(Item)
  BY HeadTailProperties
<1>2. <<h>> \o u = t
  <2>1. /\ Len(u) = Len(t) - 1 /\ Len(t) \in Nat /\ h = t[1]
        /\ \A i \in 1 .. Len(u) : u[i] = t[i + 1]
    BY HeadTailProperties, LenProperties
  <2>2. /\ <<h>> \o u \in Seq(Item) /\ Len(<<h>> \o u) = Len(t)
        /\ \A i \in 1 .. Len(t) : (<<h>> \o u)[i] = IF i <= 1 THEN <<h>>[i] ELSE u[i - 1]
    BY <1>1, <2>1, ConcatProperties
  <2>3. \A i \in 1 .. Len(t) : (<<h>> \o u)[i] = t[i]
    <3> SUFFICES ASSUME NEW i \in 1 .. Len(t) PROVE (<<h>> \o u)[i] = t[i]
      OBVIOUS
    <3>1. CASE i = 1
      BY <2>1, <2>2, <3>1
    <3>2. CASE i > 1
      <4>1. i - 1 \in 1 .. Len(u) /\ (i - 1) + 1 = i /\ ~(i <= 1)
        BY <2>1, <3>2
      <4> QED BY <2>1, <2>2, <4>1
    <3> QED BY <2>1, <3>1, <3>2
  <2> HIDE DEF h, u
  <2> QED BY <2>2, <2>3, SeqEqual, Zenon
<1>3. Append(s, h) = s \o <<h>>
  BY <1>1, AppendIsConcat
<1>4. Range(<<h>>) = {h}
  BY DEF Range
<1> HIDE DEF h, u
<1>5. Range(<<h>> \o u) = Range(<<h>>) \cup Range(u)
  <2> DEFINE v == <<h>>
  <2>1. v \in Seq(Item) /\ u \in Seq(Item)
    BY <1>1
  <2> HIDE DEF v
  <2>2. Range(v \o u) = Range(v) \cup Range(u)
    BY ONLY <2>1, RangeConcatenation
  <2> QED BY <2>2 DEF v
<1>6. (s \o <<h>>) \o u = s \o (<<h>> \o u)
  <2> DEFINE v == <<h>>
  <2>1. s \in Seq(Item) /\ v \in Seq(Item) /\ u \in Seq(Item)
    BY <1>1
  <2> HIDE DEF v
  <2>2. (s \o v) \o u = s \o (v \o u)
    BY ONLY <2>1, ConcatAssociative
  <2> QED BY <2>2 DEF v
<1> QED BY <1>1, <1>2, <1>3, <1>4, <1>5, <1>6, Zenon DEF h, u

\* The first select, with and without room (events.go:76-78).
LEMMA OfferInv ==
  ASSUME FeedInv, NEW p \in Publisher, NEW c \in Client, Offer(p, c)
  PROVE  FeedInv'
<1> DEFINE e == pub[p].event
<1>1. HubShape /\ CallShape /\ FeedOrder
  BY Zenon DEF FeedInv
<1>2. /\ pub[p] \in CallType /\ e \in Item /\ c \in pub[p].todo /\ e.by = p
      /\ client[c] # "new"
      /\ UNCHANGED <<now, logVars, buffer, client, view, owed, accepted>>
  BY <1>1, CallFields DEF Offer, CallShape
<1>3. view[c] \in Seq(Item) /\ channel[c] \in Seq(Item) /\ Feed(c) \in Seq(Item)
  BY <1>1, ClientFields, FeedRange DEF Feed
<1>4. CASE HasRoom(c)
  <2> DEFINE t == Append(channel[c], e)
  <2>1. /\ channel' = [channel EXCEPT ![c] = t] /\ overflown' = overflown
        /\ pub' = [pub EXCEPT ![p].todo = @ \ {c}]
    BY <1>4 DEF Offer, Sent
  <2>2. /\ pub' \in [Publisher -> CallType] /\ pub'[p].todo = pub[p].todo \ {c}
        /\ \A q \in Publisher : /\ pub'[q].event = pub[q].event
                                /\ pub'[q].slow = pub[q].slow /\ pub'[q].pc = pub[q].pc
        /\ \A q \in Publisher \ {p} : pub'[q].todo = pub[q].todo
    BY <1>1, <2>1, Zenon DEF HubShape, CallType
  <2>3. t \in Seq(Item) /\ Range(t) = Range(channel[c]) \cup {e}
    BY <1>2, <1>3, AppendFacts
  <2>4. view[c] \o t = Append(Feed(c), e)
    BY <1>2, <1>3, ConcatAppend, Zenon DEF Feed
  <2>5. Ordered(view[c] \o t)
    <3>1. \A d \in Range(Feed(c)) : d.by = e.by => Precedes(d, e)
      BY <1>1, <1>2 DEF FeedOrder
    <3>2. Ordered(Feed(c))
      BY <1>1 DEF FeedOrder
    <3> HIDE DEF e, t
    <3>3. Ordered(Append(Feed(c), e))
      BY ONLY <1>2, <1>3, <3>1, <3>2, AppendOrdered
    <3> QED BY ONLY <2>4, <3>3
  <2>6. \A q \in Publisher : SlowShape(q)'
    BY <1>1, <1>2, <2>1, <2>2 DEF CallShape, SlowShape, Offer
  <2>7. e \in Range(t) /\ Range(channel[c]) \subseteq Range(t) /\ c \notin pub'[p].todo
    BY <2>2, <2>3
  <2> HIDE DEF t
  <2> QED BY <1>2, <2>1, <2>2, <2>3, <2>5, <2>6, <2>7, ServeInv, Zenon
<1>5. CASE ~HasRoom(c)
  <2>1. /\ channel' = channel /\ overflown' = overflown \cup {c}
        /\ pub' = [pub EXCEPT ![p].pc = "pop", ![p].slow = {c}]
    BY <1>5 DEF Offer
  <2>2. /\ pub' \in [Publisher -> CallType] /\ pub'[p].slow = {c} /\ pub'[p].pc = "pop"
        /\ \A q \in Publisher : pub'[q].event = pub[q].event /\ pub'[q].todo = pub[q].todo
        /\ \A q \in Publisher \ {p} : pub'[q].slow = pub[q].slow /\ pub'[q].pc = pub[q].pc
    BY <1>1, <2>1, Zenon DEF HubShape, CallType
  <2>3. channel' = [channel EXCEPT ![c] = channel[c]]
    BY <1>1, <2>1 DEF HubShape
  <2>4. Ordered(view[c] \o channel[c])
    BY <1>1 DEF FeedOrder, Feed
  <2>5. \A q \in Publisher : SlowShape(q)'
    BY <1>1, <1>2, <2>1, <2>2 DEF CallShape, SlowShape
  <2> QED BY <1>2, <1>3, <2>1, <2>2, <2>3, <2>4, <2>5, ServeInv, Zenon
<1> QED BY <1>4, <1>5

\* What is left of a sequence without its head.
LEMMA TailFacts ==
  ASSUME NEW s \in Seq(Item), NEW t \in Seq(Item), t # <<>>, Ordered(s \o t)
  PROVE  /\ Tail(t) \in Seq(Item) /\ Range(Tail(t)) \subseteq Range(t)
         /\ Ordered(s \o Tail(t))
<1> DEFINE u == Tail(t)
           m == Len(s)
           a == s \o t
           b == s \o u
<1>1. /\ u \in Seq(Item) /\ Len(u) = Len(t) - 1 /\ Len(t) \in Nat /\ m \in Nat
      /\ \A i \in 1 .. Len(u) : u[i] = t[i + 1]
      /\ DOMAIN u = 1 .. Len(u) /\ DOMAIN t = 1 .. Len(t) /\ Len(u) \in Nat
  BY HeadTailProperties, LenProperties
<1>2. Range(u) \subseteq Range(t)
  <2>1. \A i \in DOMAIN u : i + 1 \in DOMAIN t
    BY <1>1
  <2> QED BY <1>1, <2>1 DEF Range
<1>3. /\ DOMAIN a = 1 .. (m + Len(t)) /\ DOMAIN b = 1 .. (m + Len(u))
      /\ \A i \in 1 .. (m + Len(t)) : a[i] = IF i <= m THEN s[i] ELSE t[i - m]
      /\ \A i \in 1 .. (m + Len(u)) : b[i] = IF i <= m THEN s[i] ELSE u[i - m]
  <2>1. ASSUME NEW v \in Seq(Item)
        PROVE  /\ DOMAIN (s \o v) = 1 .. (Len(s) + Len(v))
               /\ \A i \in 1 .. (Len(s) + Len(v)) :
                    (s \o v)[i] = IF i <= Len(s) THEN s[i] ELSE v[i - Len(s)]
    BY ConcatProperties, LenProperties
  <2> QED BY ONLY <1>1, <2>1, t \in Seq(Item), Zenon
<1> DEFINE at(i) == IF i <= m THEN i ELSE i + 1
<1> HIDE DEF a, b, u, m
<1> DEFINE n == Len(t)
           k == Len(u)
<1>0. m \in Nat /\ n \in Nat /\ k \in Nat /\ k = n - 1
  BY <1>1
<1> HIDE DEF n, k
<1>4. ASSUME NEW i \in DOMAIN b PROVE at(i) \in DOMAIN a /\ b[i] = a[at(i)]
  <2>1. i \in 1 .. (m + k)
    BY <1>3, Zenon DEF k
  <2>2. at(i) \in 1 .. (m + Len(t))
    <3>1. at(i) \in 1 .. (m + n)
      BY ONLY <1>0, <2>1
    <3> QED BY ONLY <3>1 DEF n
  <2>3. CASE i <= m
    BY <1>3, <2>2, <2>3
  <2>4. CASE i > m
    <3>1. i - m \in 1 .. Len(u) /\ at(i) = i + 1 /\ (i + 1) - m = (i - m) + 1 /\ ~(i + 1 <= m)
      <4>1. i - m \in 1 .. k /\ at(i) = i + 1 /\ (i + 1) - m = (i - m) + 1 /\ ~(i + 1 <= m)
        BY ONLY <1>0, <2>1, <2>4
      <4> QED BY ONLY <4>1 DEF k
    <3>2. b[i] = t[(i - m) + 1]
      BY <1>1, <1>3, <2>4, <3>1, Zenon
    <3>3. a[i + 1] = t[(i + 1) - m]
      BY <1>3, <2>2, <3>1
    <3> QED BY <1>3, <2>2, <3>1, <3>2, <3>3
  <2>5. i <= m \/ i > m
    BY ONLY <1>0, <2>1
  <2> QED BY <2>3, <2>4, <2>5, Zenon
<1>5. ASSUME NEW i \in DOMAIN b, NEW j \in DOMAIN b, i < j PROVE at(i) < at(j)
  <2>1. i \in 1 .. (m + k) /\ j \in 1 .. (m + k)
    BY <1>3, Zenon DEF k
  <2> QED BY ONLY <1>0, <1>5, <2>1
<1> HIDE DEF at
<1>6. Ordered(b)
  BY <1>4, <1>5 DEF Ordered, a
<1> QED BY <1>1, <1>2, <1>6 DEF u, b

\* The second select gives up the head (events.go:80-82).
LEMMA PopInv ==
  ASSUME FeedInv, NEW p \in Publisher, NEW c \in Client, Pop(p, c)
  PROVE  FeedInv'
<1> DEFINE t == IF channel[c] = <<>> THEN channel[c] ELSE Tail(channel[c])
<1>1. HubShape /\ CallShape /\ FeedOrder
  BY Zenon DEF FeedInv
<1>2. /\ UNCHANGED <<now, logVars, buffer, client, view, owed, accepted>>
      /\ overflown' = overflown /\ c \in pub[p].slow
      /\ pub' = [pub EXCEPT ![p].pc = "retry"]
  BY DEF Pop
<1>3. channel' = [channel EXCEPT ![c] = t]
  BY <1>1 DEF Pop, HubShape
<1>4. /\ pub' \in [Publisher -> CallType]
      /\ \A q \in Publisher : /\ pub'[q].event = pub[q].event
                              /\ pub'[q].slow = pub[q].slow /\ pub'[q].todo = pub[q].todo
      /\ pub'[p].pc = "retry" /\ \A q \in Publisher \ {p} : pub'[q].pc = pub[q].pc
  BY <1>1, <1>2, Zenon DEF HubShape, CallType
<1>5. \A q \in Publisher : SlowShape(q)'
  BY <1>1, <1>2, <1>4 DEF CallShape, SlowShape
<1>6. c \in overflown'
  BY <1>1, <1>2 DEF CallShape, SlowShape
<1>7. view[c] \in Seq(Item) /\ channel[c] \in Seq(Item)
  BY <1>1, ClientFields
<1>8. Ordered(view[c] \o channel[c]) /\ (client[c] = "new" => channel[c] = <<>>)
  BY <1>1 DEF FeedOrder, Feed
<1>9. t \in Seq(Item) /\ Range(t) \subseteq Range(channel[c]) /\ Ordered(view[c] \o t)
  BY <1>7, <1>8, TailFacts
<1>10. client[c] = "new" => t = <<>>
  BY <1>8
<1> HIDE DEF t
<1> QED BY <1>2, <1>3, <1>4, <1>5, <1>6, <1>9, <1>10, ServeInv, Zenon

\* The third select sends or gives the event up (events.go:83-87).
LEMMA RetryInv ==
  ASSUME FeedInv, NEW p \in Publisher, NEW c \in Client, Retry(p, c)
  PROVE  FeedInv'
<1> DEFINE e == pub[p].event
           t == IF HasRoom(c) THEN Append(channel[c], e) ELSE channel[c]
<1>1. HubShape /\ CallShape /\ FeedOrder
  BY Zenon DEF FeedInv
<1>2. /\ UNCHANGED <<now, logVars, buffer, client, view, owed, accepted>>
      /\ overflown' = overflown /\ c \in pub[p].slow /\ c \in pub[p].todo
      /\ pub' = [pub EXCEPT ![p].pc = "offer", ![p].todo = @ \ {c}, ![p].slow = {}]
  BY <1>1 DEF Retry, CallShape, SlowShape
<1>3. channel' = [channel EXCEPT ![c] = t]
  BY <1>1, <1>2, Zenon DEF Retry, Sent, HubShape
<1>4. /\ pub' \in [Publisher -> CallType] /\ pub'[p].todo = pub[p].todo \ {c}
      /\ \A q \in Publisher : pub'[q].event = pub[q].event
      /\ \A q \in Publisher \ {p} : /\ pub'[q].todo = pub[q].todo /\ pub'[q].pc = pub[q].pc
                                    /\ pub'[q].slow = pub[q].slow
      /\ pub'[p].slow = {}
  <2> DEFINE q0 == [pub[p] EXCEPT !.pc = "offer", !.todo = @ \ {c}, !.slow = {}]
  <2>1. pub \in [Publisher -> CallType] /\ pub[p] \in CallType
    BY <1>1 DEF HubShape
  <2>2. pub' = [pub EXCEPT ![p] = q0]
    BY <1>2, Zenon
  <2>3. q0 \in CallType /\ q0.todo = pub[p].todo \ {c} /\ q0.event = pub[p].event /\ q0.slow = {}
    BY ONLY <2>1, Zenon DEF CallType
  <2> HIDE DEF q0
  <2>4. pub' \in [Publisher -> CallType] /\ pub'[p] = q0
    BY ONLY <2>1, <2>2, <2>3
  <2>5. \A q \in Publisher \ {p} : pub'[q] = pub[q]
    BY ONLY <2>1, <2>2
  <2> QED BY ONLY <2>3, <2>4, <2>5
<1>5. \A q \in Publisher : SlowShape(q)'
  BY <1>1, <1>2, <1>4 DEF CallShape, SlowShape
<1>6. c \in overflown' /\ client[c] # "new" /\ e.by = p
  BY <1>1, <1>2 DEF CallShape, SlowShape
<1>7. view[c] \in Seq(Item) /\ channel[c] \in Seq(Item) /\ Feed(c) \in Seq(Item) /\ e \in Item
  BY <1>1, ClientFields, FeedRange, CallFields DEF Feed
<1>8. Ordered(Feed(c)) /\ Feed(c) = view[c] \o channel[c]
  BY <1>1 DEF FeedOrder, Feed
<1>9. \A d \in Range(Feed(c)) : d.by = e.by => Precedes(d, e)
  BY <1>1, <1>2, <1>6 DEF FeedOrder
<1> HIDE DEF e
<1>10. Ordered(Append(Feed(c), e))
  BY ONLY <1>7, <1>8, <1>9, AppendOrdered, Zenon
<1>11. /\ Append(channel[c], e) \in Seq(Item)
       /\ Range(Append(channel[c], e)) = Range(channel[c]) \cup {e}
       /\ view[c] \o Append(channel[c], e) = Append(Feed(c), e)
  <2>1. view[c] \o Append(channel[c], e) = Append(view[c] \o channel[c], e)
    BY ONLY <1>7, ConcatAppend, Zenon
  <2>2. /\ Append(channel[c], e) \in Seq(Item)
        /\ Range(Append(channel[c], e)) = Range(channel[c]) \cup {e}
    BY ONLY <1>7, AppendFacts
  <2> QED BY ONLY <1>8, <2>1, <2>2
<1>12. t \in Seq(Item) /\ Range(t) \subseteq Range(channel[c]) \cup {e} /\ Ordered(view[c] \o t)
  BY <1>7, <1>8, <1>10, <1>11, Zenon
<1>13. c \notin pub'[p].todo
  BY <1>4
<1> HIDE DEF t
<1> QED BY <1>2, <1>3, <1>4, <1>5, <1>6, <1>12, <1>13, ServeInv, Zenon DEF e

-----------------------------------------------------------------------------
\* The critical section of Publish, for an event that its publisher has not
\* published before (events.go:65-72).
LEMMA AcceptInv ==
  ASSUME FeedInv, now \in Nat, NEW e \in Item, Accept(e), pub[e.by].todo = {},
         Precedes(pub[e.by].event, e), e.ts <= now, e.by # Log => e.conn = 0,
         StreamAhead'
  PROVE  FeedInv'
<1> DEFINE b == e.by
           q0 == [pc |-> "offer", event |-> e, todo |-> Live, slow |-> {}]
<1>1. HubShape /\ CallShape /\ BufferOrder /\ FeedOrder /\ Complete /\ RecentKept
  BY Zenon DEF FeedInv
<1>2. /\ buffer' = Append(Pruned(e.ts), e) /\ accepted' = accepted \cup {e}
      /\ owed' = [c \in Client |-> IF c \in Live THEN owed[c] \cup {e} ELSE owed[c]]
      /\ pub' = [pub EXCEPT ![b] = q0]
      /\ UNCHANGED <<now, client, channel, view, overflown>>
  BY DEF Accept
<1>3. b \in Publisher /\ \A d \in Item : d.by \in Publisher /\ d.ts \in Nat
  BY DEF Item
<1>4. Live \subseteq Client /\ \A c \in Live : client[c] # "new"
  BY DEF Live
<1>5. q0 \in CallType
  BY <1>4 DEF CallType
<1>6. /\ pub' \in [Publisher -> CallType] /\ pub'[b] = q0
      /\ \A q \in Publisher \ {b} : pub'[q] = pub[q]
  BY <1>1, <1>2, <1>3, <1>5 DEF HubShape
<1>7. q0.event = e /\ q0.todo = Live /\ q0.slow = {}
  OBVIOUS
<1> HIDE DEF q0
<1>8. /\ Pruned(e.ts) \in Seq(Item) /\ Ordered(Pruned(e.ts))
      /\ Range(Pruned(e.ts)) = {d \in Range(buffer) : ~(d.ts < e.ts - Retention)}
  BY <1>1, PrunedKeeps DEF HubShape, BufferOrder
<1>9. /\ buffer' \in Seq(Item)
      /\ Range(buffer') = Range(Pruned(e.ts)) \cup {e}
  <2>1. /\ Append(Pruned(e.ts), e) \in Seq(Item)
        /\ Range(Append(Pruned(e.ts), e)) = Range(Pruned(e.ts)) \cup {e}
    BY ONLY <1>8, AppendFacts, e \in Item
  <2> QED BY <1>2, <2>1, Zenon
<1>10. Range(buffer) \subseteq Item /\ Range(Pruned(e.ts)) \subseteq Range(buffer)
  BY <1>1, <1>8, RangeOfSeq DEF HubShape
<1>11. ASSUME NEW d \in Item, d.by = b,
              d = pub[d.by].event \/ Precedes(d, pub[d.by].event)
       PROVE  Precedes(d, e)
  <2>1. pub[b].event \in Item
    BY <1>1, <1>3, CallFields
  <2> QED BY <1>11, <2>1, PrecedesTransitive
<1>12. HubShape'
  <2>1. owed' \in [Client -> SUBSET Item]
    BY <1>1, <1>2 DEF HubShape
  <2> QED BY <1>1, <1>2, <1>6, <1>9, <2>1 DEF HubShape
<1>13. CallShape'
  <2> SUFFICES ASSUME NEW p \in Publisher
               PROVE  /\ pub'[p].event.by = p /\ SlowShape(p)'
                      /\ p # Log => pub'[p].event.conn = 0
                      /\ \A c \in pub'[p].todo : client'[c] # "new"
    BY DEF CallShape
  <2>1. CASE p = b
    BY <1>2, <1>4, <1>6, <1>7, <2>1 DEF SlowShape
  <2>2. CASE p # b
    BY <1>1, <1>2, <1>6, <2>2 DEF CallShape, SlowShape
  <2> QED BY <2>1, <2>2
<1>14. BufferOrder'
  <2>1. Ordered(buffer')
    <3>1. \A d \in Range(Pruned(e.ts)) : d.by = e.by => Precedes(d, e)
      BY <1>1, <1>10, <1>11 DEF BufferOrder
    <3>2. Ordered(Append(Pruned(e.ts), e))
      BY ONLY <1>8, <3>1, AppendOrdered, e \in Item
    <3> QED BY <1>2, <3>2
  <2>2. ASSUME NEW d \in Range(buffer')
        PROVE  d = pub'[d.by].event \/ Precedes(d, pub'[d.by].event)
    <3>1. CASE d = e
      BY <1>6, <1>7, <3>1
    <3>2. CASE d # e
      <4>1. d \in Range(buffer) /\ d \in Item
        BY <1>9, <1>10, <3>2
      <4>2. d = pub[d.by].event \/ Precedes(d, pub[d.by].event)
        BY <1>1, <4>1 DEF BufferOrder
      <4> QED BY <1>3, <1>6, <1>7, <1>11, <4>1, <4>2
    <3> QED BY <3>1, <3>2
  <2> QED BY <2>1, <2>2 DEF BufferOrder
<1>15. FeedOrder'
  <2> SUFFICES ASSUME NEW c \in Client, NEW d \in Range(Feed(c))
               PROVE  \/ Precedes(d, pub'[d.by].event)
                      \/ d = pub'[d.by].event /\ c \notin pub'[d.by].todo
    BY <1>1, <1>2 DEF FeedOrder, Feed
  <2>1. d \in Item
    BY <1>1, ClientFields
  <2>2. \/ Precedes(d, pub[d.by].event)
        \/ d = pub[d.by].event /\ c \notin pub[d.by].todo
    BY <1>1 DEF FeedOrder
  <2> QED BY <1>3, <1>6, <1>7, <1>11, <2>1, <2>2
<1>16. Complete'
  <2> SUFFICES ASSUME NEW c \in Client \ overflown, NEW d \in owed'[c]
               PROVE  OnItsWay(c, d)'
    BY <1>2 DEF Complete
  <2> SUFFICES ASSUME d \notin Range(view[c]), d \notin Range(channel[c])
               PROVE  \E q \in Publisher : c \in pub'[q].todo /\ d = pub'[q].event
    BY <1>2, Zenon DEF OnItsWay
  <2>1. (d = e /\ c \in Live) \/ d \in owed[c]
    BY <1>2
  <2>2. CASE d = e /\ c \in Live
    BY <1>3, <1>6, <1>7, <2>2
  <2>3. CASE d \in owed[c]
    <3>1. PICK q \in Publisher : c \in pub[q].todo /\ d = pub[q].event
      BY <1>1, <2>3, Zenon DEF Complete, OnItsWay
    <3>2. q # b
      BY <3>1
    <3> QED BY <1>6, <3>1, <3>2
  <2> QED BY <2>1, <2>2, <2>3
<1>17. RecentKept'
  <2> SUFFICES ASSUME NEW d \in accepted', d.ts >= now - Retention
               PROVE  d \in Range(buffer')
    BY <1>2 DEF RecentKept
  <2>1. CASE d = e
    BY <1>9, <2>1
  <2>2. CASE d \in accepted
    <3>1. d \in Range(buffer) /\ d.ts \in Nat /\ e.ts \in Nat /\ Retention \in Nat
      BY <1>1, <1>3, <2>2, HubAssumption DEF RecentKept, HubShape
    <3>2. d.ts >= now - Retention /\ e.ts <= now /\ now \in Nat
      OBVIOUS
    <3>3. ~(d.ts < e.ts - Retention)
      BY ONLY <3>1, <3>2
    <3> QED BY <1>8, <1>9, <3>1, <3>3
  <2> QED BY <1>2, <2>1, <2>2
<1> QED BY <1>12, <1>13, <1>14, <1>15, <1>16, <1>17, Zenon DEF FeedInv

-----------------------------------------------------------------------------
\* A subscriber starts from the buffer as it is pruned, and no call is sending
\* to it yet (events.go:93-104).
LEMMA SubscribeInv ==
  ASSUME FeedInv, now \in Nat, NEW c \in Client, Subscribe(c)
  PROVE  FeedInv'
<1> DEFINE s == Pruned(now)
<1>1. HubShape /\ CallShape /\ StreamAhead /\ BufferOrder /\ FeedOrder /\ Complete /\ RecentKept
  BY Zenon DEF FeedInv
<1>2. /\ client[c] = "new" /\ client' = [client EXCEPT ![c] = "live"]
      /\ buffer' = s /\ view' = [view EXCEPT ![c] = s]
      /\ owed' = [owed EXCEPT ![c] = Range(s)]
      /\ UNCHANGED <<now, logVars, channel, pub, overflown, accepted>>
  BY DEF Subscribe
<1>3. /\ s \in Seq(Item) /\ Ordered(s)
      /\ Range(s) = {d \in Range(buffer) : ~(d.ts < now - Retention)}
  BY <1>1, PrunedKeeps DEF HubShape, BufferOrder
<1>4. Range(buffer) \subseteq Item
  BY <1>1, RangeOfSeq DEF HubShape
<1> HIDE DEF s
<1>5. Range(s) \subseteq Item
  BY <1>3, <1>4
<1>6. HubShape'
  BY <1>1, <1>2, <1>3, <1>5 DEF HubShape
<1>7. \A d \in Client : d # c => /\ view'[d] = view[d] /\ owed'[d] = owed[d]
                                 /\ client'[d] = client[d]
  BY <1>1, <1>2 DEF HubShape
<1>8. view'[c] = s /\ owed'[c] = Range(s) /\ client'[c] = "live"
  BY <1>1, <1>2 DEF HubShape
<1>9. CallShape'
  <2>1. \A p \in Publisher : pub[p].todo \subseteq Client
    BY <1>1, CallFields
  <2>2. \A p \in Publisher : \A d \in pub[p].todo : client'[d] # "new"
    BY <1>1, <1>7, <1>8, <2>1 DEF CallShape
  <2> QED BY <1>1, <1>2, <2>2 DEF CallShape, SlowShape
<1>10. StreamAhead'
  BY <1>1, <1>2 DEF StreamAhead, logVars
<1>11. BufferOrder'
  BY <1>1, <1>2, <1>3 DEF BufferOrder
<1>12. FeedOrder'
  <2> SUFFICES ASSUME NEW d \in Client
               PROVE  /\ Ordered(Feed(d)')
                      /\ client'[d] = "new" => channel[d] = <<>>
                      /\ \A e \in Range(Feed(d)') :
                           \/ Precedes(e, pub[e.by].event)
                           \/ e = pub[e.by].event /\ d \notin pub[e.by].todo
    BY <1>2 DEF FeedOrder
  <2>1. CASE d # c
    <3>1. Feed(d)' = Feed(d)
      BY <1>2, <1>7, <2>1, ZenonT(20) DEF Feed
    <3> QED BY <1>1, <1>7, <2>1, <3>1 DEF FeedOrder
  <2>2. CASE d = c
    <3>1. channel[c] = <<>>
      BY <1>1, <1>2 DEF FeedOrder
    <3>2. Feed(d)' = s
      BY <1>2, <1>3, <1>8, <2>2, <3>1, ConcatEmptySeq DEF Feed
    <3>3. \A p \in Publisher : c \notin pub[p].todo
      BY <1>1, <1>2 DEF CallShape
    <3>4. \A e \in Item : e.by \in Publisher
      BY DEF Item
    <3>5. \A e \in Range(s) : e = pub[e.by].event \/ Precedes(e, pub[e.by].event)
      BY <1>1, <1>3 DEF BufferOrder
    <3> QED BY <1>3, <1>5, <1>8, <2>2, <3>2, <3>3, <3>4, <3>5
  <2> QED BY <2>1, <2>2
<1>13. Complete'
  <2> SUFFICES ASSUME NEW d \in Client \ overflown, NEW e \in owed'[d]
               PROVE  OnItsWay(d, e)'
    BY <1>2 DEF Complete
  <2>1. CASE d = c
    <3>1. e \in Range(view'[d])
      BY <1>8, <2>1
    <3> QED BY ONLY <3>1, Zenon DEF OnItsWay
  <2>2. CASE d # c
    <3>1. view'[d] = view[d] /\ e \in owed[d] /\ channel' = channel /\ pub' = pub
      BY <1>2, <1>7, <2>2
    <3>2. OnItsWay(d, e)
      BY <1>1, <3>1 DEF Complete
    <3> QED BY ONLY <3>1, <3>2, Zenon DEF OnItsWay
  <2> QED BY <2>1, <2>2
<1>14. RecentKept'
  <2> SUFFICES ASSUME NEW d \in accepted, d.ts >= now - Retention
               PROVE  d \in Range(s)
    BY <1>2 DEF RecentKept
  <2>1. d \in Range(buffer) /\ d.ts \in Nat /\ Retention \in Nat
    BY <1>1, HubAssumption DEF RecentKept, HubShape, Item
  <2>2. d.ts >= now - Retention /\ now \in Nat
    OBVIOUS
  <2>3. ~(d.ts < now - Retention)
    BY ONLY <2>1, <2>2
  <2> QED BY <1>3, <2>1, <2>3, Zenon
<1> QED BY <1>6, <1>9, <1>10, <1>11, <1>12, <1>13, <1>14, Zenon DEF FeedInv

\* What a connection is written comes from the front of its channel
\* (events.go:156-163).
LEMMA ReceiveInv ==
  ASSUME FeedInv, NEW c \in Client, Receive(c)
  PROVE  FeedInv'
<1> DEFINE h == Head(channel[c])
           u == Tail(channel[c])
<1>1. HubShape /\ CallShape /\ StreamAhead /\ BufferOrder /\ FeedOrder /\ Complete /\ RecentKept
  BY Zenon DEF FeedInv
<1>2. /\ client[c] = "live" /\ channel[c] # <<>>
      /\ view' = [view EXCEPT ![c] = Append(view[c], h)]
      /\ channel' = [channel EXCEPT ![c] = u]
      /\ UNCHANGED <<now, logVars, buffer, client, pub, owed, overflown, accepted>>
  BY <1>1 DEF Receive, HubShape
<1>3. view[c] \in Seq(Item) /\ channel[c] \in Seq(Item)
  BY <1>1, ClientFields
<1>4. /\ h \in Item /\ u \in Seq(Item)
      /\ Append(view[c], h) \o u = view[c] \o channel[c]
      /\ Range(channel[c]) = {h} \cup Range(u)
  BY <1>2, <1>3, ConcatHead, Zenon
<1> HIDE DEF h, u
<1>5. Append(view[c], h) \in Seq(Item) /\ Range(Append(view[c], h)) = Range(view[c]) \cup {h}
  BY ONLY <1>3, <1>4, AppendFacts
<1>6. /\ view' \in [Client -> Seq(Item)] /\ channel' \in [Client -> Seq(Item)]
      /\ view'[c] = Append(view[c], h) /\ channel'[c] = u
      /\ \A d \in Client : d # c => view'[d] = view[d] /\ channel'[d] = channel[d]
  BY <1>1, <1>2, <1>4, <1>5 DEF HubShape
<1>7. HubShape'
  BY <1>1, <1>2, <1>6 DEF HubShape
<1>8. CallShape' /\ StreamAhead' /\ BufferOrder' /\ RecentKept'
  BY <1>1, <1>2 DEF CallShape, SlowShape, StreamAhead, BufferOrder, RecentKept, logVars
<1>9. \A d \in Client : Feed(d)' = Feed(d)
  BY <1>4, <1>6, Zenon DEF Feed
<1>10. \A d \in Client : client[d] = "new" => channel'[d] = <<>>
  BY <1>1, <1>2, <1>6, ZenonT(20) DEF FeedOrder
<1>11. FeedOrder'
  BY <1>1, <1>2, <1>9, <1>10, Zenon DEF FeedOrder
<1>12. \A d \in Client : Range(view'[d]) \cup Range(channel'[d])
                           = Range(view[d]) \cup Range(channel[d])
  BY <1>4, <1>5, <1>6, Zenon
<1>13. Complete'
  <2> SUFFICES ASSUME NEW d \in Client \ overflown, NEW e \in owed[d]
               PROVE  OnItsWay(d, e)'
    BY <1>2, Zenon DEF Complete
  <2>1. OnItsWay(d, e)
    BY <1>1, Zenon DEF Complete
  <2>2. e \in Range(view[d]) \cup Range(channel[d])
          => e \in Range(view'[d]) \/ e \in Range(channel'[d])
    BY <1>12, Zenon
  <2> QED BY ONLY <1>2, <2>1, <2>2, Zenon DEF OnItsWay
<1> QED BY <1>7, <1>8, <1>11, <1>13, Zenon DEF FeedInv

\* A client that has left is still sent what its channel was copied for.
LEMMA LeaveInv ==
  ASSUME FeedInv, NEW c \in Client, Leave(c)
  PROVE  FeedInv'
<1>1. HubShape /\ CallShape /\ StreamAhead /\ BufferOrder /\ FeedOrder /\ Complete /\ RecentKept
  BY Zenon DEF FeedInv
<1>2. /\ client[c] = "live" /\ client' = [client EXCEPT ![c] = "gone"]
      /\ UNCHANGED <<now, logVars, buffer, channel, pub, view, owed, overflown, accepted>>
  BY DEF Leave
<1>3. /\ client' \in [Client -> {"new", "live", "gone"}]
      /\ \A d \in Client : client'[d] = "new" <=> client[d] = "new"
  BY <1>1, <1>2 DEF HubShape
<1>4. HubShape' /\ StreamAhead' /\ BufferOrder' /\ Complete' /\ RecentKept'
  <2>1. HubShape'
    BY ONLY <1>1, <1>2, <1>3 DEF HubShape
  <2>2. StreamAhead'
    BY ONLY <1>1, <1>2 DEF StreamAhead, logVars
  <2>3. BufferOrder' /\ RecentKept'
    BY ONLY <1>1, <1>2 DEF BufferOrder, RecentKept
  <2>4. Complete'
    <3>1. \A d, e : OnItsWay(d, e) => OnItsWay(d, e)'
      BY ONLY <1>2, Zenon DEF OnItsWay
    <3> QED BY ONLY <1>1, <1>2, <3>1 DEF Complete
  <2> QED BY ONLY <2>1, <2>2, <2>3, <2>4
<1>5. CallShape'
  <2>1. \A p \in Publisher : pub[p].todo \subseteq Client
    BY <1>1, CallFields
  <2>2. \A p \in Publisher : SlowShape(p)'
    BY ONLY <1>1, <1>2 DEF CallShape, SlowShape
  <2> QED BY ONLY <1>1, <1>2, <1>3, <2>1, <2>2 DEF CallShape
<1>6. FeedOrder'
  BY <1>1, <1>2, <1>3 DEF FeedOrder, Feed
<1> QED BY <1>4, <1>5, <1>6, Zenon DEF FeedInv

-----------------------------------------------------------------------------
\* The log, the stream between two lines, and the clock leave the hub alone.
LEMMA QuietInv ==
  ASSUME FeedInv, UNCHANGED hubVars, now \in Nat, now' \in Nat, now <= now', StreamAhead'
  PROVE  FeedInv'
<1>1. HubShape /\ CallShape /\ BufferOrder /\ FeedOrder /\ Complete /\ RecentKept
  BY Zenon DEF FeedInv
<1>2. HubShape' /\ CallShape' /\ BufferOrder' /\ FeedOrder' /\ Complete'
  <2>1. UNCHANGED <<buffer, client, channel, pub, view, owed, overflown, accepted>>
    BY DEF hubVars
  <2>2. HubShape'
    BY ONLY <1>1, <2>1 DEF HubShape
  <2>3. CallShape'
    BY ONLY <1>1, <2>1 DEF CallShape, SlowShape
  <2>4. BufferOrder'
    BY ONLY <1>1, <2>1 DEF BufferOrder
  <2>5. Complete'
    <3>1. \A d, e : OnItsWay(d, e) => OnItsWay(d, e)'
      BY ONLY <2>1, Zenon DEF OnItsWay
    <3> QED BY ONLY <1>1, <2>1, <3>1 DEF Complete
  <2>6. FeedOrder'
    BY ONLY <1>1, <2>1 DEF FeedOrder, Feed
  <2> QED BY ONLY <2>2, <2>3, <2>4, <2>5, <2>6
<1>3. RecentKept'
  <2> SUFFICES ASSUME NEW d \in accepted, d.ts >= now' - Retention
               PROVE  d \in Range(buffer)
    BY DEF RecentKept, hubVars
  <2>1. d.ts \in Nat /\ Retention \in Nat
    BY <1>1, HubAssumption DEF HubShape, Item
  <2>2. now \in Nat /\ now' \in Nat /\ now <= now' /\ d.ts >= now' - Retention
    OBVIOUS
  <2>3. d.ts >= now - Retention
    BY ONLY <2>1, <2>2
  <2> QED BY <1>1, <2>3, Zenon DEF RecentKept
<1> QED BY <1>2, <1>3, Zenon DEF FeedInv

\* A handler numbers its events (scenarios and reset).
LEMMA PublishInv ==
  ASSUME IInv, FeedInv, NEW p \in Publisher, Publish(p)
  PROVE  FeedInv'
<1>1. HubShape /\ CallShape /\ StreamAhead /\ now \in Nat
  BY Zenon DEF FeedInv, IInv, LogShape
<1>2. PICK ts \in Recently :
        Accept([by |-> p, conn |-> 0, seq |-> pub[p].event.seq + 1, ts |-> ts])
  BY DEF Publish
<1> DEFINE e == [by |-> p, conn |-> 0, seq |-> pub[p].event.seq + 1, ts |-> ts]
<1>3. p # Log /\ pub[p].todo = {} /\ UNCHANGED logVars
  BY DEF Publish
<1>4. pub[p].event \in Item /\ pub[p].event.conn = 0
  BY <1>1, <1>3, CallFields DEF CallShape
<1>5. ts \in Nat /\ ts <= now
  <2>1. now \in Nat /\ MaxDelay \in Nat /\ ts \in now - MaxDelay .. now /\ ts >= 0
    BY <1>1, HubAssumption DEF Recently
  <2> QED BY ONLY <2>1
<1>6. e \in Item /\ e.by = p /\ e.conn = 0 /\ e.ts = ts /\ Precedes(pub[p].event, e)
  <2> DEFINE n == pub[p].event.seq
  <2>1. n \in Nat
    BY <1>4 DEF Item
  <2> HIDE DEF n
  <2>2. n + 1 \in Nat /\ n < n + 1 /\ 0 \in Nat
    BY ONLY <2>1
  <2>3. p \in Publisher /\ e.seq = n + 1
    BY DEF n
  <2>4. e \in Item /\ e.by = p /\ e.conn = 0 /\ e.ts = ts
    BY ONLY <1>5, <2>2, <2>3 DEF Item, n
  <2>5. Precedes(pub[p].event, e)
    BY ONLY <1>4, <2>2, <2>3, <2>4 DEF Precedes, n
  <2> QED BY <2>4, <2>5, Zenon
<1> HIDE DEF e
<1>7. Accept(e)
  BY <1>2 DEF e
<1>8. pub'[Log] = pub[Log]
  BY <1>1, <1>3, <1>6, <1>7, HubAssumption, ZenonT(20) DEF Accept, HubShape
<1>9. StreamAhead'
  BY <1>1, <1>3, <1>8 DEF StreamAhead, logVars
<1> QED BY <1>1, <1>3, <1>5, <1>6, <1>7, <1>9, AcceptInv

\* A line is published as an event with a number of its own (events.go:199-216).
LEMMA ReadLineInv ==
  ASSUME IInv, FeedInv, ReadLine
  PROVE  FeedInv'
<1> DEFINE i == stream.pos + 1
           e == [by |-> Log, conn |-> stream.conn, seq |-> i, ts |-> log[i].ts]
<1>1. HubShape /\ CallShape /\ StreamAhead /\ now \in Nat
  BY Zenon DEF FeedInv, IInv, LogShape
<1>2. stream \in StreamType /\ stream.pos \in Nat /\ stream.conn \in Nat
  BY DEF IInv, StreamShape, StreamType
<1>3. /\ i <= Len(log) /\ pub[Log].todo = {}
      /\ stream'.pos = i /\ stream'.conn = stream.conn
  BY <1>2 DEF ReadLine, StreamType
<1>4. i \in DOMAIN log /\ i \in 1 .. Len(log)
  <2>1. Len(log) \in Nat /\ DOMAIN log = 1 .. Len(log)
    BY LenProperties DEF IInv, LogShape
  <2>2. i \in Nat /\ i >= 1
    BY ONLY <1>2
  <2> QED BY ONLY <1>3, <2>1, <2>2
<1>5. log[i].ts \in Nat /\ log[i].ts <= now
  <2>1. log[i].ts \in Nat /\ log[i].at \in Nat
    BY <1>4, LineFields DEF IInv
  <2>2. log[i].ts <= log[i].at /\ log[i].at <= now
    BY <1>4 DEF IInv, LogShape
  <2> HIDE DEF i
  <2> QED BY ONLY <1>1, <2>1, <2>2
<1>6. Log \in Publisher /\ pub[Log].event \in Item
  BY <1>1, HubAssumption, CallFields
<1> DEFINE d == pub[Log].event
<1>7. d.conn \in Nat /\ d.seq \in Nat
  BY <1>6 DEF Item
<1>8. d.conn < stream.conn \/ (d.conn = stream.conn /\ d.seq <= stream.pos)
  BY <1>1, Zenon DEF StreamAhead
<1>9. /\ i \in Nat /\ i <= i
      /\ d.conn < stream.conn \/ (d.conn = stream.conn /\ d.seq < i)
      /\ d.conn < stream.conn \/ (d.conn = stream.conn /\ d.seq <= i)
  <2> HIDE DEF d
  <2> QED BY ONLY <1>2, <1>7, <1>8
<1> HIDE DEF i
<1>10. e \in Item /\ e.by = Log /\ e.conn = stream.conn /\ e.ts = log[i].ts /\ e.seq = i
  BY ONLY <1>2, <1>5, <1>6, <1>9 DEF Item
<1> HIDE DEF e
<1>11. Precedes(d, e)
  BY ONLY <1>9, <1>10, Zenon DEF Precedes
<1>12. CASE Accept(e)
  <2>1. pub'[Log].event = e
    BY <1>1, <1>6, <1>10, <1>12 DEF Accept, HubShape
  <2>2. e.conn = stream'.conn /\ e.seq <= stream'.pos
    BY ONLY <1>3, <1>9, <1>10
  <2>3. StreamAhead'
    BY ONLY <2>1, <2>2, Zenon DEF StreamAhead
  <2> QED BY <1>1, <1>3, <1>5, <1>10, <1>11, <1>12, <2>3, AcceptInv, Zenon
<1>13. CASE UNCHANGED <<now, hubVars>>
  <2>1. now' = now /\ UNCHANGED hubVars /\ pub' = pub
    BY <1>13 DEF hubVars
  <2>2. StreamAhead'
    BY ONLY <1>3, <1>9, <2>1, Zenon DEF StreamAhead
  <2>3. now' \in Nat /\ now <= now'
    BY ONLY <1>1, <2>1
  <2> QED BY <1>1, <2>1, <2>2, <2>3, QuietInv, Zenon
<1> QED BY <1>12, <1>13, Zenon DEF ReadLine, e, i

\* The steps of the log and the stream that publish nothing.
LEMMA StreamInv ==
  ASSUME IInv, FeedInv, Write \/ StartStream \/ Connect \/ Break \/ Tick
  PROVE  FeedInv'
<1>1. StreamAhead /\ HubShape /\ now \in Nat /\ UNCHANGED hubVars
  BY DEF FeedInv, IInv, LogShape, Write, StartStream, Connect, Break, Tick
<1>2. now' \in Nat /\ now <= now'
  BY <1>1 DEF Write, StartStream, Connect, Break, Tick
<1>3. stream \in StreamType /\ stream.conn \in Nat
  BY DEF IInv, StreamShape, StreamType
<1>4. \/ stream'.conn = stream.conn /\ stream'.pos = stream.pos
      \/ stream'.conn = stream.conn + 1
  BY <1>3, Zenon DEF StreamType, Write, StartStream, Connect, Break, Tick, logVars
<1>5. pub[Log].event \in Item /\ pub' = pub
  BY <1>1, HubAssumption, CallFields DEF hubVars
<1>6. StreamAhead'
  <2> DEFINE d == pub[Log].event
  <2>1. d.conn \in Nat
    BY <1>5 DEF Item
  <2>2. d.conn < stream.conn \/ (d.conn = stream.conn /\ d.seq <= stream.pos)
    BY <1>1, Zenon DEF StreamAhead
  <2> HIDE DEF d
  <2>3. d.conn < stream'.conn \/ (d.conn = stream'.conn /\ d.seq <= stream'.pos)
    BY ONLY <1>3, <1>4, <2>1, <2>2
  <2> QED BY ONLY <1>5, <2>3, Zenon DEF StreamAhead, d
<1> QED BY <1>1, <1>2, <1>6, QuietInv, Zenon

-----------------------------------------------------------------------------
LEMMA InitFeed == Init => FeedInv
<1> SUFFICES ASSUME Init PROVE FeedInv
  OBVIOUS
<1>1. /\ <<>> \in Seq(Item) /\ DOMAIN <<>> = {}
  BY EmptySeq
<1>2. Range(<<>>) = {} /\ Ordered(<<>>)
  BY <1>1 DEF Range, Ordered
<1>3. /\ buffer = <<>> /\ accepted = {} /\ overflown = {} /\ stream.conn = 0 /\ stream.pos = 0
      /\ \A c \in Client : /\ view[c] = <<>> /\ channel[c] = <<>>
                           /\ owed[c] = {} /\ client[c] = "new"
  BY DEF Init
<1>4. \A p \in Publisher : NoEvent(p) \in Item /\ NoEvent(p).by = p /\ NoEvent(p).conn = 0
                           /\ NoEvent(p).seq = 0
  BY DEF NoEvent, Item
<1>5. \A p \in Publisher : /\ pub[p].pc = "offer" /\ pub[p].event = NoEvent(p)
                           /\ pub[p].todo = {} /\ pub[p].slow = {}
  BY DEF Init
<1>6. pub \in [Publisher -> CallType]
  BY <1>4 DEF Init, CallType
<1>7. HubShape
  BY <1>1, <1>6 DEF Init, HubShape
<1>8. CallShape
  <2>1. \A p \in Publisher : SlowShape(p)
    BY ONLY <1>5 DEF SlowShape
  <2> QED BY ONLY <1>4, <1>5, <2>1 DEF CallShape
<1>9. StreamAhead
  <2>1. /\ pub[Log].event.conn = 0 /\ pub[Log].event.seq = 0
        /\ stream.conn = 0 /\ stream.pos = 0
    BY <1>3, <1>4, <1>5, HubAssumption
  <2>2. 0 <= 0
    OBVIOUS
  <2> QED BY ONLY <2>1, <2>2 DEF StreamAhead
<1>10. BufferOrder
  BY <1>2, <1>3 DEF BufferOrder
<1>11. FeedOrder
  <2>1. \A c \in Client : Feed(c) = <<>>
    BY <1>1, <1>3, ConcatEmptySeq DEF Feed
  <2> QED BY <1>2, <1>3, <2>1 DEF FeedOrder
<1>12. Complete /\ RecentKept
  BY <1>3 DEF Complete, RecentKept
<1> QED BY <1>7, <1>8, <1>9, <1>10, <1>11, <1>12 DEF FeedInv

LEMMA NextFeed == IInv /\ FeedInv /\ [Next]_vars => FeedInv'
<1> SUFFICES ASSUME IInv, FeedInv, [Next]_vars PROVE FeedInv'
  OBVIOUS
<1>1. now \in Nat
  BY DEF IInv, LogShape
<1>2. CASE UNCHANGED vars
  <2>1. now' = now /\ UNCHANGED hubVars /\ stream' = stream /\ pub' = pub
    BY <1>2 DEF vars, logVars, hubVars
  <2>2. StreamAhead'
    BY <2>1 DEF FeedInv, StreamAhead
  <2>3. now' \in Nat /\ now <= now'
    BY ONLY <1>1, <2>1
  <2> QED BY <1>1, <2>1, <2>2, <2>3, QuietInv, Zenon
<1>3. ASSUME NEW p \in Publisher, Call(p) PROVE FeedInv'
  BY <1>3, PublishInv, OfferInv, PopInv, RetryInv DEF Call
<1>4. ASSUME NEW c \in Client, Subscribe(c) \/ Receive(c) \/ Leave(c) PROVE FeedInv'
  BY <1>1, <1>4, SubscribeInv, ReceiveInv, LeaveInv
<1>5. CASE Write \/ StartStream \/ Connect \/ ReadLine \/ Break \/ Tick
  BY <1>5, StreamInv, ReadLineInv
<1> QED BY <1>2, <1>3, <1>4, <1>5 DEF Next

\* Order, completeness and retention hold together in every reachable state.
THEOREM FeedInvariant == Spec => []FeedInv
BY InitFeed, NextFeed, StreamInvariant, PTL DEF Spec

\* On every connection the events of one publisher come in the order in which
\* they were published and none comes twice on one connection of the log
\* stream (events.go:68-89,140-163), for any number of publishers and clients.
THEOREM OrderSafety == Spec => []InOrderOnce
<1>1. FeedInv => InOrderOnce
  BY Zenon DEF FeedInv, FeedOrder, Feed, Ordered, Precedes, InOrderOnce
<1> QED BY <1>1, FeedInvariant, PTL

\* A connection whose channel was never found full misses no event: Publish
\* copies the clients in the critical section in which it appends the event, and
\* Subscribe takes its snapshot in the one in which it registers the channel.
THEOREM DeliverySafety == Spec => []NothingLost
<1>1. FeedInv => NothingLost
  <2> SUFFICES ASSUME FeedInv, NEW c \in Client \ overflown, NEW e \in owed[c]
               PROVE  e \in Range(view[c]) \cup Range(channel[c])
                         \cup {pub[p].event : p \in {q \in Publisher : c \in pub[q].todo}}
    BY Zenon DEF NothingLost
  <2>1. OnItsWay(c, e)
    BY Zenon DEF FeedInv, Complete
  <2> QED BY ONLY <2>1, Zenon DEF OnItsWay
<1> QED BY <1>1, FeedInvariant, PTL

\* The buffer still holds every event younger than the retention, although
\* each Publish prunes it by the time of its own event (events.go:66,114-124).
THEOREM RetentionSafety == Spec => []RecentKept
<1>1. FeedInv => RecentKept
  BY DEF FeedInv
<1> QED BY <1>1, FeedInvariant, PTL
=============================================================================
