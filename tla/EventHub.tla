------------------------------- MODULE EventHub -------------------------------
(***************************************************************************)
(* The event feed of the observatory (cmd/observatory/events.go).          *)
(* Publishers (the gateway log stream, the scenario and reset handlers)    *)
(* append to a five-minute buffer under the hub's mutex, and then, without *)
(* it, offer the event to every subscriber's bounded channel; a full       *)
(* channel loses its head to make room.  The log stream follows the        *)
(* gateway's container log and, whenever the daemon breaks it off, asks    *)
(* for the log again from the time of the last event it has parsed.        *)
(***************************************************************************)
EXTENDS Integers, Sequences, FiniteSets, Functions

CONSTANTS
    Publisher,
    Log,        \* the publisher that is the log stream
    Client,     \* SSE connections, each with a channel of its own
    Capacity,   \* of a client channel (256)
    Retention,  \* age up to which the buffer keeps an event (five minutes)
    MaxDelay,   \* between taking an event's time and writing or publishing it
    MaxEvents,  \* bound on the events of a handler
    MaxLines,   \* bound on the lines of the log
    MaxStreams, \* bound on the connections of the log stream
    MaxTime     \* bound on the clock

ASSUME HubAssumption ==
    /\ Capacity \in Nat \ {0}
    /\ {Retention, MaxDelay, MaxEvents, MaxLines, MaxStreams, MaxTime} \subseteq Nat
    /\ Log \in Publisher

VARIABLES
    now,
    log,       \* the gateway's container log, as the daemon keeps it
    stream,    \* streamGatewayEvents: its connection, and the time it resumes at
    handled,   \* history: the lines the stream has parsed
    buffer,    \* EventHub.buffer
    client,    \* per client: "new", "live" (a key of EventHub.clients) or "gone"
    channel,   \* per client: its channel
    pub,       \* per publisher: its current call of Publish
    view,      \* per client: what was written to the connection
    owed,      \* history, per client: its snapshot and every later event
    overflown, \* history: the clients whose channel was once found full
    accepted   \* history: every event appended to the buffer

logVars == <<log, stream, handled>>
hubVars == <<buffer, client, channel, pub, view, owed, overflown, accepted>>
vars == <<now, logVars, hubVars>>

\* A line carries the time the gateway gave it (ts) and the time at which the
\* daemon received it (at).  Events of a "sampled" type are mostly dropped;
\* "other" lines are no events.  The gateway's logger gives every line a time
\* that parses, so that parseEventLine never falls back on the time of reading.
Line == [kind : {"event", "sampled", "other"}, ts : 0 .. MaxTime, at : 0 .. MaxTime]

\* An event of the log has the index of its line, and the connection on which
\* it was read.
Event == [by : Publisher, conn : 0 .. MaxStreams, seq : 1 .. MaxEvents + MaxLines, ts : 0 .. MaxTime]
NoEvent(p) == [by |-> p, conn |-> 0, seq |-> 0, ts |-> 0]

Recently == {t \in now - MaxDelay .. now : t >= 0}

\* A call: the clients still to be served and, when the first send to one of
\* them has found its channel full, that client and the next select.
Init ==
    /\ now = 0 /\ log = <<>> /\ handled = {} /\ buffer = <<>>
    /\ stream = [pc |-> "off", conn |-> 0, pos |-> 0, since |-> 0, start |-> 0]
    /\ client = [c \in Client |-> "new"]
    /\ channel = [c \in Client |-> <<>>]
    /\ pub = [p \in Publisher |->
                [pc |-> "offer", event |-> NoEvent(p), todo |-> {}, slow |-> {}]]
    /\ view = [c \in Client |-> <<>>]
    /\ owed = [c \in Client |-> {}]
    /\ overflown = {} /\ accepted = {}

-----------------------------------------------------------------------------
\* Faulty variant: the boundary of the retention is cut off.
PrunedEarly(at) ==
    LET trimmed[i \in 0 .. Len(buffer)] ==
            IF i = 0 THEN <<>>
            ELSE IF buffer[i].ts <= at - Retention THEN trimmed[i - 1]
            ELSE Append(trimmed[i - 1], buffer[i])
    IN  trimmed[Len(buffer)]

\* pruneLocked(at); trimmed[i] is what its loop keeps of the first i events.
Pruned(at) ==
    LET trimmed[i \in 0 .. Len(buffer)] ==
            IF i = 0 THEN <<>>
            ELSE IF buffer[i].ts < at - Retention THEN trimmed[i - 1]
            ELSE Append(trimmed[i - 1], buffer[i])
    IN  trimmed[Len(buffer)]

Live == {c \in Client : client[c] = "live"}

HasRoom(c) == Len(channel[c]) < Capacity
Sent(c, e) == [channel EXCEPT ![c] = Append(@, e)]

\* The critical section of Publish.  The buffer is pruned by the time of the
\* event, not by the clock.
Accept(e) ==
    /\ buffer' = Append(Pruned(e.ts), e)
    /\ accepted' = accepted \cup {e}
    /\ owed' = [c \in Client |-> IF c \in Live THEN owed[c] \cup {e} ELSE owed[c]]
    /\ pub' = [pub EXCEPT ![e.by] =
                 [pc |-> "offer", event |-> e, todo |-> Live, slow |-> {}]]
    /\ UNCHANGED <<now, client, channel, view, overflown>>

\* A scenario or reset handler publishes a SystemEvent.
Publish(p) ==
    /\ p # Log
    /\ pub[p].todo = {} /\ pub[p].event.seq < MaxEvents
    /\ \E ts \in Recently :
          Accept([by |-> p, conn |-> 0, seq |-> pub[p].event.seq + 1, ts |-> ts])
    /\ UNCHANGED logVars

\* The first select, for the clients in the order of the map.
Offer(p, c) ==
    /\ pub[p].pc = "offer" /\ c \in pub[p].todo
    /\ \/ /\ HasRoom(c)
          /\ channel' = Sent(c, pub[p].event)
          /\ pub' = [pub EXCEPT ![p].todo = @ \ {c}]
          /\ UNCHANGED overflown
       \/ /\ ~HasRoom(c)
          /\ overflown' = overflown \cup {c}
          /\ pub' = [pub EXCEPT ![p].pc = "pop", ![p].slow = {c}]
          /\ UNCHANGED channel
    /\ UNCHANGED <<now, logVars, buffer, client, view, owed, accepted>>

\* The second select takes the head away, unless the client was faster.
Pop(p, c) ==
    /\ pub[p].pc = "pop" /\ c \in pub[p].slow
    /\ channel' = [channel EXCEPT ![c] = IF @ = <<>> THEN @ ELSE Tail(@)]
    /\ pub' = [pub EXCEPT ![p].pc = "retry"]
    /\ UNCHANGED <<now, logVars, buffer, client, view, owed, overflown, accepted>>

\* The third select sends, unless another publisher has taken the room.
Retry(p, c) ==
    /\ pub[p].pc = "retry" /\ c \in pub[p].slow
    /\ channel' = IF HasRoom(c) THEN Sent(c, pub[p].event) ELSE channel
    /\ pub' = [pub EXCEPT ![p].pc = "offer", ![p].todo = @ \ {c}, ![p].slow = {}]
    /\ UNCHANGED <<now, logVars, buffer, client, view, owed, overflown, accepted>>

-----------------------------------------------------------------------------
(* The gateway's log and the stream that follows it *)

\* The gateway writes a line some time after it has taken the time for it.
Write ==
    /\ Len(log) < MaxLines
    /\ \E kind \in {"event", "sampled", "other"}, ts \in Recently :
          log' = Append(log, [kind |-> kind, ts |-> ts, at |-> now])
    /\ UNCHANGED <<now, stream, handled, hubVars>>

\* startBackgroundWorkers: the stream starts with what is written from now on.
StartStream ==
    /\ stream.pc = "off"
    /\ stream' = [stream EXCEPT !.pc = "closed", !.since = now, !.start = now]
    /\ UNCHANGED <<now, log, handled, hubVars>>

\* Faulty variant: the stream resumes at the present.
ConnectAtNow ==
    /\ stream.pc = "closed" /\ stream.conn < MaxStreams
    /\ stream' = [stream EXCEPT !.pc = "open", !.conn = @ + 1,
                    !.pos = Cardinality({i \in DOMAIN log : log[i].at < now})]
    /\ UNCHANGED <<now, log, handled, hubVars>>

\* ContainerLogs with Since: the daemon leaves out what it received earlier.
\* Failing calls and the backoff between two connections change nothing.
Connect ==
    /\ stream.pc = "closed" /\ stream.conn < MaxStreams
    /\ stream' = [stream EXCEPT !.pc = "open", !.conn = @ + 1,
                    !.pos = Cardinality({i \in DOMAIN log : log[i].at < stream.since})]
    /\ UNCHANGED <<now, log, handled, hubVars>>

\* Whether a line is published: shouldSampleEvent draws lots for some types.
ShouldSampleEvent(line) ==
    CASE line.kind = "event" -> {TRUE}
      [] line.kind = "sampled" -> BOOLEAN
      [] line.kind = "other" -> {FALSE}

\* parseEvents up to the next line: since is moved, and then the event is
\* published or sampled out; a line that is no event moves nothing.
ReadLine ==
    LET i == stream.pos + 1 IN
    /\ stream.pc = "open" /\ i <= Len(log)
    /\ pub[Log].todo = {}
    /\ handled' = handled \cup {i}
    /\ stream' = [stream EXCEPT !.pos = i,
                    !.since = IF log[i].kind = "other" THEN @ ELSE log[i].ts]
    /\ \/ /\ TRUE \in ShouldSampleEvent(log[i])
          /\ Accept([by |-> Log, conn |-> stream.conn, seq |-> i, ts |-> log[i].ts])
       \/ FALSE \in ShouldSampleEvent(log[i]) /\ UNCHANGED <<now, hubVars>>
    /\ UNCHANGED log

\* The stream ends between two lines, or within one, whose first part is no
\* JSON and is skipped.
Break ==
    /\ stream.pc = "open" /\ pub[Log].todo = {}
    /\ stream' = [stream EXCEPT !.pc = "closed"]
    /\ UNCHANGED <<now, log, handled, hubVars>>

-----------------------------------------------------------------------------
\* Faulty variant: the snapshot is put into the channel as well.
SubscribeTwice(c) ==
    /\ client[c] = "new"
    /\ client' = [client EXCEPT ![c] = "live"]
    /\ buffer' = Pruned(now)
    /\ view' = [view EXCEPT ![c] = Pruned(now)]
    /\ channel' = [channel EXCEPT ![c] = Pruned(now)]
    /\ owed' = [owed EXCEPT ![c] = Range(Pruned(now))]
    /\ UNCHANGED <<now, logVars, pub, overflown, accepted>>

\* Faulty variant: the snapshot is not written.
SubscribeWithoutReplay(c) ==
    /\ client[c] = "new"
    /\ client' = [client EXCEPT ![c] = "live"]
    /\ buffer' = Pruned(now)
    /\ owed' = [owed EXCEPT ![c] = Range(Pruned(now))]
    /\ UNCHANGED <<now, logVars, channel, pub, view, overflown, accepted>>

\* Subscribe, and the snapshot that handleEvents writes before it reads the
\* channel: nothing else writes to the connection.
Subscribe(c) ==
    /\ client[c] = "new"
    /\ client' = [client EXCEPT ![c] = "live"]
    /\ buffer' = Pruned(now)
    /\ view' = [view EXCEPT ![c] = Pruned(now)]
    /\ owed' = [owed EXCEPT ![c] = Range(Pruned(now))]
    /\ UNCHANGED <<now, logVars, channel, pub, overflown, accepted>>

\* The loop of handleEvents.
Receive(c) ==
    /\ client[c] = "live" /\ channel[c] # <<>>
    /\ view' = [view EXCEPT ![c] = Append(@, Head(channel[c]))]
    /\ channel' = [channel EXCEPT ![c] = Tail(@)]
    /\ UNCHANGED <<now, logVars, buffer, client, pub, owed, overflown, accepted>>

\* The connection ends and the deferred cancel removes the client; publishers
\* that have copied its channel still send to it.
Leave(c) ==
    /\ client[c] = "live"
    /\ client' = [client EXCEPT ![c] = "gone"]
    /\ UNCHANGED <<now, logVars, buffer, channel, pub, view, owed, overflown, accepted>>

Tick ==
    /\ now < MaxTime
    /\ now' = now + 1
    /\ UNCHANGED <<logVars, hubVars>>

Call(p) == Publish(p) \/ \E c \in Client : Offer(p, c) \/ Pop(p, c) \/ Retry(p, c)

Next ==
    \/ \E p \in Publisher : Call(p)
    \/ \E c \in Client : Subscribe(c) \/ Receive(c) \/ Leave(c)
    \/ Write \/ StartStream \/ Connect \/ ReadLine \/ Break
    \/ Tick

Spec == Init /\ [][Next]_vars

-----------------------------------------------------------------------------
\* Types of the variables; no channel holds more than its capacity, and a call
\* deals with a full channel before it goes on (events.go:75-89).
TypeOK ==
    /\ now \in 0 .. MaxTime
    /\ log \in Seq(Line)
    /\ stream \in [pc : {"off", "closed", "open"}, conn : 0 .. MaxStreams,
                  pos : 0 .. Len(log), since : 0 .. MaxTime, start : 0 .. MaxTime]
    /\ handled \subseteq DOMAIN log
    /\ buffer \in Seq(Event)
    /\ client \in [Client -> {"new", "live", "gone"}]
    /\ \A c \in Client : channel[c] \in Seq(Event) /\ Len(channel[c]) <= Capacity
    /\ \A p \in Publisher :
          /\ pub[p].pc \in {"offer", "pop", "retry"}
          /\ pub[p].event \in Event \cup {NoEvent(p)}
          /\ pub[p].slow \subseteq pub[p].todo
          /\ pub[p].todo \subseteq Client

\* A connection sees the events of one publisher in the order it published
\* them and none of them twice, although the snapshot and the channel are filled
\* by different critical sections and sends happen outside the mutex; only a log
\* stream that was broken off goes back, and then as a whole.
InOrderOnce ==
    \A c \in Client :
        LET all == view[c] \o channel[c] IN
        \A i, j \in DOMAIN all :
            (i < j /\ all[i].by = all[j].by) =>
                \/ all[i].conn < all[j].conn
                \/ all[i].conn = all[j].conn /\ all[i].seq < all[j].seq

\* A connection whose channel never filled up misses nothing: each event since
\* the snapshot is written, queued, or about to be sent by its publisher.
NothingLost ==
    \A c \in Client \ overflown :
        owed[c] \subseteq
            Range(view[c]) \cup Range(channel[c])
            \cup {pub[p].event : p \in {q \in Publisher : c \in pub[q].todo}}

\* The buffer holds every event of the last five minutes, so a late subscriber
\* sees them all, if no event has a time that is still to come.
RecentKept ==
    \A e \in accepted : e.ts >= now - Retention => e \in Range(buffer)

\* A line written since the stream was started.
InScope(i) == i \in DOMAIN log /\ stream.pc # "off" /\ log[i].at >= stream.start

\* Resuming at the time inside the last event (events.go:202,215) skips no line:
\* every line written since the start that the stream has passed, or that it
\* would not be given again, has been parsed.  It rests on the time inside a line
\* not being later than the time the daemon received it.
NoLineSkipped ==
    \A i \in DOMAIN log \ handled :
        InScope(i) =>
            IF stream.pc = "open" THEN i > stream.pos ELSE log[i].at >= stream.since
===============================================================================
