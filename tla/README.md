# IronGate: TLA+ models, model checks and proofs

IronGate is an HTTP gateway written in Go with a control service, the
observatory, for load and chaos scenarios. This directory holds TLA+ modules
translated from that source, TLC configurations that check them on small
instances, and TLAPS proofs for arbitrary constants. `PROJECT.json` maps every
definition to the source lines it models, and lists runs, mutants, findings,
hazards and theorems.

    tlasany M.tla                                     # parse
    tlc -workers 2 -config CircuitMetrics.cfg MCCircuitMetrics   # check
    tlapm CircuitMetricsProofs.tla                    # prove

A run is named after its `.cfg`; its module is the `MC` module of the component
(`MCObservatorySafety` for `ObservatorySafety`).

## The system

A request enters `runtime.Manager`, which loads the current snapshot from an
atomic pointer and hands the request to that snapshot's chain:

    Tracing > Router > Metrics > Auth > RateLimiter > Proxy
                                                        |
                  Retry > LoadBalancer > CircuitBreaker > Upstream > Base

The snapshot is fixed for the lifetime of the request. A `Watcher` on the
directory of the configuration file debounces events and makes the manager build
and store a new snapshot; breakers are carried over or cloned. The rate limiter
keeps a sorted set per client in Redis and manipulates it in one Lua script. The
observatory runs at most one scenario at a time (a k6 container and a sequence of
faults), offers stop and reset, and streams the gateway's events, which it reads
from the container log, to browsers.

### Inventory

| Part | State | Operations | What is hard about it |
|---|---|---|---|
| `circuitbreaker/breaker.go` | state, failure times, open-until, half-open slots and successes | Allow, RecordSuccess/Failure/Ignored, State, ForceClose, clone, reconcile | outcomes arrive long after admission, in other periods; slots can leak |
| `circuitbreaker/registry.go` | breakers by target, target states, gauge series | get or create, attach, report, retire, reset | three locks taken one after another; requests of the old snapshot run during a reload |
| `transport/resilient.go`, `retry.go` | tried targets, attempt count, body wrappers | RoundTrip, read, close | retry, refusal, timeout and cancellation in one loop; completion happens in the body |
| `transport/resilient.go`, metrics | counter of openings, gauge of open circuits | record an outcome, sync the gauge | two readings around a recorded failure, and a gauge counted before it is set |
| `loadbalancer/` | counter; credits; connection counts | Select, Done | lock-free counters, stale scans, exclusions |
| `runtime/manager.go`, `watcher.go`, `cmd/gateway/main.go` | snapshot, ready, draining, debounce timer | boot, reload, shutdown, readiness | edits during boot and reload; a full event queue; reload against shutdown |
| `ratelimit/store.go`, `middleware/ratelimit.go` | sorted set and expiry in Redis | Allow, fail-open, Retry-After | stamps taken before delivery; resent and abandoned commands |
| `middleware/`, `proxy/`, `config.go` | in-flight gauge; the request's headers and context | one handler each | identity crosses six handlers; configurations change in between |
| `cmd/observatory/app.go`, `runner.go`, `chaos.go`, `reset.go`, `main.go` | active run, starting flag, statuses, remote faults and containers | start, watch, chaos, stop, reset, close, restart | mutex released around every remote call; cancellation at any point; a daemon that refuses; the end of the process |
| `cmd/observatory/events.go` | ring of recent events, client channels, the stream's point of resumption | Publish, Subscribe, the SSE loop, leave; connect, parse, break off | bounded channels with several publishers; late timestamps; a stream resumed by times |
| `cmd/observatory/app.go`, `api.go`, `scenarios.go` | scenario catalog, demo token, a token bucket per address | load, refresh, admit a request, start a run | the clock is read before the mutex is taken; loading, listing and looking up must agree |

Correctness, in one line each: a breaker opens at its threshold, protects for its
timeout, probes within its budget and closes again; every attempt ends, releases
what it took exactly once and stays within the retry budget; a balancer skips
nobody; an edit is served, and draining is final; the rate limit holds and
Retry-After is honest; the upstream sees the identity of the token; one scenario
at a time, none without an owner, and reset converges; an event stream is in
order and complete until it overflows, and skips no line of the log; what the
console lists can be run, but for names with blanks around them, and no address is
shut out for good.

## Modules

Time is relative in the breakers, the transports and the rate limiter: instead of
clock readings the models keep ages and remaining times, which a `Tick` advances
up to a `Horizon` beyond which values are indistinguishable. That keeps the state
space finite without a last instant. `EventHub` and `Console` compare clock
readings taken at different places and have a clock that stops at `MaxTime`.

| Module | Models | State and actions against the code |
|---|---|---|
| `Breaker` | `breaker.go` | A breaker is a record (`state`, `failures` as ages, `openIn`, `halfOpenInFlight`, `halfOpenSuccesses`); each method is an operator from record to record, since each runs under `b.mu`. |
| `CircuitBreaker` | a breaker and its callers | `Begin` is `Allow`; `Succeed`, `Fail`, `Ignore` are the outcomes, at any later time; `AdminReset` is `ForceClose`. |
| `CircuitMetrics` | the breaker transport around a breaker | Extends `CircuitBreaker`: each call that takes and releases the breaker's mutex (the readings before and after a failure, the count of open circuits) is a step, and so is setting the gauge. |
| `CircuitSpec` | the promise | An abstract closed/open/half-open circuit with a cool-down; implemented by `CircuitBreaker` and `CircuitMetrics` under a refinement mapping. |
| `BreakerReload` | `Clone`, `reconcileLocked`, the swap | Two breakers and attempts that stay with the one of the snapshot they entered. |
| `BreakerRegistry` | `registry.go`, the reload's part in `manager.go` | Every map access, lock and callback report is a step of a request or of the reloading goroutine. |
| `ResilientTransport` | `resilient.go`, `retry.go` | One record per request: tried set, attempt count, phase, target, context. Breakers are `Breaker` records; any balancer is a choice among the candidates. |
| `RoundRobin`, `Weighted`, `LeastConn` | `loadbalancer/` | One step per atomic operation (`RoundRobin`, `LeastConn`), one per critical section (`Weighted`). |
| `LoadBalancer` | `loadbalancer.New` | Composes the three: the strategy of the route is chosen at the start, and only its steps are taken. |
| `HotReload` | `main.go`, `watcher.go`, `manager.go` | Contents are abstract (valid or not, which startup settings). Events of the file and of others share the kernel's queue, which may overflow; `Boot` steps through main, `Reloading` through the watcher, probes read `ready` and `draining` in two steps. |
| `RateLimiter` | `store.go`, `middleware/ratelimit.go` | One bucket. `Execute` is the whole script; `Resend`, `FailOpen` and `ExecuteLate` are what the client library and the network may do. |
| `Gateway` | the outer chain and `config.Validate` | One step per handler; tokens, headers and configurations are small records. A user ID becomes a segment of a Redis key by the function `Segment` (blanks trimmed, braces replaced), which may take two users to one segment. The reverse proxy drops the headers that the request's `Connection` header names. |
| `Observatory` | the scenario controller | A record per run (goroutine, container, chaos sequence); each critical section and each remote call is a step, and a removal may be refused. `Stray` is a request carried out after its sender was cancelled; the process may close, exit or crash, and is restarted beside what it left behind. |
| `EventHub` | `events.go` | `Publish` is the critical section, then `Offer`, `Pop`, `Retry` per client. `Write` is the gateway's log; `Connect`, `ReadLine` and `Break` are `streamGatewayEvents`, which publishes through the same hub. |
| `Console` | the HTTP front of the observatory | `Boot` loads the catalog and logs in, `Refresh` is the token loop; a request reads the clock (`Arrive`), passes the limiter (`Limited`) and is refused or starts a run. |

Composition: `Breaker` is shared by `CircuitBreaker`, `BreakerReload` and
`ResilientTransport`; `CircuitMetrics` puts the transport's bookkeeping around
`CircuitBreaker`. `ResilientTransport` composes retry, balancer, breakers and
request contexts, `LoadBalancer` the three strategies, `Gateway` the outer chain
with reloads, `EventHub` the log stream with the hub and its clients.

External parts (Redis and go-redis, fsnotify, Docker, k6, Toxiproxy, the upstream
services) are modelled by how the code uses them.

Operators whose comment begins with "Faulty variant" are mutants: a plausible bug
of the definition that follows. Each property of each passing run has one that
TLC refutes, which shows that the property depends on the code.

## What the runs show

### Properties that hold

| Run | Bounds | Shows |
|---|---|---|
| `CircuitMetrics` | 2 attempts, threshold 2, 2 successes, timeout 1, window 2, 2 slots | Slots are backed by live probes, a close is never missed, `CircuitSpec` is implemented. A recovered target's circuit closes if there are, again and again, moments without an attempt in flight, and callers do not go on for ever leaving probes. An increment of the counter stands for an opening between the two readings, an undisturbed opening is counted, and the gauge settles when the circuit does. |
| `BreakerReload` | 3 attempts, a reload that shrinks every threshold, two of them to the default | Both breakers stay within their own configuration; the clone keeps the verdict; recovery across a reload, unless the clone copied taken slots or callers go on leaving its probes. |
| `BreakerRegistry` | 2 requests, 2 targets, 1 reload that drops a target | One breaker per target under first-use races and a reload; the gauge agrees with the registry's table, and the table with the breakers. |
| `ResilientTransport` | 2 requests, targets t1, t1, t2, 2 attempts | Connections and slots are released exactly once in every ending; no repetition within a pass; every step of a request brings it nearer to its end. |
| `LoadBalancer` | 2 goroutines, a, b, a, c with weights 3, 1, 0, 2, four exclusion sets, counter modulo 8 | Round robin skips nobody across the wrap-around and is lock-free; weighted selections without exclusions give every target its share in each round, and nobody is ahead of it by a selection in between; least-connections counters are the selections in use, and an undisturbed scan picks the least loaded. |
| `HotReload` | 4 contents, 3 edits, a queue of 2 events, 1 probe | No edit that could raise an event is lost, the last one is served, draining is final. |
| `RateLimiter` | 2 concurrent requests, limit 2, window 3, delay up to 1, 1 resend | At most `Limit` in every window less the delay; Retry-After is honest. |
| `Observatory` | 1 run object used again and again, with three kinds of fault; one stop, one reset handler; refused removals, close, exit, crash, restart | The slot comes back, "stopping" ends, repeated resets end clean. |
| `ObservatorySafety` | the same with 2 run objects and one kind of fault; beside it the console with 1 address, 2 overlapping requests, 2 per 2 ticks, 3 file lists, 3 ticks | One owner of the slot, also when a run claims it while another is being undone; no container without a goroutine that will remove it, unless a removal was refused or the process ended. Bursts are bounded and no address falls into debt although times reach the limiter out of order. A run is the offer that was asked for, within the caps, and an offer that is asked for is granted, unless it is listed only with blanks around its name. |
| `EventHub` | a handler with 1 event, a log of 2 lines on 2 connections, 1 client, capacity 1 | In order and once on a connection; nothing lost before an overflow; recent events kept; a broken and resumed stream skips no line. |
| `Gateway` | 2 requests, 11 messages, 4 valid and 4 invalid configurations | Exact in-flight gauge across reloads, of the requests that were counted on entry; identity and bucket from the right source. |

The module of each run defines or extends a type invariant `TypeOK`. The
configurations leave it out: for `CircuitMetrics` and `HotReload` it is part of the
inductive invariant that is proved, and in the other instances TLC confirms it when
`INVARIANT TypeOK` is added to the configuration.

The console and the scenario controller share no variable. `ObservatorySafety`
therefore explores each of them from their common beginning while the other is at
rest, instead of their product: an invariant of one part holds in the product if it
holds in every behaviour of that part. The liveness of the controller is checked with
one run (`Observatory`); with two the graph is too large.

`GaugeTracksBreakers` speaks of targets that keep their service. With a reload that
moves a target to another service it does not hold: the state is read under `b.mu`
and reported after it is released (`registry.go:160`), and a transition in between
is overwritten by the older state.

The bounds are the smallest at which the cases in question meet: two parties to each
race, a route with a repeated target (so that positions and targets differ),
thresholds above one where a count can be partial, outcomes that outlive the period
they were admitted in, a capacity that two publishers exhaust. Safety that is also
proved does not depend on them. Requests, attempts and
runs are interchangeable, and symmetry is used only in runs without liveness.
`CHECK_DEADLOCK FALSE` appears where the system may stop: a gateway that has shut
down and probes that were answered (`HotReload`), publishers that have no further
event within the bound (`EventHub`), and an observatory that exits because no
scenario could be loaded (`ObservatorySafety`).

`NoDebt` and `BurstBound` depend on a detail: the limiter also lets time run
backwards (`app.go:715`), and takes back what it added when an earlier time arrives
after a later one.

### Disagreements between the code and its documentation

The run `ResilientTransportTimeout` checks one sentence of `DESIGN_DOC.md` and TLC
finds a behaviour that contradicts it: an upstream that exceeds the route timeout is
recorded as ignored and does not count towards its circuit's threshold
(`resilient.go:510`). What does count is the transport's own header timeout of 30
seconds, on routes that allow as much.

The MC modules define further statements, taken from documents, comments and tests
or from what a reader would expect, that the code does not satisfy. They belong to
no run. To see the behaviour, add the statement to the named configuration as an
INVARIANT, or as a PROPERTY where it is temporal (and then leave out `SYMMETRY` if it
is a liveness property).

| Configuration | Statement | What happens, and what it contradicts |
|---|---|---|
| `CircuitMetrics` | `Recovers` | With two slots and steady overlapping probes a half-open circuit never closes (`breaker.go:97`); `DESIGN_DOC.md:245`. |
| `CircuitMetrics`, with three attempts | `ProbeLimit` | Late outcomes free slots they never took: more probes than the limit (`breaker.go:93`); `DESIGN_DOC.md:245`. |
| `CircuitMetrics` | `CountedOnce` | Two overlapping failures may both count one opening, or a reset between the readings hides one (`resilient.go:438`); the help text at `metrics/registry.go:188`. |
| `CircuitMetrics` | `GaugeExact` | The timer and a reset leave the gauge as it was, and an older count may be set last (`resilient.go:458`); the help text at `metrics/registry.go:192`. |
| `BreakerReload` | `RecoversAcrossReload` | A clone keeps slots whose owners report to the old breaker, and may stay half-open for good (`breaker.go:163`); `PROJECT_SPEC.md:80`. |
| `BreakerRegistry` | `NoGhostTarget` | A request of the old snapshot re-creates a retired target's state (`registry.go:217`); `breaker_test.go:559` asserts its removal, without a concurrent request. |
| `BreakerRegistry` | `LiveRegistryUntouched` | A reload deletes breakers of the snapshot still being served (`manager.go:310`); `DESIGN_DOC.md:387`. |
| `ResilientTransport` | `NoHealthyMeansNoneClosed` | "No healthy targets" although a circuit is closed (`retry.go:159`); `PROJECT_SPEC.md:143`. |
| `ResilientTransport` | `RetryChangesTarget` | A retry may go to the target that failed last (`retry.go:205`); `PROJECT_SPEC.md:166`. |
| `HotReload` | `EveryEditServed` | An edit between reading the file and watching its directory, or one whose event found the queue full, is not served (`watcher.go:61`); `PROJECT_SPEC.md:121`. |
| `RateLimiter` | `ExactWindow` | Stamps out of order: more than the limit in one full window (`store.go:28`); `DESIGN_DOC.md:212`. |
| `RateLimiter` | `BlipNeverBlocks` | A resent command is refused because of its own first execution (`store.go:31`); `ADR/003-fail-open-rate-limiting.md:17`. |
| `ObservatorySafety` | `OneScenario` | Two load generators at once (`app.go:489`); `CODEX_M2_PROMPT.md:242`. |
| `Observatory` | `CleanMeansClean` | "Clean" while a fault is in force (`reset.go:28`); `PHASE9_CHAOS_OBSERVATORY_SPEC_v2.2.md:81`. |
| `Observatory` | `CloseCleans` | `close` ignores every error and waits for no goroutine (`app.go:222`): the process may exit with a load generator running or a service stopped, which is what it sets out to end. |
| `Observatory` | `ErrorReturnsToIdle` | The status stays "error" (`app.go:482`); `CODEX_M2_PROMPT.md:247`. |
| `EventHub` | `OldestGoes` | The newest event is given up instead of the oldest (`events.go:85`), against the log line at `events.go:86`. |
| `EventHub` | `ShownOnce` | A resumed stream gets the last line, and all of its instant, again (`events.go:202`): a browser is shown an event twice. |
| `ObservatorySafety` | `HealthyTokenAccepted` | The token is good for one hour (`user-service/main.go:20`) and refreshed every 23 (`app.go:45`): health says `"jwt_valid": true` (`PHASE9_CHAOS_OBSERVATORY_SPEC_v2.2.md:741`) of an expired one. |
| `ObservatorySafety` | `TokenOutlivesRun` | For the same reason a run may be given a token that expires while it lasts; `PHASE9_CHAOS_OBSERVATORY_SPEC_v2.2.md:710`, "Obtains and refreshes the demo JWT for k6 scripts". |
| `ObservatorySafety` | `ListedOptionsRun` | An intensity whose name has blanks around it is listed as it is and looked up trimmed (`scenarios.go:286`): it cannot be run. |

## Fairness

* Circuit breaker, its metrics and reload: time passes; an admitted attempt ends,
  because the route timeout ends it (`resilient.go`), and its goroutine goes through
  the calls that follow; requests keep arriving, without which nobody probes; a
  snapshot that was built is stored. Nothing is assumed about the order of outcomes.
  `RecoversInAGap` speaks of a target that has recovered for good and assumes, as its
  premises, recurring moments without an attempt in flight and, from some time on, no
  caller that leaves a probe (`RecordIgnored` in the half-open state):
  `resilient.go:423-435` lets a caller leave at any time, and if every probe is left
  the circuit learns nothing. `RecoversUnlessCopied` has the second premise too.
* Transport: none. `EveryStepAdvances` shows that a rank decreases with every step of
  a request, so a request takes finitely many steps; that they are taken rests on the
  goroutine running and the route timeout firing.
* Round robin: every goroutine is scheduled; a single call may lose every race, so
  the property is lock-freedom and not termination of each call.
* Hot reload: main and the watcher run, and the watcher's `select`, which picks among
  the ready cases at random, takes an event and the timer at some time. Edits,
  signals and probes are not assumed.
* Observatory: goroutines run; a remote call ends, by the HTTP client's timeout
  (`app.go:46`), by reset's deadline, or by the answer of the other side. A run's own
  calls to Docker (image pull, create, start, wait, removal; `runner.go:49-133`) have no
  deadline, so that liveness rests on the daemon, and for a missing image on the
  registry, to answer. k6 ends because its scripts bound their duration.
  That a removal succeeds, or that the process goes on, is not assumed.

## Proofs

Every safety property that a run checks is also a theorem, for all constants that
satisfy the assumptions below. Each proof has the same shape: an inductive
invariant, a lemma that `Init` establishes it, lemmas that every action keeps it, and
a temporal theorem that combines them.

| Module | Proves of | Properties |
|---|---|---|
| `BreakerProofs` | `Breaker` | one lemma per method; used by the next two |
| `CircuitMetricsProofs` | `CircuitBreaker`, `CircuitMetrics`, `BreakerReload` | `SlotsBackedByProbes`, `NoMissedClose`, `CircuitRefinement`, `OpeningsCounted`, `WithinThresholds`, `ReloadKeepsVerdict` |
| `ResilientTransportProofs` | `ResilientTransport` | `ActiveIsInUse`, `SlotsOwed`, `NoRepeatInPass`, `EveryStepAdvances` |
| `RouteStateProofs` | `LoadBalancer` and its parts, `RateLimiter` | `NobodySkipped`, `Proportional`, `CountsSelections`, `UndisturbedPicksLeast`; `WindowBound`, `RetryAfterHonest` |
| `HotReloadProofs` | `HotReload`, `BreakerRegistry` | `NoLostEdit`, `DrainIsFinal`, `StartupSettingsStay`; `OneBreakerPerTarget`, `GaugeTracksBreakers` |
| `GatewayProofs` | `Gateway` | `InFlightExact`, `IdentityFromToken`, `ChargedToItsClient` |
| `ObservatoryProofs` | `Observatory`, `Console` | `OneOwner`, `NoOrphan`; `BurstBound`, `NoDebt`, `RunsAsOffered` |
| `EventHubProofs` | `EventHub` | `NoLineSkipped`, `InOrderOnce`, `NothingLost`, `RecentKept` |

### The breaker

`BreakerProofs`: applied to a well-formed record, a method gives a well-formed record,
and moves slots, successes and state only as stated. A record is well formed when it
has its type, holds at most `halfOpenMaxRequests` slots, has no half-open counts
outside the half-open state, holds failures only while closed, in time order and
below the threshold, and, if half-open, lacks a success or has a probe in flight. The
last conjunct is what makes `NoMissedClose` inductive: both places that release a slot
must test for the close.

*`SlotsBackedByProbes`, `NoMissedClose`, the refinement of `CircuitSpec`.* The
invariant adds to well-formedness that the slots held are at most the probes of the
current half-open period, and that these are in flight. Late outcomes make this an
inequality: they lower the counter without ending a probe. `UsesBreaker` shows that
the transport with its metrics takes only steps of `CircuitBreaker`, so these theorems
hold of it. For `OpeningsCounted` the invariant (`Tracked`) says what each call between
its two readings knows of the breaker: the history bits that record an opening by the
call itself, or by anyone, agree with the states it has read.

*A reload.* `RInv`: the old breaker is well formed in the old configuration and its
clone in the new one. `reconcileLocked` is the step that has to establish the latter:
it prunes the failures by the new window, opens a closed clone that has reached the new
threshold, cuts the slots down to the new limit, and closes a half-open one that has
its successes and no probe in flight.

### The transport

*`ActiveIsInUse` and `SlotsOwed`.* Every action moves one request; the number of
holders of a target changes by what the request was and what it becomes, and the
action changes the counter by the same. For slots it is again an inequality, with the
well-formedness of every breaker.

*`NoRepeatInPass`.* `PassOK` says that `triedTargets` is the set of targets visited in
the current pass, that its size is the number of concluded visits modulo the number of
targets, and that the target in use is not in it. A pass ends when the set is full,
and only then does it become empty.

*`EveryStepAdvances`.* The rank counts the attempts left, then the targets left in the
pass, then the place in the loop. The invariant needed is that an attempt is within
its budget, and that a backoff leaves at least one.

### The state of a route

*Least connections.* `CountsSelections` needs that a goroutine that adds or uses has a
position; the counter of a position is the number of goroutines that hold it.
`UndisturbedPicksLeast` needs that, as long as no counter has changed, `best` is
preferred to every candidate the scan has passed.

*Round robin.* `NobodySkipped` follows from `Rotated`: one of the last `d` selections
took or excluded the `d`-th position before the counter. A selection moves the counter
past the candidates it excluded to the one it takes. Across the wrap-around this holds
only if the number of targets divides the range of the counter, which the theorem
assumes; the range is 2^64, so the code has it for numbers of targets that are powers
of two, and may skip a target once per wrap-around otherwise.

*Weighted.* As long as no selection has excluded a target, the current weight of a
position is what it is owed: its share of the selections of the round, less those it
got, scaled by the length of the round. The weights add up to zero, so after each addition
the largest is positive, and the one that pays stays above minus the length of
the round. That bounds how far a position can be ahead, and makes a complete round
exact. The mirror image is not true: with more targets one of them can fall behind its
share by more than a selection (nine targets with the weights 1, 3, 1, 1, 3, 3, 3, 3, 1
show it), so `Proportional` bounds one side only.

*The rate limiter.* The sorted set holds at most `Limit` members and agrees with the
grants that are younger than the window; the key lives until the youngest has left it.
For `RetryAfterHonest` the invariant keeps, since the refusal, that the set has shrunk
or still holds a member that leaves the window in the promised time.

### Reload and registry

*`NoLostEdit`* needs that a write before the directory is watched was recorded as a
gap, that the timer stays set until the reload it started has ended, and that the
queue never exceeds its bound (`QueueBounded`): a full one holds an event of the file
unless it holds only events of others. *`DrainIsFinal`* needs that a late probe implies
`draining`: readiness may be set again by a reload that passed its check before the
drain, but a probe reads `draining` afterwards. *`StartupSettingsStay`* needs that what
is about to be stored agrees with what is in use.

*`OneBreakerPerTarget`.* Whoever holds a published breaker of a target that every
configuration keeps holds the one in the map, and nobody retires it; one that is not
published yet is made under the mutex for a target that has none. *`GaugeTracksBreakers`*
adds that the callback of a settled target reports to its one service, that the table
has followed the breaker, and that every series is what `setGauge` would compute from
the table now.

### The outer chain

`Sound` states what a request has established when it comes to each handler: the route
is the one the snapshot's configuration matches, the client's own identity header is
gone once tracing has run, an identity is the subject of a verified token. At the
upstream it is that subject, or nobody if the client's `Connection` header names
`X-User-ID`: the reverse proxy drops the header before `Rewrite`, which does not set it
again (`proxy.go:40-54`). That the
match is unique rests on the order of precedence being asymmetric. `ChargedToItsClient`
also needs what the walk through the forwarded addresses returns (`ClientIsVouched`):
for any chain the hop nearest to the client that only trusted proxies vouch for. The
walk is modelled by where it stops, so the lemma is about a greatest stop and needs no
induction over the chain.

### The observatory

*`OneOwner` and `NoOrphan`*, with refusals, crashes and restarts: the invariant ties the
program counter of each run to the slot and to its container, and to what the stop and
reset handlers still hold of it.

*`BurstBound` and `NoDebt`.* Times reach the limiter in any order. `AllBounded` states,
for every interval, that the requests let through in it and what the bucket would hold
at its end are together at most the capacity and what the interval adds; the second
term is what a later request draws on. `NoDebt` is inductive with it because an earlier
time takes back exactly what was added. *`RunsAsOffered`*: the catalog is
within the caps, no request is answered before it is loaded, and what is looked up is
the intensity without blanks and the duration cut to the cap; an intensity listed only
with blanks is therefore never found, and the property says that it is answered 400.

*`NoLineSkipped`*: the log is in order of receipt, an event's own time is not after its
receipt, and no line still owed lies before the point of resumption, connected or not.

*`InOrderOnce`, `NothingLost` and `RecentKept`.* `FeedInv` keeps the order of the buffer
and of each client's feed (what it was shown followed by what its channel holds), up to
the event its publisher is sending: an event of the feed precedes that one, or is that
one and the client has been served. A call's `todo` set has only clients that have
subscribed, and a client found full is recorded as overflown before its head is taken
away. Pruning is a loop, and a lemma about its rounds shows that it keeps exactly the
events within the retention, in order.

### Assumptions

The named `ASSUME`s of the modules, which TLC evaluates on every instance:
`LegalConfig` of the breaker configurations (what `normalizeConfig` guarantees, with a
horizon no shorter than its times); finite sets of attempts, requests and goroutines; a
route with a target; integer weights, one per target, whose sums do not overflow;
configurations that pass `Validate` have the types the decoder gives them; the address
of a connection's peer parses, while forwarded hops need not; `Valid \subseteq Content`,
a queue of at least one event; routing tables whose owners are among their routes; a
limit and a window of at least one, and a delay shorter than the window; typed scripts
and scenario files; a client channel of at least one event; `None` and its like outside
the sets they are added to. The numbers that bound a run (`MaxEdits`, `MaxEvents`,
`MaxLines`, `MaxTime` and so on) are arbitrary naturals in the proofs, and `History`,
the number of selections `NobodySkipped` looks back on, is at least the number of
targets.

### Only model-checked

Liveness, because fairness and `ENABLED` are outside the prover's reach:
`RecoversInAGap` and `GaugeSettles` (`CircuitMetrics`), `RecoversUnlessCopied`
(`BreakerReload`), `SelectionsComplete` (`LoadBalancer`), `EditServed` (`HotReload`),
`SlotComesBack`, `StoppingEnds` and `ResetConverges` (`Observatory`).

## Not modelled

* `Observatory`: more than one stop handler and one reset handler at once (the state
  space is out of reach, and handlers only meet in the sections that are modelled);
  `ensureToxiproxy`, which creates proxies that are never removed.
* `HotReload`: configuration files that are symbolic links into another directory,
  whose changes raise no event in the watched one; `http.Server.Shutdown`'s draining,
  which is the library's.
* `ResilientTransport`: the replay of request bodies, path stripping, attempt headers
  and spans, which change no state a later step reads; the gauge over several targets,
  which `CircuitMetrics` has for one; a response with status 101, of which
  `httputil.ReverseProxy` refuses the wrapped body, since it cannot be written to, and
  returns without closing it, so that neither the selection nor the slot is given back.
* `Gateway`: `X-User-Role`, set and cleared beside `X-User-ID` (`auth.go:131-132`); no
  later handler reads it.
* `RateLimiter`: reuse of the Redis client and store across reloads; the store keeps
  no state of its own.
* `Console`: the metrics proxy, the address taken from headers, `DEMO_JWT` from the
  environment. `EventHub`: redaction, the log of a replaced gateway container,
  lines whose time does not parse (`events.go:343` takes the time of reading; the
  gateway's logger writes no such line) and events with a time still to come.
* YAML decoding, formatting, logging, telemetry exporters, most of the demo services,
  benchmarks and scripts: sequential, or without state another part reads.

## Plan

1. *Compose.* An abstract request (answered once, charged once, released once) that
   `Gateway` with `RateLimiter` and `ResilientTransport` implements; the chaos state
   of the demo services under `Observatory`.
2. *Prove.* How far the weighted balancer lets a target fall behind, as a function of
   the number of targets; the refinement once the composition above exists.
