---------------------------- MODULE RateLimiter -----------------------------
(***************************************************************************)
(* One bucket of the distributed rate limiter: the middleware              *)
(* (internal/middleware/ratelimit.go) stamps a request with its own clock, *)
(* the store (internal/ratelimit/store.go) sends the Lua script, and Redis *)
(* runs scripts one at a time, but not in the order of the stamps.         *)
(*                                                                         *)
(* Time is kept relative: a score is the age of a stamp.  Ages saturate at *)
(* Horizon, which nothing in the set can exceed: an entry older than       *)
(* Window + MaxLag is pruned by any script, and without scripts the key    *)
(* expires after Window.                                                   *)
(***************************************************************************)
EXTENDS Integers, FiniteSets, FiniteSetsExt

CONSTANTS
    Request,
    Limit,          \* route.RateLimit.Requests
    Window,         \* windowMillis, in ticks
    MaxLag,         \* a command reaches Redis at most this long after its stamp
    TicksPerSecond, \* the resolution of Retry-After
    MaxRetries      \* how often the client resends a command it got no reply to

\* The configuration's numbers are positive, and a command that has not reached
\* Redis within the window is given up.
LegalBounds ==
    /\ Limit \in Nat \ {0} /\ Window \in Nat \ {0} /\ TicksPerSecond \in Nat \ {0}
    /\ MaxLag \in Nat /\ MaxLag < Window
    /\ MaxRetries \in Nat

ASSUME LimiterAssumption == LegalBounds

Horizon == 2 * Window + MaxLag
Age == 0..Horizon

VARIABLES
    zset,    \* the sorted set: how many members have a score of each age
    ttl,     \* what is left of the key's expiry, 0 without a key
    pc,      \* "idle", "sent", "allowed" or "denied" (the script's reply), "ghost"
    stamp,   \* the age of the request's now
    member,  \* the request's member is in the set
    retries,
    granted, \* history: how many stamps of each age the script has let in
    promise  \* history: time left of the last Retry-After; cleared when the
             \* script lets another request in

limiterVars == <<zset, ttl, pc, stamp, member, retries, granted, promise>>

NoPromise == Horizon + TicksPerSecond + 1
Empty == [a \in Age |-> 0]

LimiterInit ==
    /\ zset = Empty /\ ttl = 0
    /\ pc = [r \in Request |-> "idle"]
    /\ stamp = [r \in Request |-> 0]
    /\ member = [r \in Request |-> FALSE]
    /\ retries = [r \in Request |-> 0]
    /\ granted = Empty
    /\ promise = NoPromise

\* The members with a score of an age in A, numbered among those of one score.
Members(z, A) == UNION {{a} \X (1..z[a]) : a \in A}
Count(z, A) == Cardinality(Members(z, A))
AddAt(z, a) == [z EXCEPT ![a] = @ + 1]

-----------------------------------------------------------------------------
\* now := time.Now(), and the command is on its way.
Arrive(r) ==
    /\ pc[r] = "idle"
    /\ pc' = [pc EXCEPT ![r] = "sent"]
    /\ UNCHANGED <<zset, ttl, stamp, member, retries, granted, promise>>

\* ZREMRANGEBYSCORE -inf (now - window), both ends included.
Pruned(z, now) == [a \in Age |-> IF a >= now + Window THEN 0 ELSE z[a]]

\* reset_at of the script, as the time left after the stamp: the oldest score,
\* which is the greatest age in the set, plus the window.
ResetAfter(z, now) == Window + now - Max({a \in Age : z[a] > 0})

\* Faulty variant: rounded down.
RetryAfterSecondsDown(left) == Max({1, left \div TicksPerSecond})

\* retryAfterSeconds: rounded up, at least one second.
RetryAfterSeconds(left) == Max({1, (left + TicksPerSecond - 1) \div TicksPerSecond})

\* Faulty variant: the limit itself is let in once more.
RunScriptOneMore(r, allowed) ==
    LET now == stamp[r]
        kept == Pruned(zset, now)
        fresh == allowed /\ ~member[r]
    IN  /\ allowed = (Count(kept, Age) <= Limit)
        /\ zset' = IF fresh THEN AddAt(kept, now) ELSE kept
        /\ ttl' = Window
        /\ granted' = IF fresh THEN AddAt(granted, now) ELSE granted
        /\ promise' = IF fresh THEN NoPromise
                      ELSE IF allowed THEN promise
                      ELSE RetryAfterSeconds(ResetAfter(kept, now)) * TicksPerSecond - now

\* The script, for a stamp of age now and a member that may be there already,
\* and the Retry-After the middleware computes from a refusal: it counts from
\* the stamp, not from the reply.
RunScript(r, allowed) ==
    LET now == stamp[r]
        kept == Pruned(zset, now)
        fresh == allowed /\ ~member[r]
    IN  /\ allowed = (Count(kept, Age) < Limit)
        /\ zset' = IF fresh THEN AddAt(kept, now) ELSE kept
        /\ ttl' = Window
        /\ granted' = IF fresh THEN AddAt(granted, now) ELSE granted
        /\ promise' = IF fresh THEN NoPromise
                      ELSE IF allowed THEN promise
                      ELSE RetryAfterSeconds(ResetAfter(kept, now)) * TicksPerSecond - now

\* Redis runs the command and the reply is on its way.
Execute(r) ==
    /\ pc[r] = "sent"
    /\ \E allowed \in BOOLEAN :
          /\ RunScript(r, allowed)
          /\ pc' = [pc EXCEPT ![r] = IF allowed THEN "allowed" ELSE "denied"]
          /\ member' = [member EXCEPT ![r] = @ \/ allowed]
    /\ UNCHANGED <<stamp, retries>>

\* The request is over; the next one has another X-Request-ID as its member.
Forget(r) ==
    /\ pc' = [pc EXCEPT ![r] = "idle"]
    /\ stamp' = [stamp EXCEPT ![r] = 0]
    /\ member' = [member EXCEPT ![r] = FALSE]
    /\ retries' = [retries EXCEPT ![r] = 0]

\* The middleware acts on the reply: it serves the request, or answers 429.
Respond(r) ==
    /\ pc[r] \in {"allowed", "denied"}
    /\ Forget(r)
    /\ UNCHANGED <<zset, ttl, granted, promise>>

\* The connection breaks before or after the script ran and the client library
\* sends the same command again.
Resend(r) ==
    /\ pc[r] \in {"sent", "allowed", "denied"}
    /\ retries[r] < MaxRetries
    /\ pc' = [pc EXCEPT ![r] = "sent"]
    /\ retries' = [retries EXCEPT ![r] = @ + 1]
    /\ UNCHANGED <<zset, ttl, stamp, member, granted, promise>>

\* store.Allow returns an error, the timeout's or the client's: the request is
\* served without a verdict, while its command may still reach Redis.
FailOpen(r) ==
    /\ pc[r] \in {"sent", "allowed", "denied"}
    /\ IF pc[r] = "sent"
       THEN pc' = [pc EXCEPT ![r] = "ghost"] /\ UNCHANGED <<stamp, member, retries>>
       ELSE Forget(r)
    /\ UNCHANGED <<zset, ttl, granted, promise>>

\* Redis runs a command whose caller has given up, or never gets it.
ExecuteLate(r) ==
    /\ pc[r] = "ghost"
    /\ \/ \E allowed \in BOOLEAN : RunScript(r, allowed)
       \/ UNCHANGED <<zset, ttl, granted, promise>>
    /\ Forget(r)

-----------------------------------------------------------------------------
Older(z) ==
    [a \in Age |-> (IF a > 0 THEN z[a - 1] ELSE 0) + (IF a = Horizon THEN z[a] ELSE 0)]

\* Time passes; no request waits on Redis for more than MaxLag.  When the
\* expiry is reached Redis deletes the key.
Tick ==
    /\ \A r \in Request : pc[r] # "idle" => stamp[r] < MaxLag
    /\ stamp' = [r \in Request |-> IF pc[r] = "idle" THEN 0 ELSE stamp[r] + 1]
    /\ ttl' = IF ttl > 0 THEN ttl - 1 ELSE 0
    /\ zset' = IF ttl = 1 THEN Empty ELSE Older(zset)
    /\ granted' = [Older(granted) EXCEPT ![Horizon] = 0]
    /\ promise' = IF promise = NoPromise \/ promise <= 0 THEN promise ELSE promise - 1
    /\ UNCHANGED <<pc, member, retries>>

LimiterNext ==
    \/ \E r \in Request :
          \/ Arrive(r) \/ Execute(r) \/ Respond(r)
          \/ Resend(r) \/ FailOpen(r) \/ ExecuteLate(r)
    \/ Tick

LimiterSpec == LimiterInit /\ [][LimiterNext]_limiterVars

-----------------------------------------------------------------------------
\* Types of the variables.
LimiterTypeOK ==
    /\ zset \in [Age -> Nat] /\ granted \in [Age -> Nat]
    /\ ttl \in 0..Window
    /\ pc \in [Request -> {"idle", "sent", "allowed", "denied", "ghost"}]
    /\ stamp \in [Request -> 0..MaxLag]
    /\ member \in [Request -> BOOLEAN]
    /\ retries \in [Request -> 0..MaxRetries]
    /\ promise \in Int

\* At most Limit requests are let in with stamps in any interval of the given
\* length.
AtMostLimitIn(length) ==
    \A a \in Age :
        Count(granted, {b \in Age : a <= b /\ b < a + length}) <= Limit

\* Whatever the order in which Redis runs the scripts, the commands that are
\* sent twice or abandoned, and the expiry of the key: in any interval of the
\* window less the delay to Redis, at most Limit requests are let in.
WindowBound == AtMostLimitIn(Window - MaxLag)

\* Retry-After is honest: when it has passed and the script has let nobody else
\* in, a request stamped now would be let in (ratelimit.go:314, store.go:44-50).
RetryAfterHonest == promise <= 0 => Count(Pruned(zset, 0), Age) < Limit
=============================================================================
