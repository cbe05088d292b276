----------------------------- MODULE MCGateway ------------------------------
(* Small instances of the outer chain. *)
EXTENDS Gateway, TLC

CONSTANTS q1, q2

Requests == {q1, q2}
RequestSymmetry == Permutations(Requests)
Proxies == {"edge", "lb"}

SomeLimit == [requests |-> 2, window |-> 1, strategy |-> ""]
ZeroLimit == [SomeLimit EXCEPT !.requests = 0]
BucketLimit == [SomeLimit EXCEPT !.strategy = "token_bucket"]

Open == [path |-> <<"api">>, methods |-> {}, service |-> "catalog", auth |-> FALSE,
         limit |-> SomeLimit, targets |-> 1]
Protected == [path |-> <<"api", "orders">>, methods |-> {"GET"}, service |-> "orders",
              auth |-> TRUE, limit |-> SomeLimit, targets |-> 1]
Status == [path |-> <<"status">>, methods |-> {}, service |-> Internal, auth |-> FALSE,
           limit |-> None, targets |-> 0]

Base == [routes |-> <<Open, Protected, Status>>, secret |-> "s", algorithm |-> "HS256",
         redis |-> "r", metricsOn |-> TRUE, metricsPath |-> <<"metrics">>]
WithRoute(c, i, route) == [c EXCEPT !.routes[i] = route]

\* Four configurations that are accepted: the base, one with the metrics
\* off and the orders opened, one with the catalogue closed and orders on another
\* algorithm of rate limiting, one that needs neither secret nor Redis.
Good == {Base,
         [WithRoute(Base, 2, [Protected EXCEPT !.auth = FALSE, !.methods = {}])
             EXCEPT !.metricsOn = FALSE, !.metricsPath = None],
         WithRoute(WithRoute(Base, 1, [Open EXCEPT !.auth = TRUE]), 2,
                   [Protected EXCEPT !.limit = BucketLimit]),
         [Base EXCEPT !.routes = <<[Open EXCEPT !.limit = None], Status>>,
                      !.secret = None, !.algorithm = None, !.redis = None]}

\* And some that are refused, one for each rule a request depends on.
Bad == {[Base EXCEPT !.secret = None],
        [Base EXCEPT !.algorithm = "RS256"],
        WithRoute(Base, 1, [Open EXCEPT !.limit = ZeroLimit]),
        WithRoute(Base, 1, [Open EXCEPT !.targets = 0])}

Configs == Good \cup Bad

Hello == [path |-> <<"api", "items">>, method |-> "GET", token |-> None, userHeader |-> None,
          remote |-> "alice", forwarded |-> <<>>, connection |-> {}, private |-> FALSE]
Signed == [signed |-> TRUE, fresh |-> TRUE, times |-> {"exp", "iat"}, subject |-> "alice",
           role |-> "buyer"]

\* Blanks around a user ID are trimmed from its key.
Segments == [u \in {"alice", " alice "} |-> "alice"]

Messages == {Hello,
    [Hello EXCEPT !.userHeader = "bob", !.remote = "edge", !.forwarded = <<"bob", "alice", "lb">>],
    [Hello EXCEPT !.remote = "edge", !.forwarded = <<"alice", Unparsable, "lb">>],
    [Hello EXCEPT !.path = <<"api", "orders">>, !.token = Signed, !.userHeader = "bob"],
    [Hello EXCEPT !.path = <<"api", "orders">>, !.userHeader = "bob", !.connection = {UserID},
                  !.token = [Signed EXCEPT !.subject = " alice "]],
    [Hello EXCEPT !.path = <<"api", "orders">>, !.token = [Signed EXCEPT !.fresh = FALSE]],
    [Hello EXCEPT !.path = <<"api", "orders">>, !.token = [Signed EXCEPT !.times = {"exp"}]],
    [Hello EXCEPT !.path = <<"api", "orders">>, !.token = Unparsable, !.method = "POST"],
    [Hello EXCEPT !.path = <<"metrics">>, !.private = TRUE],
    [Hello EXCEPT !.path = <<"status">>, !.method = "POST"],
    [Hello EXCEPT !.path = <<"health">>]}
=============================================================================
