---------------------------- MODULE MCRateLimiter ----------------------------
(***************************************************************************)
(* A small instance of RateLimiter for TLC: two limited paths and one      *)
(* without a rule, two clients, one of them a proxy for the other.         *)
(***************************************************************************)
EXTENDS RateLimiterInvariant, TLC

CONSTANTS client, proxy

MCClients == {client, proxy}
MCPaths == {"login", "refresh", "logout"}
MCRules == ("login" :> [max |-> 1, window |-> 3])
           @@ ("refresh" :> [max |-> 2, window |-> 2])
           @@ ("logout" :> [max |-> 0, window |-> 0])

Post(path, peer, tls) ==
    [post |-> TRUE, path |-> path, peer |-> peer, tls |-> tls,
     forwardedFor |-> NoClient, forwardedTls |-> FALSE]

Forwarded(path) == [Post(path, proxy, FALSE) EXCEPT !.forwardedFor = client, !.forwardedTls = TRUE]

MCArrivals == {Post("login", client, TRUE), Post("refresh", proxy, TRUE), Forwarded("login"),
               Post("login", client, FALSE), Post("logout", client, TRUE),
               [Post("login", client, TRUE) EXCEPT !.post = FALSE]}

RequestSymmetry == Permutations(Requests)
=============================================================================
