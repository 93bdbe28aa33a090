----------------------------- MODULE RateLimiter -----------------------------
(***************************************************************************)
(* The middleware of internal/transport/http/auth_security.go in front of  *)
(* the authentication endpoints: it refuses plain HTTP in production and   *)
(* limits the attempts a client may make on a path within a window.        *)
(*                                                                         *)
(* A request reads the clock before it takes the mutex of the limiter, so  *)
(* requests may be counted in another order than that of their readings:   *)
(* `now[p]` may be old when p is decided. The critical section of Allow is *)
(* one step. The limiter is in memory; there is one process.               *)
(*                                                                         *)
(* An address is a client (its textual forms are left out); a counter that *)
(* is missing in the map is the zero value, whose start is 0.              *)
(***************************************************************************)
EXTENDS Integers, FiniteSets

CONSTANTS
    Requests,       \* HTTP requests, each handled once
    Paths,          \* URL paths
    Clients,        \* addresses
    NoClient,       \* a forwarded-for header that is missing or not an address
    Rules,          \* the rule of each path, max = 0 for a path without one
    HttpsPaths,     \* authHTTPSRequiredPaths
    Production,     \* RequireHTTPSInProduction
    Proxies,        \* addresses in TrustedProxyCIDRs, {} if headers are not trusted
    Arrivals,       \* what requests look like
    Second,         \* clock ticks per second
    MaxStall,       \* ticks between reading the clock and the decision
    Cap,            \* counters that need no clean-up (2048 in the code)
    MaxClock        \* bound of the clock

Request == [post : BOOLEAN, path : Paths, peer : Clients, tls : BOOLEAN,
            forwardedFor : Clients \cup {NoClient}, forwardedTls : BOOLEAN]

\* Allow: no rule, or one that admits any number.
Limited(path) == Rules[path].max > 0 /\ Rules[path].window > 0

Max(path) == Rules[path].max
Window(path) == Rules[path].window

ASSUME RateLimiterAssumption ==
    /\ IsFiniteSet(Requests)
    /\ NoClient \notin Clients
    /\ Rules \in [Paths -> [max : Nat, window : Nat]]
    /\ HttpsPaths \subseteq Paths
    /\ Production \in BOOLEAN
    /\ Proxies \subseteq Clients
    /\ Arrivals \subseteq Request
    /\ Second \in Nat \ {0}
    /\ MaxStall \in Nat
    /\ Cap \in Nat
    /\ MaxClock \in Nat

\* No request is held up for a whole window between two lines of Allow.
ASSUME StallsAreShort == \A path \in Paths : Limited(path) => MaxStall <= Window(path)

Buckets == Paths \X Clients

VARIABLES
    clock,
    counters,   \* the limiter's map, protected by its mutex
    pc,         \* arrive, decide, answered
    req,        \* the request
    now,        \* its clock reading, 0 before it has one
    answer,     \* what the middleware did with it
    opened,     \* history: the start of the window it was judged in
    told        \* history: the time from which it was told to retry

vars == <<clock, counters, pc, req, now, answer, opened, told>>

----------------------------------------------------------------------------
NoCounter == [start |-> 0, count |-> 0]
NoRequest == [post |-> FALSE]

Present(b) == counters[b].start # 0

FromTrustedProxy(r) == r.peer \in Proxies

\* requestClientKey.
ClientKey(r) == IF FromTrustedProxy(r) /\ r.forwardedFor # NoClient
                THEN r.forwardedFor ELSE r.peer

IsHttps(r) == r.tls \/ (FromTrustedProxy(r) /\ r.forwardedTls)

RequiresHttps(r) == Production /\ r.path \in HttpsPaths

Bucket(p) == <<req[p].path, ClientKey(req[p])>>

Init ==
    /\ clock = 1
    /\ counters = [b \in Buckets |-> NoCounter]
    /\ pc = [p \in Requests |-> "arrive"]
    /\ req = [p \in Requests |-> NoRequest]
    /\ now = [p \in Requests |-> 0]
    /\ answer = [p \in Requests |-> "none"]
    /\ opened = [p \in Requests |-> 0]
    /\ told = [p \in Requests |-> 0]

----------------------------------------------------------------------------
Answer(p, a) ==
    /\ answer' = [answer EXCEPT ![p] = a]
    /\ pc' = [pc EXCEPT ![p] = "answered"]

\* The middleware up to l.mu.Lock().
Arrive(p) ==
    /\ pc[p] = "arrive"
    /\ \E r \in Arrivals :
         /\ req' = [req EXCEPT ![p] = r]
         /\ \/ /\ ~r.post
               /\ Answer(p, "passed") /\ UNCHANGED now
            \/ /\ r.post /\ RequiresHttps(r) /\ ~IsHttps(r)
               /\ Answer(p, "https_required") /\ UNCHANGED now
            \/ /\ r.post /\ (RequiresHttps(r) => IsHttps(r)) /\ ~Limited(r.path)
               /\ Answer(p, "passed") /\ UNCHANGED now
            \/ /\ r.post /\ (RequiresHttps(r) => IsHttps(r)) /\ Limited(r.path)
               /\ now' = [now EXCEPT ![p] = clock]
               /\ pc' = [pc EXCEPT ![p] = "decide"]
               /\ UNCHANGED answer
    /\ UNCHANGED <<clock, counters, opened, told>>

\* The counter of the window a reading t of bucket b falls in, before it is counted.
Current(b, t) ==
    IF Present(b) /\ t - counters[b].start < Window(b[1])
    THEN counters[b] ELSE [start |-> t, count |-> 0]

\* Variant for testing the properties: one attempt too many.
FullAfterMax(b, counter) == counter.count > Max(b[1])

Full(b, counter) == counter.count >= Max(b[1])

\* Variant for testing the properties: the remaining time is rounded down.
RetryTimeRoundedDown(b, counter, t) ==
    LET left == Window(b[1]) - (t - counter.start)
        wait == IF left < Second THEN Second ELSE left
    IN  t + Second * (wait \div Second)

\* Retry-After is a whole number of seconds, at least one, counted from the reading.
RetryTime(b, counter, t) ==
    LET left == Window(b[1]) - (t - counter.start)
        wait == IF left < Second THEN Second ELSE left
    IN  t + Second * ((wait + Second - 1) \div Second)

\* Variant for testing the properties: counters are dropped when their window ends.
ExpiredAfterWindow(b, counter, t) == t - counter.start >= Window(b[1])

\* cleanupExpired.
Expired(b, counter, t) == t - counter.start >= 2 * Window(b[1])

CleanUp(cs, t) ==
    IF Cardinality({b \in Buckets : cs[b].start # 0}) > Cap
    THEN [b \in Buckets |-> IF cs[b].start # 0 /\ Expired(b, cs[b], t)
                            THEN NoCounter ELSE cs[b]]
    ELSE cs

\* Under the mutex: the attempt is counted, or refused with a time to retry.
Decide(p) ==
    LET b == Bucket(p)
        c == Current(b, now[p])
    IN
    /\ pc[p] = "decide"
    /\ opened' = [opened EXCEPT ![p] = c.start]
    /\ IF Full(b, c)
       THEN /\ counters' = [counters EXCEPT ![b] = c]
            /\ told' = [told EXCEPT ![p] = RetryTime(b, c, now[p])]
            /\ Answer(p, "rate_limited")
       ELSE /\ counters' = CleanUp([counters EXCEPT ![b] = [c EXCEPT !.count = @ + 1]], now[p])
            /\ Answer(p, "allowed")
            /\ UNCHANGED told
    /\ UNCHANGED <<clock, req, now>>

Tick ==
    /\ clock < MaxClock
    /\ \A p \in Requests : pc[p] = "decide" => clock - now[p] < MaxStall
    /\ clock' = clock + 1
    /\ UNCHANGED <<counters, pc, req, now, answer, opened, told>>

Over == clock = MaxClock /\ \A p \in Requests : pc[p] = "answered"

Next == \/ \E p \in Requests : Arrive(p) \/ Decide(p)
        \/ Tick
        \/ Over /\ UNCHANGED vars

Spec == Init /\ [][Next]_vars

----------------------------------------------------------------------------
\* Every variable holds a value of its type.
TypeOK ==
    /\ clock \in Nat \ {0}
    /\ counters \in [Buckets -> [start : Nat, count : Nat]]
    /\ pc \in [Requests -> {"arrive", "decide", "answered"}]
    /\ req \in [Requests -> Arrivals \cup {NoRequest}]
    /\ \A p \in Requests : pc[p] # "arrive" => req[p] \in Arrivals
    /\ now \in [Requests -> Nat]
    /\ answer \in [Requests -> {"none", "passed", "https_required", "allowed", "rate_limited"}]
    /\ opened \in [Requests -> Nat]
    /\ told \in [Requests -> Nat]

Allowed(b, s) ==
    {p \in Requests : answer[p] = "allowed" /\ Bucket(p) = b /\ opened[p] = s}

Judged(p) == answer[p] \in {"allowed", "rate_limited"}

\* A window admits as many attempts of a client as its rule says and no more, whatever
\* order they are counted in and whichever counters have been cleaned up meanwhile; and
\* nobody is refused while the window still has room (authRateLimiter.Allow).
WindowsExact ==
    \A p \in Requests : Judged(p) =>
        LET n == Cardinality(Allowed(Bucket(p), opened[p])) IN
        /\ n <= Max(req[p].path)
        /\ answer[p] = "rate_limited" => n = Max(req[p].path)

\* In no stretch of time as long as a window (less the time a request may be held up) can
\* a client make more attempts than two windows admit: windows of a client never overlap,
\* also when a reading is older than the clean-up that removed the counter
\* (cleanupExpired keeps counters for twice the window).
BurstBounded ==
    \A b \in Buckets, t \in 1..clock : Limited(b[1]) =>
        Cardinality({p \in Requests : /\ answer[p] = "allowed" /\ Bucket(p) = b
                                      /\ t <= now[p]
                                      /\ now[p] < t + Window(b[1]) - MaxStall})
            <= 2 * Max(b[1])

\* Who has waited as long as the Retry-After header said is not refused on account of the
\* same window (NewAuthSecurityMiddleware rounds the time left up to seconds).
RetryAfterHonest ==
    \A p, q \in Requests :
        /\ answer[p] = "rate_limited"
        /\ Judged(q)
        /\ Bucket(q) = Bucket(p)
        /\ told[p] <= now[q]
        => opened[q] # opened[p]

=============================================================================
