------------------------ MODULE RateLimiterInvariant ------------------------
(***************************************************************************)
(* The inductive invariant of RateLimiter. A counter counts exactly the    *)
(* attempts allowed in its window; what the map has forgotten is so old    *)
(* that no reading still on its way can fall into it.                      *)
(***************************************************************************)
EXTENDS RateLimiter

\* A request on its way has a recent reading; its path has a rule.
ReadingsRecent ==
    \A p \in Requests : pc[p] = "decide" =>
        /\ Limited(req[p].path)
        /\ 1 <= now[p] /\ now[p] <= clock /\ clock <= now[p] + MaxStall

\* What is known of a request that was counted or refused.
JudgedFits ==
    \A p \in Requests : Judged(p) =>
        /\ pc[p] = "answered"
        /\ Limited(req[p].path)
        /\ 1 <= opened[p] /\ opened[p] <= clock
        /\ opened[p] - MaxStall <= now[p]
        /\ now[p] < opened[p] + Window(req[p].path)

OnlyAnsweredHaveAnswers ==
    \A p \in Requests : pc[p] # "answered" => answer[p] = "none"

\* A counter knows how many attempts its window has admitted.
CountersCount ==
    \A b \in Buckets :
        /\ counters[b].start <= clock
        /\ Present(b) => counters[b].count = Cardinality(Allowed(b, counters[b].start))

\* Windows of one bucket begin at least a window apart; the counter is the newest one,
\* and without a counter the newest one is long over.
WindowsApart ==
    \A p \in Requests : Judged(p) =>
        LET b == Bucket(p) IN
        /\ IF Present(b)
           THEN \/ opened[p] = counters[b].start
                \/ opened[p] + Window(b[1]) <= counters[b].start
           ELSE opened[p] + 2 * Window(b[1]) <= clock
        /\ \A q \in Requests : Judged(q) /\ Bucket(q) = b =>
               \/ opened[q] = opened[p]
               \/ opened[q] + Window(b[1]) <= opened[p]
               \/ opened[p] + Window(b[1]) <= opened[q]

\* Who was refused was told to wait for the end of the window.
ToldTheEnd ==
    \A p \in Requests : answer[p] = "rate_limited" =>
        opened[p] + Window(req[p].path) <= told[p]

\* The inductive invariant: windows do not overlap, counters are exact, readings on their
\* way are recent.
RateInvariant ==
    /\ TypeOK
    /\ ReadingsRecent
    /\ JudgedFits
    /\ OnlyAnsweredHaveAnswers
    /\ CountersCount
    /\ WindowsApart
    /\ ToldTheEnd
    /\ WindowsExact

=============================================================================
