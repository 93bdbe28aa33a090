-------------------------- MODULE RateLimiterProofs --------------------------
(***************************************************************************)
(* Theorems about RateLimiter for any rules, clients and number of         *)
(* requests: its inductive invariant, and the limits that follow from it.  *)
(***************************************************************************)
EXTENDS RateLimiterInvariant, FiniteSetTheorems, TLAPS

LEMMA RuleTypes ==
    ASSUME NEW path \in Paths
    PROVE  /\ Max(path) \in Nat /\ Window(path) \in Nat
           /\ Limited(path) => /\ Max(path) > 0 /\ Window(path) > 0
                               /\ MaxStall <= Window(path)
<1>1. Rules[path] \in [max : Nat, window : Nat]
    BY RateLimiterAssumption
<1> QED BY <1>1, StallsAreShort DEF Max, Window, Limited

LEMMA BucketTypes ==
    ASSUME NEW r \in Arrivals
    PROVE  <<r.path, ClientKey(r)>> \in Buckets /\ r.path \in Paths
<1>1. r \in Request
    BY RateLimiterAssumption
<1>2. ClientKey(r) \in Clients
    BY <1>1 DEF Request, ClientKey
<1> QED BY <1>1, <1>2 DEF Request, Buckets

LEMMA BucketOf ==
    ASSUME TypeOK, NEW p \in Requests, pc[p] # "arrive"
    PROVE  Bucket(p) \in Buckets /\ Bucket(p)[1] = req[p].path /\ req[p].path \in Paths
BY BucketTypes DEF TypeOK, Bucket

\* Waiting a whole number of seconds that is rounded up is waiting long enough.
LEMMA RoundedUp ==
    ASSUME NEW d \in Int
    PROVE  /\ Second * ((d + Second - 1) \div Second) \in Int
           /\ d <= Second * ((d + Second - 1) \div Second)
<1>1. Second \in Nat \ {0}
    BY RateLimiterAssumption
<1> DEFINE n == d + Second - 1
<1>2. n \in Int
    BY <1>1
<1>3. /\ n \div Second \in Int /\ n % Second \in 0..(Second - 1)
      /\ n = Second * (n \div Second) + (n % Second)
    BY <1>1, <1>2, Z3
<1> QED BY <1>1, <1>2, <1>3

LEMMA AllowedFinite ==
    ASSUME NEW b, NEW s
    PROVE  IsFiniteSet(Allowed(b, s)) /\ Cardinality(Allowed(b, s)) \in Nat
<1>1. Allowed(b, s) \subseteq Requests
    BY DEF Allowed
<1> QED BY <1>1, RateLimiterAssumption, FS_Subset, FS_CardinalityType

----------------------------------------------------------------------------
\* What Current returns for a request that is to be decided.
LEMMA CurrentTyped ==
    ASSUME TypeOK, NEW b \in Buckets, NEW t \in Nat
    PROVE  /\ Current(b, t) \in [start : Nat, count : Nat]
           /\ Current(b, t).start = t \/ Current(b, t) = counters[b]
BY DEF TypeOK, Current

LEMMA RetryTimeTyped ==
    ASSUME NEW b \in Buckets, NEW c \in [start : Nat, count : Nat], NEW t \in Nat
    PROVE  /\ RetryTime(b, c, t) \in Nat
           /\ c.start + Window(b[1]) <= RetryTime(b, c, t)
<1> DEFINE left == Window(b[1]) - (t - c.start)
           wait == IF left < Second THEN Second ELSE left
<1>1. Window(b[1]) \in Nat
    BY RuleTypes DEF Buckets
<1>2. Second \in Nat
    BY RateLimiterAssumption
<1>3. left \in Int /\ wait \in Int /\ left <= wait /\ Second <= wait
    BY <1>1, <1>2
<1>4. /\ Second * ((wait + Second - 1) \div Second) \in Int
      /\ wait <= Second * ((wait + Second - 1) \div Second)
    BY <1>3, RoundedUp
<1>5. RetryTime(b, c, t) = t + Second * ((wait + Second - 1) \div Second)
    BY DEF RetryTime
<1> HIDE DEF wait
<1>6. c.start \in Nat /\ left = Window(b[1]) - (t - c.start)
    OBVIOUS
<1> QED BY <1>1, <1>2, <1>3, <1>4, <1>5, <1>6

LEMMA CleanUpTyped ==
    ASSUME NEW cs \in [Buckets -> [start : Nat, count : Nat]], NEW t \in Nat
    PROVE  CleanUp(cs, t) \in [Buckets -> [start : Nat, count : Nat]]
BY DEF CleanUp, NoCounter

\* The clean-up keeps a counter or drops one that is at least two windows old.
LEMMA CleanUpDropsOld ==
    ASSUME NEW cs \in [Buckets -> [start : Nat, count : Nat]], NEW t \in Nat, NEW b \in Buckets
    PROVE  \/ CleanUp(cs, t)[b] = cs[b]
           \/ /\ CleanUp(cs, t)[b] = NoCounter
              /\ cs[b].start # 0
              /\ cs[b].start + 2 * Window(b[1]) <= t
<1>1. Window(b[1]) \in Nat
    BY RuleTypes DEF Buckets
<1> QED BY <1>1 DEF CleanUp, Expired

LEMMA TypeInit == Init => TypeOK
BY DEF Init, TypeOK, NoCounter

LEMMA TypeArrive ==
    ASSUME TypeOK, NEW p \in Requests, Arrive(p)
    PROVE  TypeOK'
<1>1. req' \in [Requests -> Arrivals \cup {NoRequest}] /\ req'[p] \in Arrivals
    BY DEF TypeOK, Arrive
<1>2. /\ pc' \in [Requests -> {"arrive", "decide", "answered"}]
      /\ now' \in [Requests -> Nat]
      /\ answer' \in [Requests -> {"none", "passed", "https_required", "allowed", "rate_limited"}]
    BY DEF TypeOK, Arrive, Answer
<1>3. \A q \in Requests : q # p => pc'[q] = pc[q] /\ req'[q] = req[q]
    BY DEF TypeOK, Arrive, Answer
<1> QED BY <1>1, <1>2, <1>3 DEF TypeOK, Arrive

LEMMA TypeDecide ==
    ASSUME TypeOK, NEW p \in Requests, Decide(p)
    PROVE  TypeOK'
<1> DEFINE b == Bucket(p)
           c == Current(b, now[p])
<1>1. b \in Buckets /\ now[p] \in Nat
    BY BucketOf DEF Decide, TypeOK
<1>2. c \in [start : Nat, count : Nat]
    BY <1>1, CurrentTyped
<1>3. RetryTime(b, c, now[p]) \in Nat
    BY <1>1, <1>2, RetryTimeTyped
<1>4. [counters EXCEPT ![b] = [c EXCEPT !.count = @ + 1]] \in [Buckets -> [start : Nat, count : Nat]]
    BY <1>1, <1>2 DEF TypeOK
<1>5. CleanUp([counters EXCEPT ![b] = [c EXCEPT !.count = @ + 1]], now[p])
         \in [Buckets -> [start : Nat, count : Nat]]
    BY <1>1, <1>4, CleanUpTyped
<1>6. counters' \in [Buckets -> [start : Nat, count : Nat]]
    BY <1>1, <1>2, <1>5 DEF TypeOK, Decide
<1>7. opened' \in [Requests -> Nat] /\ told' \in [Requests -> Nat]
    BY <1>1, <1>2, <1>3 DEF TypeOK, Decide
<1>8. /\ pc' \in [Requests -> {"arrive", "decide", "answered"}]
      /\ answer' \in [Requests -> {"none", "passed", "https_required", "allowed", "rate_limited"}]
      /\ \A q \in Requests : pc'[q] # "arrive" => pc[q] # "arrive"
    BY DEF TypeOK, Decide, Answer
<1> QED BY <1>6, <1>7, <1>8 DEF TypeOK, Decide

LEMMA TypeNext == TypeOK /\ [Next]_vars => TypeOK'
<1> SUFFICES ASSUME TypeOK, [Next]_vars PROVE TypeOK'
    OBVIOUS
<1>1. CASE \E p \in Requests : Arrive(p) \/ Decide(p)
    BY <1>1, TypeArrive, TypeDecide
<1>2. CASE Tick
    BY <1>2 DEF TypeOK, Tick
<1>3. CASE UNCHANGED vars
    BY <1>3 DEF TypeOK, vars
<1> QED BY <1>1, <1>2, <1>3 DEF Next

\* Every reachable state of the limiter is well typed.
THEOREM TypeCorrect == Spec => []TypeOK
<1>1. Init => TypeOK
    BY TypeInit
<1>2. TypeOK /\ [Next]_vars => TypeOK'
    BY TypeNext
<1> QED BY <1>1, <1>2, PTL DEF Spec

----------------------------------------------------------------------------
(***************************************************************************)
(* Steps that judge nobody: a request arrives, time passes.                *)
(***************************************************************************)
LEMMA InvariantInit == Init => RateInvariant
<1> SUFFICES ASSUME Init PROVE RateInvariant
    OBVIOUS
<1>1. \A p \in Requests : ~Judged(p) /\ answer[p] = "none" /\ pc[p] = "arrive"
    BY DEF Init, Judged
<1>2. \A b \in Buckets : ~Present(b) /\ counters[b].start <= clock
    BY DEF Init, Present, NoCounter
<1> QED BY <1>1, <1>2, TypeInit
        DEF RateInvariant, ReadingsRecent, JudgedFits, OnlyAnsweredHaveAnswers, CountersCount,
            WindowsApart, ToldTheEnd, WindowsExact

\* When nobody is judged, nobody's judgement changes.
LEMMA NobodyJudged ==
    ASSUME RateInvariant, TypeOK', counters' = counters, opened' = opened, told' = told,
           clock <= clock',
           \A q \in Requests : /\ Judged(q)' = Judged(q)
                               /\ Judged(q) => /\ answer'[q] = answer[q] /\ req'[q] = req[q]
                                               /\ pc'[q] = pc[q] /\ now'[q] = now[q],
           ReadingsRecent', OnlyAnsweredHaveAnswers'
    PROVE  RateInvariant'
<1>1. \A q \in Requests : Judged(q) => Bucket(q)' = Bucket(q)
    BY DEF Bucket
<1>2. \A b, s : Allowed(b, s)' = Allowed(b, s)
    BY <1>1 DEF Allowed, Judged
<1>3. \A b \in Buckets : Present(b)' = Present(b)
    BY DEF Present
<1>4. clock \in Nat /\ clock' \in Nat
    BY DEF RateInvariant, TypeOK
<1>5. \A q \in Requests : Judged(q) => /\ Bucket(q) \in Buckets /\ Bucket(q)[1] = req[q].path
                                      /\ Window(req[q].path) \in Nat
                                      /\ opened[q] \in Nat
    BY BucketOf, RuleTypes DEF RateInvariant, JudgedFits, TypeOK
<1>6. JudgedFits'
    BY <1>4, <1>5 DEF RateInvariant, JudgedFits
<1>7. CountersCount'
    BY <1>2, <1>3, <1>4 DEF RateInvariant, CountersCount, TypeOK
<1>8. WindowsApart'
    <2> SUFFICES ASSUME NEW q \in Requests, Judged(q)
                 PROVE  /\ IF Present(Bucket(q))
                           THEN \/ opened[q] = counters[Bucket(q)].start
                                \/ opened[q] + Window(Bucket(q)[1]) <= counters[Bucket(q)].start
                           ELSE opened[q] + 2 * Window(Bucket(q)[1]) <= clock'
                        /\ \A r \in Requests : Judged(r) /\ Bucket(r) = Bucket(q) =>
                               \/ opened[r] = opened[q]
                               \/ opened[r] + Window(Bucket(q)[1]) <= opened[q]
                               \/ opened[q] + Window(Bucket(q)[1]) <= opened[r]
        BY <1>1, <1>3, <1>5 DEF WindowsApart
    <2> QED BY <1>4, <1>5 DEF RateInvariant, WindowsApart
<1>9. ToldTheEnd'
    BY DEF RateInvariant, ToldTheEnd, Judged
<1>10. WindowsExact'
    BY <1>1, <1>2 DEF RateInvariant, WindowsExact, Judged
<1> QED BY <1>6, <1>7, <1>8, <1>9, <1>10 DEF RateInvariant

LEMMA ArriveKeeps ==
    ASSUME RateInvariant, NEW p \in Requests, Arrive(p)
    PROVE  RateInvariant'
<1> USE DEF RateInvariant
<1>1. TypeOK'
    BY TypeArrive
<1>2. answer[p] = "none" /\ ~Judged(p)
    BY DEF OnlyAnsweredHaveAnswers, Arrive, Judged
<1>3. answer'[p] \in {"none", "passed", "https_required"}
    BY <1>2 DEF Arrive, Answer, TypeOK
<1>4. \A q \in Requests : q # p => /\ answer'[q] = answer[q] /\ req'[q] = req[q]
                                   /\ pc'[q] = pc[q] /\ now'[q] = now[q]
    BY DEF TypeOK, Arrive, Answer
<1>5. \A q \in Requests : /\ Judged(q)' = Judged(q)
                          /\ Judged(q) => /\ answer'[q] = answer[q] /\ req'[q] = req[q]
                                          /\ pc'[q] = pc[q] /\ now'[q] = now[q]
    BY <1>2, <1>3, <1>4 DEF Judged
<1>6. pc'[p] = "decide" => Limited(req'[p].path) /\ now'[p] = clock
    BY DEF TypeOK, Arrive, Answer
<1>7. clock' = clock /\ clock \in Nat \ {0} /\ MaxStall \in Nat
    BY RateLimiterAssumption DEF TypeOK, Arrive
<1>8. ReadingsRecent'
    BY <1>4, <1>6, <1>7 DEF ReadingsRecent
<1>9. OnlyAnsweredHaveAnswers'
    BY <1>2, <1>4 DEF OnlyAnsweredHaveAnswers, Arrive, Answer, TypeOK
<1>10. counters' = counters /\ opened' = opened /\ told' = told /\ clock <= clock'
    BY <1>7 DEF Arrive
<1> QED BY <1>1, <1>5, <1>8, <1>9, <1>10, NobodyJudged

LEMMA TickKeeps ==
    ASSUME RateInvariant, Tick
    PROVE  RateInvariant'
<1> USE DEF RateInvariant
<1>1. TypeOK'
    BY DEF TypeOK, Tick
<1>2. clock \in Nat /\ clock' = clock + 1
    BY DEF TypeOK, Tick
<1>3. ReadingsRecent'
    <2> SUFFICES ASSUME NEW p \in Requests, pc[p] = "decide"
                 PROVE  /\ Limited(req[p].path)
                        /\ 1 <= now[p] /\ now[p] <= clock' /\ clock' <= now[p] + MaxStall
        BY DEF ReadingsRecent, Tick
    <2> QED BY <1>2, RateLimiterAssumption DEF ReadingsRecent, Tick, TypeOK
<1>4. OnlyAnsweredHaveAnswers'
    BY DEF OnlyAnsweredHaveAnswers, Tick
<1>5. \A q \in Requests : /\ Judged(q)' = Judged(q)
                          /\ Judged(q) => /\ answer'[q] = answer[q] /\ req'[q] = req[q]
                                          /\ pc'[q] = pc[q] /\ now'[q] = now[q]
    BY DEF Judged, Tick
<1>6. counters' = counters /\ opened' = opened /\ told' = told /\ clock <= clock'
    BY <1>2 DEF Tick
<1> QED BY <1>1, <1>3, <1>4, <1>5, <1>6, NobodyJudged

LEMMA StutterKeeps ==
    ASSUME RateInvariant, UNCHANGED vars
    PROVE  RateInvariant'
<1> USE DEF RateInvariant
<1>1. TypeOK'
    BY DEF TypeOK, vars
<1>2. ReadingsRecent' /\ OnlyAnsweredHaveAnswers'
    BY DEF ReadingsRecent, OnlyAnsweredHaveAnswers, vars
<1>3. \A q \in Requests : /\ Judged(q)' = Judged(q)
                          /\ Judged(q) => /\ answer'[q] = answer[q] /\ req'[q] = req[q]
                                          /\ pc'[q] = pc[q] /\ now'[q] = now[q]
    BY DEF Judged, vars
<1>4. clock \in Nat /\ clock <= clock'
    BY DEF TypeOK, vars
<1> QED BY <1>1, <1>2, <1>3, <1>4, NobodyJudged DEF vars

----------------------------------------------------------------------------
(***************************************************************************)
(* A decision: the window it is made in, who is in it, and what becomes of *)
(* the counters.                                                           *)
(***************************************************************************)
LEMMA WindowOfDecision ==
    ASSUME RateInvariant, NEW p \in Requests, pc[p] = "decide",
           NEW b, b = Bucket(p), NEW c, c = Current(b, now[p])
    PROVE  /\ b \in Buckets /\ b[1] = req[p].path /\ Limited(b[1])
           /\ Max(b[1]) \in Nat \ {0} /\ Window(b[1]) \in Nat \ {0} /\ MaxStall <= Window(b[1])
           /\ now[p] \in Nat /\ now[p] <= clock /\ clock <= now[p] + MaxStall
           /\ c \in [start : Nat, count : Nat]
           /\ 1 <= c.start /\ c.start <= clock
           /\ c.start - MaxStall <= now[p] /\ now[p] < c.start + Window(b[1])
           /\ \A q \in Requests : Judged(q) /\ Bucket(q) = b =>
                 \/ opened[q] = c.start
                 \/ opened[q] + Window(b[1]) <= c.start
           /\ c.count = Cardinality(Allowed(b, c.start))
           /\ c.count > 0 => c = counters[b]
<1> USE DEF RateInvariant
<1>1. b \in Buckets /\ b[1] = req[p].path /\ b[1] \in Paths
    BY BucketOf
<1>2. Limited(b[1]) /\ 1 <= now[p] /\ now[p] <= clock /\ clock <= now[p] + MaxStall
    BY <1>1 DEF ReadingsRecent
<1>3. Max(b[1]) \in Nat \ {0} /\ Window(b[1]) \in Nat \ {0} /\ MaxStall <= Window(b[1])
    BY <1>1, <1>2, RuleTypes
<1>4. now[p] \in Nat /\ clock \in Nat /\ MaxStall \in Nat /\ counters[b] \in [start : Nat, count : Nat]
    BY <1>1, RateLimiterAssumption DEF TypeOK
<1>5. c \in [start : Nat, count : Nat]
    BY <1>1, <1>4, CurrentTyped
<1>6. CASE Present(b) /\ now[p] - counters[b].start < Window(b[1])
    <2>1. c = counters[b]
        BY <1>6 DEF Current
    <2>2. c.start # 0 /\ c.start <= clock
        BY <1>1, <1>6, <2>1 DEF Present, CountersCount
    <2>3. c.count = Cardinality(Allowed(b, c.start))
        BY <1>1, <1>6, <2>1 DEF CountersCount
    <2>4. \A q \in Requests : Judged(q) /\ Bucket(q) = b =>
              opened[q] = c.start \/ opened[q] + Window(b[1]) <= c.start
        BY <1>6, <2>1 DEF WindowsApart
    <2> QED BY <1>1, <1>2, <1>3, <1>4, <1>5, <1>6, <2>1, <2>2, <2>3, <2>4
<1>7. CASE ~(Present(b) /\ now[p] - counters[b].start < Window(b[1]))
    <2>1. c = [start |-> now[p], count |-> 0]
        BY <1>7 DEF Current
    <2>2. \A q \in Requests : Judged(q) /\ Bucket(q) = b => opened[q] + Window(b[1]) <= c.start
        <3> SUFFICES ASSUME NEW q \in Requests, Judged(q), Bucket(q) = b
                     PROVE  opened[q] + Window(b[1]) <= now[p]
            BY <2>1
        <3>1. opened[q] \in Nat
            BY DEF TypeOK
        <3>2. CASE Present(b)
            <4>1. counters[b].start + Window(b[1]) <= now[p]
                BY <1>3, <1>4, <1>7, <3>2
            <4>2. opened[q] = counters[b].start \/ opened[q] + Window(b[1]) <= counters[b].start
                BY <3>2 DEF WindowsApart
            <4> QED BY <1>3, <1>4, <3>1, <4>1, <4>2
        <3>3. CASE ~Present(b)
            <4>1. opened[q] + 2 * Window(b[1]) <= clock
                BY <3>3 DEF WindowsApart
            <4> QED BY <1>2, <1>3, <1>4, <3>1, <4>1
        <3> QED BY <3>2, <3>3
    <2>3. Allowed(b, c.start) = {}
        <3> SUFFICES ASSUME NEW q \in Allowed(b, c.start) PROVE FALSE
            OBVIOUS
        <3>1. q \in Requests /\ Judged(q) /\ Bucket(q) = b /\ opened[q] = c.start
            BY DEF Allowed, Judged
        <3> QED BY <1>3, <1>5, <2>2, <3>1
    <2>4. c.count = Cardinality(Allowed(b, c.start))
        BY <2>1, <2>3, FS_EmptySet
    <2>5. c.start = now[p] /\ c.count = 0
        BY <2>1
    <2> QED BY <1>1, <1>2, <1>3, <1>4, <1>5, <2>2, <2>4, <2>5
<1> QED BY <1>6, <1>7

\* Nobody but p is judged by its decision.
LEMMA OthersStay ==
    ASSUME RateInvariant, NEW p \in Requests, Decide(p)
    PROVE  /\ ~Judged(p) /\ answer[p] = "none" /\ Judged(p)'
           /\ pc'[p] = "answered"
           /\ \A q \in Requests : Bucket(q)' = Bucket(q)
           /\ \A q \in Requests : q # p =>
                 /\ Judged(q)' = Judged(q) /\ answer'[q] = answer[q] /\ pc'[q] = pc[q]
                 /\ opened'[q] = opened[q] /\ told'[q] = told[q]
           /\ req' = req /\ now' = now /\ clock' = clock
           /\ opened'[p] = Current(Bucket(p), now[p]).start
<1> USE DEF RateInvariant
<1>1. answer[p] = "none" /\ ~Judged(p)
    BY DEF OnlyAnsweredHaveAnswers, Decide, Judged
<1>2. answer'[p] \in {"allowed", "rate_limited"} /\ pc'[p] = "answered"
    BY DEF Decide, Answer, TypeOK
<1>3. \A q \in Requests : q # p =>
          /\ answer'[q] = answer[q] /\ pc'[q] = pc[q]
          /\ opened'[q] = opened[q] /\ told'[q] = told[q]
    BY DEF Decide, Answer, TypeOK
<1>4. req' = req /\ now' = now /\ clock' = clock
    BY DEF Decide
<1>5. opened'[p] = Current(Bucket(p), now[p]).start
    BY DEF Decide, TypeOK
<1> QED BY <1>1, <1>2, <1>3, <1>4, <1>5 DEF Judged, Bucket

\* The counters after a decision: the one of the window is up to date or was not needed, and
\* what is gone is at least two windows old.
LEMMA CountersAfter ==
    ASSUME RateInvariant, NEW p \in Requests, Decide(p),
           NEW b, b = Bucket(p), NEW c, c = Current(b, now[p])
    PROVE  /\ answer'[p] = "rate_limited" =>
                 /\ c.count >= Max(b[1]) /\ counters' = counters /\ c = counters[b]
                 /\ told'[p] = RetryTime(b, c, now[p])
           /\ answer'[p] = "allowed" =>
                 /\ c.count < Max(b[1])
                 /\ told'[p] = told[p]
                 /\ counters'[b] = [start |-> c.start, count |-> c.count + 1]
                 /\ \A x \in Buckets : x # b =>
                       \/ counters'[x] = counters[x]
                       \/ /\ counters'[x] = NoCounter /\ counters[x].start # 0
                          /\ counters[x].start + 2 * Window(x[1]) <= now[p]
           /\ answer'[p] \in {"allowed", "rate_limited"}
<1> USE DEF RateInvariant
<1>1. pc[p] = "decide"
    BY DEF Decide
<1>2. /\ b \in Buckets /\ Max(b[1]) \in Nat \ {0} /\ Window(b[1]) \in Nat \ {0}
      /\ now[p] \in Nat /\ c \in [start : Nat, count : Nat]
      /\ now[p] < c.start + Window(b[1]) /\ 1 <= c.start
      /\ c.count > 0 => c = counters[b]
    BY <1>1, WindowOfDecision
<1>3. counters \in [Buckets -> [start : Nat, count : Nat]]
    BY DEF TypeOK
<1>4. CASE Full(b, c)
    <2>1. c.count >= Max(b[1]) /\ answer'[p] = "rate_limited"
        BY <1>4 DEF Full, Decide, Answer, TypeOK
    <2>2. c = counters[b]
        BY <1>2, <2>1
    <2>3. counters' = [counters EXCEPT ![b] = c]
        BY <1>4 DEF Decide
    <2>4. counters' = counters
        BY <1>3, <2>2, <2>3
    <2>5. told'[p] = RetryTime(b, c, now[p])
        BY <1>4 DEF Decide, TypeOK
    <2> QED BY <2>1, <2>2, <2>4, <2>5
<1>5. CASE ~Full(b, c)
    <2> DEFINE cs == [counters EXCEPT ![b] = [c EXCEPT !.count = @ + 1]]
    <2>1. c.count < Max(b[1]) /\ answer'[p] = "allowed" /\ told'[p] = told[p]
        BY <1>2, <1>5 DEF Full, Decide, Answer, TypeOK
    <2>2. counters' = CleanUp(cs, now[p])
        BY <1>5 DEF Decide
    <2>3. /\ cs \in [Buckets -> [start : Nat, count : Nat]]
          /\ cs[b] = [start |-> c.start, count |-> c.count + 1]
          /\ \A x \in Buckets : x # b => cs[x] = counters[x]
        BY <1>2, <1>3
    <2> HIDE DEF cs
    <2>4. \A x \in Buckets :
              \/ counters'[x] = cs[x]
              \/ /\ counters'[x] = NoCounter /\ cs[x].start # 0
                 /\ cs[x].start + 2 * Window(x[1]) <= now[p]
        BY <1>2, <2>2, <2>3, CleanUpDropsOld
    <2>5. ~(cs[b].start + 2 * Window(b[1]) <= now[p])
        BY <1>2, <2>3
    <2> QED BY <1>2, <2>1, <2>3, <2>4, <2>5
<1> QED BY <1>4, <1>5

\* Allowed in the state after a step.
AllowedThen(x, s) ==
    {p \in Requests : answer'[p] = "allowed" /\ Bucket(p)' = x /\ opened'[p] = s}

\* An attempt that is allowed joins those of its window and of no other.
LEMMA AllowedAfter ==
    ASSUME RateInvariant, NEW p \in Requests, Decide(p),
           NEW b, b = Bucket(p), NEW c, c = Current(b, now[p])
    PROVE  /\ answer'[p] = "rate_limited" => \A x, s : AllowedThen(x, s) = Allowed(x, s)
           /\ answer'[p] = "allowed" =>
                 /\ \A x, s : x # b \/ s # c.start => AllowedThen(x, s) = Allowed(x, s)
                 /\ Cardinality(AllowedThen(b, c.start)) = Cardinality(Allowed(b, c.start)) + 1
<1>1. /\ answer[p] = "none" /\ opened'[p] = c.start /\ Bucket(p)' = b
      /\ \A q \in Requests : Bucket(q)' = Bucket(q)
      /\ \A q \in Requests : q # p => answer'[q] = answer[q] /\ opened'[q] = opened[q]
    BY OthersStay
<1>2. \A x, s : p \notin Allowed(x, s)
    BY <1>1 DEF Allowed, AllowedThen
<1>3. \A x, s : \A q \in Requests : q # p => (q \in AllowedThen(x, s) <=> q \in Allowed(x, s))
    BY <1>1 DEF Allowed, AllowedThen
<1>4. \A x, s : Allowed(x, s) \subseteq Requests /\ AllowedThen(x, s) \subseteq Requests
    BY DEF Allowed, AllowedThen
<1>5. \A x, s : p \in AllowedThen(x, s) <=> answer'[p] = "allowed" /\ x = b /\ s = c.start
    BY <1>1 DEF Allowed, AllowedThen
<1>6. \A x, s : p \notin AllowedThen(x, s) => AllowedThen(x, s) = Allowed(x, s)
    BY <1>2, <1>3, <1>4
<1>7. ASSUME answer'[p] = "allowed"
      PROVE  Cardinality(AllowedThen(b, c.start)) = Cardinality(Allowed(b, c.start)) + 1
    <2>1. AllowedThen(b, c.start) = Allowed(b, c.start) \cup {p}
        BY <1>3, <1>4, <1>5, <1>7
    <2>2. Cardinality(Allowed(b, c.start) \cup {p}) = Cardinality(Allowed(b, c.start)) + 1
        BY <1>2, AllowedFinite, FS_AddElement
    <2> QED BY <2>1, <2>2
<1> QED BY <1>5, <1>6, <1>7

LEMMA DecideKeeps ==
    ASSUME RateInvariant, NEW p \in Requests, Decide(p)
    PROVE  RateInvariant'
<1> DEFINE b == Bucket(p)
           c == Current(b, now[p])
<1>1. /\ b \in Buckets /\ b[1] = req[p].path /\ Limited(b[1])
      /\ Max(b[1]) \in Nat \ {0} /\ Window(b[1]) \in Nat \ {0}
      /\ now[p] \in Nat /\ now[p] <= clock
      /\ c \in [start : Nat, count : Nat]
      /\ 1 <= c.start /\ c.start <= clock
      /\ c.start - MaxStall <= now[p] /\ now[p] < c.start + Window(b[1])
      /\ \A q \in Requests : Judged(q) /\ Bucket(q) = b =>
            \/ opened[q] = c.start
            \/ opened[q] + Window(b[1]) <= c.start
      /\ c.count = Cardinality(Allowed(b, c.start))
      /\ c.count > 0 => c = counters[b]
    BY WindowOfDecision DEF Decide
<1>2. /\ ~Judged(p) /\ Judged(p)' /\ pc'[p] = "answered"
      /\ \A q \in Requests : Bucket(q)' = Bucket(q)
      /\ \A q \in Requests : q # p =>
            /\ Judged(q)' = Judged(q) /\ answer'[q] = answer[q] /\ pc'[q] = pc[q]
            /\ opened'[q] = opened[q] /\ told'[q] = told[q]
      /\ req' = req /\ now' = now /\ clock' = clock
      /\ opened'[p] = c.start
    BY OthersStay
<1>3. /\ answer'[p] = "rate_limited" =>
            /\ c.count >= Max(b[1]) /\ counters' = counters /\ c = counters[b]
            /\ told'[p] = RetryTime(b, c, now[p])
      /\ answer'[p] = "allowed" =>
            /\ c.count < Max(b[1])
            /\ counters'[b] = [start |-> c.start, count |-> c.count + 1]
            /\ \A x \in Buckets : x # b =>
                  \/ counters'[x] = counters[x]
                  \/ /\ counters'[x] = NoCounter /\ counters[x].start # 0
                     /\ counters[x].start + 2 * Window(x[1]) <= now[p]
      /\ answer'[p] \in {"allowed", "rate_limited"}
    BY CountersAfter
<1>4. /\ answer'[p] = "rate_limited" => \A x, s : AllowedThen(x, s) = Allowed(x, s)
      /\ answer'[p] = "allowed" =>
            /\ \A x, s : x # b \/ s # c.start => AllowedThen(x, s) = Allowed(x, s)
            /\ Cardinality(AllowedThen(b, c.start)) = Cardinality(Allowed(b, c.start)) + 1
    BY AllowedAfter
<1>5. \A q \in Requests : Judged(q) =>
          /\ Bucket(q) \in Buckets /\ Bucket(q)[1] = req[q].path
          /\ Window(req[q].path) \in Nat /\ Max(req[q].path) \in Nat /\ opened[q] \in Nat
    BY BucketOf, RuleTypes DEF RateInvariant, JudgedFits, TypeOK
<1>6. clock \in Nat /\ counters \in [Buckets -> [start : Nat, count : Nat]]
    BY DEF RateInvariant, TypeOK
<1> HIDE DEF b, c
<1>7. TypeOK'
    BY TypeDecide DEF RateInvariant
<1>8. ReadingsRecent' /\ OnlyAnsweredHaveAnswers'
    BY <1>2 DEF RateInvariant, ReadingsRecent, OnlyAnsweredHaveAnswers
<1>9. JudgedFits'
    <2> SUFFICES ASSUME NEW q \in Requests, Judged(q)'
                 PROVE  /\ pc'[q] = "answered" /\ Limited(req[q].path)
                        /\ 1 <= opened'[q] /\ opened'[q] <= clock
                        /\ opened'[q] - MaxStall <= now[q]
                        /\ now[q] < opened'[q] + Window(req[q].path)
        BY <1>2 DEF JudgedFits
    <2>1. CASE q = p
        BY <1>1, <1>2, <2>1
    <2>2. CASE q # p
        BY <1>2, <2>2 DEF RateInvariant, JudgedFits
    <2> QED BY <2>1, <2>2
<1>10. CountersCount'
    <2> SUFFICES ASSUME NEW x \in Buckets
                 PROVE  /\ counters'[x].start <= clock
                        /\ counters'[x].start # 0 =>
                              counters'[x].count = Cardinality(AllowedThen(x, counters'[x].start))
        BY <1>2 DEF CountersCount, Present, Allowed, AllowedThen
    <2>1. /\ counters[x].start <= clock
          /\ counters[x].start # 0 =>
                counters[x].count = Cardinality(Allowed(x, counters[x].start))
        BY DEF RateInvariant, CountersCount, Present
    <2>2. CASE answer'[p] = "rate_limited"
        BY <1>3, <1>4, <2>1, <2>2
    <2>3. CASE answer'[p] = "allowed" /\ x = b
        BY <1>1, <1>3, <1>4, <2>3
    <2>4. CASE answer'[p] = "allowed" /\ x # b
        <3>1. CASE counters'[x] = counters[x]
            BY <1>4, <2>1, <2>4, <3>1
        <3>2. CASE counters'[x] = NoCounter
            BY <1>6, <3>2 DEF NoCounter
        <3> QED BY <1>3, <2>4, <3>1, <3>2
    <2> QED BY <1>3, <2>2, <2>3, <2>4
<1>11. WindowsApart'
    <2>1. \A q \in Requests, x \in Buckets : Judged(q) /\ Bucket(q) = x /\ x # b =>
              IF counters'[x].start # 0
              THEN \/ opened[q] = counters'[x].start
                   \/ opened[q] + Window(x[1]) <= counters'[x].start
              ELSE opened[q] + 2 * Window(x[1]) <= clock
        <3> SUFFICES ASSUME NEW q \in Requests, NEW x \in Buckets, Judged(q), Bucket(q) = x, x # b
                     PROVE  IF counters'[x].start # 0
                            THEN \/ opened[q] = counters'[x].start
                                 \/ opened[q] + Window(x[1]) <= counters'[x].start
                            ELSE opened[q] + 2 * Window(x[1]) <= clock
            OBVIOUS
        <3>1. IF counters[x].start # 0
              THEN \/ opened[q] = counters[x].start
                   \/ opened[q] + Window(x[1]) <= counters[x].start
              ELSE opened[q] + 2 * Window(x[1]) <= clock
            BY DEF RateInvariant, WindowsApart, Present
        <3>2. CASE counters'[x] = counters[x]
            BY <3>1, <3>2
        <3>3. CASE /\ counters'[x] = NoCounter /\ counters[x].start # 0
                   /\ counters[x].start + 2 * Window(x[1]) <= now[p]
            <4>1. opened[q] <= counters[x].start
                BY <1>5, <1>6, <3>1, <3>3
            <4>2. Window(x[1]) \in Nat /\ opened[q] \in Nat /\ counters[x].start \in Nat
                BY <1>5, <1>6
            <4>3. opened[q] + 2 * Window(x[1]) <= clock
                BY <1>1, <1>6, <3>3, <4>1, <4>2
            <4>4. counters'[x].start = 0
                BY <3>3 DEF NoCounter
            <4> QED BY <4>3, <4>4
        <3> QED BY <1>3, <3>2, <3>3
    <2>2. counters'[b].start = c.start
        BY <1>3
    <2>3. \A q \in Requests : Judged(q)' /\ Bucket(q) = b =>
              \/ opened'[q] = c.start
              \/ opened'[q] + Window(b[1]) <= c.start
        BY <1>1, <1>2
    <2>4. \A q, r \in Requests : Judged(q)' /\ Judged(r)' /\ Bucket(q) = Bucket(r) =>
              \/ opened'[r] = opened'[q]
              \/ opened'[r] + Window(Bucket(q)[1]) <= opened'[q]
              \/ opened'[q] + Window(Bucket(q)[1]) <= opened'[r]
        <3> SUFFICES ASSUME NEW q \in Requests, NEW r \in Requests,
                            Judged(q)', Judged(r)', Bucket(q) = Bucket(r)
                     PROVE  \/ opened'[r] = opened'[q]
                            \/ opened'[r] + Window(Bucket(q)[1]) <= opened'[q]
                            \/ opened'[q] + Window(Bucket(q)[1]) <= opened'[r]
            OBVIOUS
        <3>1. CASE q = p \/ r = p
            BY <1>2, <2>3, <3>1 DEF b
        <3>2. CASE q # p /\ r # p
            BY <1>2, <3>2 DEF RateInvariant, WindowsApart
        <3> QED BY <3>1, <3>2
    <2>5. \A q \in Requests : Judged(q)' =>
              IF counters'[Bucket(q)].start # 0
              THEN \/ opened'[q] = counters'[Bucket(q)].start
                   \/ opened'[q] + Window(Bucket(q)[1]) <= counters'[Bucket(q)].start
              ELSE opened'[q] + 2 * Window(Bucket(q)[1]) <= clock
        <3> SUFFICES ASSUME NEW q \in Requests, Judged(q)'
                     PROVE  IF counters'[Bucket(q)].start # 0
                            THEN \/ opened'[q] = counters'[Bucket(q)].start
                                 \/ opened'[q] + Window(Bucket(q)[1]) <= counters'[Bucket(q)].start
                            ELSE opened'[q] + 2 * Window(Bucket(q)[1]) <= clock
            OBVIOUS
        <3>1. CASE Bucket(q) = b
            BY <1>1, <2>2, <2>3, <3>1
        <3>2. CASE Bucket(q) # b
            <4>1. q # p
                BY <3>2 DEF b
            <4>2. Judged(q) /\ opened'[q] = opened[q] /\ Bucket(q) \in Buckets
                BY <1>2, <1>5, <4>1
            <4> QED BY <2>1, <3>2, <4>2
        <3> QED BY <3>1, <3>2
    <2> QED BY <1>2, <2>4, <2>5 DEF WindowsApart, Present
<1>12. ToldTheEnd'
    <2> SUFFICES ASSUME NEW q \in Requests, answer'[q] = "rate_limited"
                 PROVE  opened'[q] + Window(req[q].path) <= told'[q]
        BY <1>2 DEF ToldTheEnd
    <2>1. CASE q = p
        <3>1. c.start + Window(b[1]) <= RetryTime(b, c, now[p])
            BY <1>1, RetryTimeTyped
        <3> QED BY <1>1, <1>2, <1>3, <2>1, <3>1
    <2>2. CASE q # p
        BY <1>2, <2>2 DEF RateInvariant, ToldTheEnd
    <2> QED BY <2>1, <2>2
<1>13. WindowsExact'
    <2>1. \A q \in Requests : Judged(q) =>
              /\ Cardinality(Allowed(Bucket(q), opened[q])) <= Max(req[q].path)
              /\ answer[q] = "rate_limited" =>
                    Cardinality(Allowed(Bucket(q), opened[q])) = Max(req[q].path)
        BY DEF RateInvariant, WindowsExact
    <2>2. c.count <= Max(b[1])
        <3>1. CASE c.count = 0
            BY <1>1, <3>1
        <3>2. CASE c.count # 0
            <4>1. Allowed(b, c.start) # {}
                BY <1>1, <3>2, FS_EmptySet
            <4>2. PICK q \in Requests : answer[q] = "allowed" /\ Bucket(q) = b /\ opened[q] = c.start
                BY <4>1 DEF Allowed
            <4>3. Judged(q) /\ Bucket(q)[1] = req[q].path
                BY <1>5, <4>2 DEF Judged
            <4> QED BY <1>1, <2>1, <4>2, <4>3
        <3> QED BY <3>1, <3>2
    <2> SUFFICES ASSUME NEW q \in Requests, Judged(q)'
                 PROVE  LET n == Cardinality(AllowedThen(Bucket(q), opened'[q])) IN
                        /\ n <= Max(req[q].path)
                        /\ answer'[q] = "rate_limited" => n = Max(req[q].path)
        BY <1>2 DEF WindowsExact, Allowed, AllowedThen
    <2>3. q # p => /\ Judged(q) /\ opened'[q] = opened[q] /\ answer'[q] = answer[q]
                   /\ Bucket(q)[1] = req[q].path
        BY <1>2, <1>5
    <2>4. q = p => Bucket(q) = b /\ opened'[q] = c.start /\ req[q].path = b[1]
        BY <1>1, <1>2 DEF b
    <2>5. CASE answer'[p] = "rate_limited"
        <3>1. CASE q = p
            BY <1>1, <1>3, <1>4, <2>2, <2>4, <2>5, <3>1
        <3>2. CASE q # p
            BY <1>4, <2>1, <2>3, <2>5, <3>2
        <3> QED BY <3>1, <3>2
    <2>6. CASE answer'[p] = "allowed"
        <3>1. CASE Bucket(q) = b /\ opened'[q] = c.start
            <4>1. Cardinality(AllowedThen(Bucket(q), opened'[q])) = c.count + 1
                BY <1>1, <1>4, <2>6, <3>1
            <4>2. c.count + 1 <= Max(b[1]) /\ req[q].path = b[1]
                BY <1>1, <1>3, <2>3, <2>4, <2>6, <3>1
            <4>3. answer'[q] # "rate_limited"
                <5>1. CASE q = p
                    BY <2>6, <5>1
                <5>2. CASE q # p
                    BY <1>1, <1>3, <2>1, <2>3, <2>6, <3>1, <4>2, <5>2
                <5> QED BY <5>1, <5>2
            <4> QED BY <4>1, <4>2, <4>3
        <3>2. CASE ~(Bucket(q) = b /\ opened'[q] = c.start)
            <4>1. q # p
                BY <2>4, <3>2
            <4>2. AllowedThen(Bucket(q), opened'[q]) = Allowed(Bucket(q), opened[q])
                BY <1>4, <2>3, <2>6, <3>2, <4>1
            <4> QED BY <2>1, <2>3, <4>1, <4>2
        <3> QED BY <3>1, <3>2
    <2> QED BY <1>3, <2>5, <2>6
<1> QED BY <1>7, <1>8, <1>9, <1>10, <1>11, <1>12, <1>13 DEF RateInvariant

----------------------------------------------------------------------------
(***************************************************************************)
(* Theorems.                                                               *)
(***************************************************************************)

\* Counters are exact and windows of a bucket never overlap, whatever order the requests
\* are decided in and whatever is cleaned up.
THEOREM RateInductive == Spec => []RateInvariant
<1>1. Init => RateInvariant
    BY InvariantInit
<1>2. RateInvariant /\ [Next]_vars => RateInvariant'
    BY ArriveKeeps, TickKeeps, DecideKeeps, StutterKeeps DEF Next
<1> QED BY <1>1, <1>2, PTL DEF Spec

\* Every window admits as many attempts as its rule says and no more, and refuses nobody
\* before.
THEOREM AttemptsCapped == Spec => []WindowsExact
<1>1. RateInvariant => WindowsExact
    BY DEF RateInvariant
<1> QED BY <1>1, RateInductive, PTL

\* Who waits as long as Retry-After says is not refused by the same window.
THEOREM RetriesHonest == Spec => []RetryAfterHonest
<1>1. RateInvariant => RetryAfterHonest
    <2> SUFFICES ASSUME RateInvariant, NEW p \in Requests, NEW q \in Requests,
                        answer[p] = "rate_limited", Judged(q), Bucket(q) = Bucket(p),
                        told[p] <= now[q], opened[q] = opened[p]
                 PROVE  FALSE
        BY DEF RetryAfterHonest
    <2>1. Judged(p)
        BY DEF Judged
    <2>2. /\ pc[p] = "answered" /\ pc[q] = "answered"
          /\ now[q] < opened[q] + Window(req[q].path)
        BY <2>1 DEF RateInvariant, JudgedFits
    <2>3. req[q].path = req[p].path /\ req[p].path \in Paths
        BY <2>2, BucketOf DEF RateInvariant, Bucket
    <2>4. opened[p] + Window(req[p].path) <= told[p]
        BY DEF RateInvariant, ToldTheEnd
    <2>5. /\ now[q] \in Nat /\ told[p] \in Nat /\ opened[p] \in Nat /\ Window(req[p].path) \in Nat
        BY <2>3, RuleTypes DEF RateInvariant, TypeOK
    <2> QED BY <2>2, <2>3, <2>4, <2>5
<1> QED BY <1>1, RateInductive, PTL

\* In any stretch as long as a window, less the time a request may be held up, a client
\* makes at most as many attempts as two windows admit.
THEOREM BurstsBounded == Spec => []BurstBounded
<1>1. RateInvariant => BurstBounded
    <2> SUFFICES ASSUME RateInvariant, NEW b \in Buckets, NEW t \in 1..clock, Limited(b[1])
                 PROVE  Cardinality({p \in Requests : /\ answer[p] = "allowed" /\ Bucket(p) = b
                                                      /\ t <= now[p]
                                                      /\ now[p] < t + Window(b[1]) - MaxStall})
                            <= 2 * Max(b[1])
        BY DEF BurstBounded
    <2> DEFINE S == {p \in Requests : /\ answer[p] = "allowed" /\ Bucket(p) = b
                                      /\ t <= now[p]
                                      /\ now[p] < t + Window(b[1]) - MaxStall}
    <2>1. /\ clock \in Nat /\ t \in Nat /\ Max(b[1]) \in Nat /\ Window(b[1]) \in Nat
          /\ MaxStall \in Nat
        BY RuleTypes, RateLimiterAssumption DEF RateInvariant, TypeOK, Buckets
    <2>2. \A p \in S : /\ p \in Requests /\ Judged(p) /\ Bucket(p) = b
                       /\ req[p].path = b[1] /\ opened[p] \in Nat /\ now[p] \in Nat
                       /\ opened[p] - MaxStall <= now[p]
                       /\ now[p] < opened[p] + Window(b[1])
                       /\ t <= now[p] /\ now[p] < t + Window(b[1]) - MaxStall
        BY BucketOf DEF RateInvariant, JudgedFits, TypeOK, Judged
    <2>3. \A p \in S : \A q \in S :
              \/ opened[q] = opened[p]
              \/ opened[q] + Window(b[1]) <= opened[p]
              \/ opened[p] + Window(b[1]) <= opened[q]
        BY <2>2 DEF RateInvariant, WindowsApart
    <2>4. \A p \in S : Cardinality(Allowed(b, opened[p])) <= Max(b[1])
        BY <2>2 DEF RateInvariant, WindowsExact
    <2>5. IsFiniteSet(S)
        BY RateLimiterAssumption, FS_Subset
    <2>6. CASE S = {}
        <3> HIDE DEF S
        <3>1. Cardinality(S) = 0
            BY <2>6, FS_EmptySet
        <3>2. Cardinality(S) <= 2 * Max(b[1])
            BY <2>1, <3>1
        <3> QED BY <3>2 DEF S
    <2>7. CASE S # {}
        <3>1. PICK p \in S : TRUE
            BY <2>7
        <3>2. CASE \A q \in S : opened[q] = opened[p]
            <4>1. S \subseteq Allowed(b, opened[p])
                BY <2>2, <3>1, <3>2 DEF Allowed
            <4>2. Cardinality(S) <= Cardinality(Allowed(b, opened[p]))
                BY <4>1, AllowedFinite, FS_Subset
            <4>3. Cardinality(S) \in Nat
                BY <2>5, FS_CardinalityType
            <4> QED BY <2>1, <2>4, <3>1, <4>2, <4>3, AllowedFinite
        <3>3. CASE \E q \in S : opened[q] # opened[p]
            <4>1. PICK q \in S : opened[q] # opened[p]
                BY <3>3
            <4>2. \A r \in S : opened[r] = opened[p] \/ opened[r] = opened[q]
                <5> SUFFICES ASSUME NEW r \in S, opened[r] # opened[p], opened[r] # opened[q]
                             PROVE  FALSE
                    OBVIOUS
                <5> HIDE DEF S
                <5>1. /\ opened[p] \in Nat /\ opened[q] \in Nat /\ opened[r] \in Nat
                      /\ now[p] \in Nat /\ now[q] \in Nat /\ now[r] \in Nat
                    BY <2>2, <3>1, <4>1
                <5>2. /\ \/ opened[q] + Window(b[1]) <= opened[p]
                         \/ opened[p] + Window(b[1]) <= opened[q]
                      /\ \/ opened[r] + Window(b[1]) <= opened[p]
                         \/ opened[p] + Window(b[1]) <= opened[r]
                      /\ \/ opened[r] + Window(b[1]) <= opened[q]
                         \/ opened[q] + Window(b[1]) <= opened[r]
                    BY <2>3, <3>1, <4>1
                <5>3. /\ t < opened[p] + Window(b[1]) /\ opened[p] < t + Window(b[1])
                      /\ t < opened[q] + Window(b[1]) /\ opened[q] < t + Window(b[1])
                      /\ t < opened[r] + Window(b[1]) /\ opened[r] < t + Window(b[1])
                    BY <2>1, <2>2, <3>1, <4>1, <5>1
                <5> QED BY <2>1, <5>1, <5>2, <5>3
            <4>3. S \subseteq Allowed(b, opened[p]) \cup Allowed(b, opened[q])
                BY <2>2, <4>2 DEF Allowed
            <4>4. /\ IsFiniteSet(Allowed(b, opened[p])) /\ IsFiniteSet(Allowed(b, opened[q]))
                  /\ Cardinality(Allowed(b, opened[p])) \in Nat
                  /\ Cardinality(Allowed(b, opened[q])) \in Nat
                BY AllowedFinite
            <4> DEFINE A == Allowed(b, opened[p])
                       B == Allowed(b, opened[q])
            <4> HIDE DEF A, B
            <4>5. /\ IsFiniteSet(A \cup B)
                  /\ Cardinality(A \cup B) = Cardinality(A) + Cardinality(B) - Cardinality(A \cap B)
                  /\ Cardinality(A \cap B) \in Nat
                <5>1. IsFiniteSet(A) /\ IsFiniteSet(B)
                    BY <4>4 DEF A, B
                <5> QED BY <5>1, FS_Union, FS_Intersection, FS_CardinalityType
            <4>6. Cardinality(S) <= Cardinality(A \cup B) /\ Cardinality(S) \in Nat
                BY <2>5, <4>3, <4>5, FS_Subset, FS_CardinalityType DEF A, B
            <4>7. Cardinality(A) <= Max(b[1]) /\ Cardinality(B) <= Max(b[1])
                BY <2>4, <3>1, <4>1 DEF A, B
            <4>8. Cardinality(A) \in Nat /\ Cardinality(B) \in Nat
                BY <4>4 DEF A, B
            <4> HIDE DEF S
            <4>9. Cardinality(S) <= 2 * Max(b[1])
                BY <2>1, <4>5, <4>6, <4>7, <4>8
            <4> QED BY <4>9 DEF S
        <3> QED BY <3>2, <3>3
    <2> QED BY <2>6, <2>7
<1> QED BY <1>1, RateInductive, PTL

=============================================================================
