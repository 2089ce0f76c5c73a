--------------------------- MODULE RpcPoolProofs ---------------------------
(***************************************************************************)
(* What the pool of public nodes promises, for any number of callers and   *)
(* nodes, any questions, rates, limits and pauses, and any troubles.       *)
(***************************************************************************)
EXTENDS RpcPool, ProgramMathProofs

-----------------------------------------------------------------------------
(* The smallest and the largest.                                           *)

LEMMA MinLemma ==
  ASSUME NEW S \in SUBSET Nat, S # {}
  PROVE  Min(S) \in S
<1>1. PICK m \in S : \A l \in S : ~(<<l, m>> \in OpToRel(<, Nat))
  BY WFMin, NatLessThanWellFounded
<1>2. \A l \in S : ~(l < m)
  BY <1>1 DEF OpToRel
<1>3. \A l \in S : m <= l
  BY <1>2
<1> QED BY <1>3 DEF Min

LEMMA MaxOfThree ==
  ASSUME NEW a \in Nat, NEW b \in Nat, NEW c \in Nat
  PROVE  Max({a, b, c}) \in Nat
<1>1. \E x \in {a, b, c} : \A y \in {a, b, c} : x >= y
  OBVIOUS
<1>2. Max({a, b, c}) \in {a, b, c}
  BY <1>1 DEF Max
<1> QED BY <1>2

LEMMA WaitOk ==
  ASSUME NEW e \in Endpoint, now \in Nat
  PROVE  Wait(e) \in Nat
<1> DEFINE a == SatSub(e.cooldownUntil, now)
           b == IF e.tokens >= TOKEN THEN 0 ELSE CeilDiv(TOKEN - e.tokens, RPS)
           c == IF e.inFlight >= MAX_IN_FLIGHT THEN 1 ELSE 0
<1>1. /\ e.cooldownUntil \in Nat /\ e.tokens \in Nat /\ RPS \in Nat \ {0} /\ TOKEN \in Nat \ {0}
  BY NumbersAssumption DEF Endpoint
<1>2. a \in Nat
  BY <1>1 DEF SatSub
<1>3. b \in Nat
  <2>1. CASE e.tokens >= TOKEN
    BY <2>1
  <2>2. CASE ~(e.tokens >= TOKEN)
    <3>1. TOKEN - e.tokens \in Nat
      BY <1>1, <2>2
    <3> QED BY <1>1, <2>2, <3>1, CeilLemma
  <2> QED BY <2>1, <2>2
<1>4. c \in Nat
  OBVIOUS
<1> HIDE DEF a, b, c
<1>5. Max({a, b, c}) \in Nat
  BY <1>2, <1>3, <1>4, MaxOfThree
<1> QED BY <1>5 DEF Wait, a, b, c

-----------------------------------------------------------------------------
(* Nodes.                                                                  *)

\* What node e has earned by time t.
Earned(e, t) == AtMost(Cap, e.tokens + RPS * (t - e.refilledAt))

LEMMA CapOk == Cap \in Nat \ {0} /\ TOKEN <= Cap /\ RPS \in Nat \ {0} /\ TOKEN \in Nat \ {0}
<1>1. RPS \in Nat \ {0} /\ TOKEN \in Nat \ {0}
  BY NumbersAssumption
<1> QED BY <1>1 DEF Cap

LEMMA TopStreakOk == TOP_STREAK \in Nat \ {0}
<1>1. LIMITED_TOP \in Nat /\ FAILED_TOP \in Nat
  BY NumbersAssumption
<1> QED BY <1>1 DEF TOP_STREAK, AtLeast

LEMMA EndpointNumbers ==
  ASSUME NEW e \in Endpoint
  PROVE  /\ e.tokens \in 0..Cap /\ e.refilledAt \in Nat /\ e.inFlight \in Nat
         /\ e.cooldownUntil \in Nat /\ e.failStreak \in 0..TOP_STREAK
         /\ e.blocked \in [Methods -> Nat] /\ e.logRangeMax \in 1..NoLimit /\ e.logRangeUntil \in Nat
BY DEF Endpoint

LEMMA EarnedOk ==
  ASSUME NEW e \in Endpoint, NEW t \in Nat, e.refilledAt <= t
  PROVE  /\ Earned(e, t) \in 0..Cap
         /\ Earned(e, t + 1) = AtMost(Cap, Earned(e, t) + RPS)
         /\ e.refilledAt = t => Earned(e, t) = e.tokens
<1> DEFINE d == t - e.refilledAt  x == RPS * d
<1>1. e.tokens \in 0..Cap /\ d \in Nat /\ e.refilledAt \in Nat
  BY EndpointNumbers
<1>2. x \in Nat /\ RPS * (d + 1) = x + RPS /\ (d = 0 => x = 0)
  BY <1>1, CapOk, Z3
<1>3. (t + 1) - e.refilledAt = d + 1 /\ (e.refilledAt = t => d = 0)
  BY <1>1
<1>4. Earned(e, t) = AtMost(Cap, e.tokens + x) /\ Earned(e, t + 1) = AtMost(Cap, e.tokens + (x + RPS))
  BY <1>2, <1>3 DEF Earned
<1> HIDE DEF d, x
<1> QED BY <1>1, <1>2, <1>3, <1>4, CapOk DEF AtMost

\* A refill writes down what was earned, and changes nothing else; what was learned of
\* ranges may be forgotten with it.
LEMMA RefillOk ==
  ASSUME NEW e \in Endpoint, now \in Nat, e.refilledAt <= now,
         NEW f, f = refill(e) \/ f = Forget(refill(e))
  PROVE  /\ f \in Endpoint /\ f.refilledAt = now /\ f.tokens = Earned(e, now)
         /\ f.inFlight = e.inFlight /\ f.cooldownUntil = e.cooldownUntil
<1> DEFINE g == refill(e)  x == Earned(e, now)
<1>1. x \in Nat /\ x \in 0..Cap
  BY EarnedOk, CapOk
<1>2. g = [e EXCEPT !.tokens = x, !.refilledAt = now]
  BY DEF refill, Earned
<1> HIDE DEF x
<1>3. /\ g \in Endpoint /\ g.refilledAt = now /\ g.tokens = x
      /\ g.inFlight = e.inFlight /\ g.cooldownUntil = e.cooldownUntil
  BY <1>1, <1>2 DEF Endpoint
<1> HIDE DEF g
<1>4. /\ Forget(g) \in Endpoint /\ Forget(g).refilledAt = g.refilledAt /\ Forget(g).tokens = g.tokens
      /\ Forget(g).inFlight = g.inFlight /\ Forget(g).cooldownUntil = g.cooldownUntil
  <2>1. NoLimit \in 1..NoLimit
    BY QuestionsAssumption
  <2>2. CASE g.logRangeMax # NoLimit /\ now >= g.logRangeUntil
    BY <1>3, <2>1, <2>2 DEF Forget, Endpoint
  <2>3. CASE ~(g.logRangeMax # NoLimit /\ now >= g.logRangeUntil)
    BY <1>3, <2>3 DEF Forget
  <2> QED BY <2>2, <2>3
<1>5. f = g \/ f = Forget(g)
  BY DEF g
<1> QED BY <1>3, <1>4, <1>5 DEF x

\* f is what a failure made of e: its rate and its places as they were, and no sooner asked.
Marked(e, f) ==
  /\ f \in Endpoint /\ f.tokens = e.tokens /\ f.refilledAt = e.refilledAt /\ f.inFlight = e.inFlight
  /\ f.cooldownUntil >= e.cooldownUntil

LEMMA StreakOk ==
  ASSUME NEW e \in Endpoint
  PROVE  Marked(e, Streak(e)) /\ Marked(e, [e EXCEPT !.failStreak = 0]) /\ Marked(e, e)
<1> DEFINE n == AtMost(e.failStreak + 1, TOP_STREAK)
<1>1. TOP_STREAK \in Nat
  BY TopStreakOk
<1>2. n \in 0..TOP_STREAK /\ 0 \in 0..TOP_STREAK /\ e.cooldownUntil \in Nat
  BY <1>1, EndpointNumbers DEF AtMost
<1>3. Streak(e) = [e EXCEPT !.failStreak = n]
  BY DEF Streak
<1> HIDE DEF n
<1> QED BY <1>2, <1>3 DEF Marked, Endpoint

LEMMA CoolOk ==
  ASSUME NEW e \in Endpoint, NEW ms \in Int, now \in Nat
  PROVE  Marked(e, cool(e, ms)) /\ cool(e, ms).cooldownUntil >= now + ms
<1> DEFINE n == AtLeast(e.cooldownUntil, now + ms)
<1>1. e.cooldownUntil \in Nat
  BY EndpointNumbers
<1>2. n \in Nat /\ n >= e.cooldownUntil /\ n >= now + ms
  BY <1>1 DEF AtLeast
<1>3. cool(e, ms) = [e EXCEPT !.cooldownUntil = n]
  BY DEF cool
<1> HIDE DEF n
<1> QED BY <1>2, <1>3 DEF Marked, Endpoint

LEMMA MarkedAgain ==
  ASSUME NEW e \in Endpoint, NEW f, NEW g, Marked(e, f), Marked(f, g)
  PROVE  Marked(e, g)
<1>1. e.cooldownUntil \in Nat /\ f.cooldownUntil \in Nat /\ g.cooldownUntil \in Nat
  BY EndpointNumbers DEF Marked
<1> QED BY <1>1 DEF Marked

LEMMA GrowingOk ==
  ASSUME NEW base \in Nat, NEW top \in Nat, NEW limit \in Nat, NEW e \in Endpoint
  PROVE  Growing(base, top, limit, e) \in Int
<1> DEFINE n == AtMost(SatSub(e.failStreak, 1), top)
<1>1. n \in Nat
  <2>1. e.failStreak \in Nat
    BY EndpointNumbers, TopStreakOk
  <2> QED BY <2>1 DEF SatSub, AtMost
<1> HIDE DEF n
<1>2. 2 ^ n \in Int
  BY <1>1, Z3
<1> DEFINE m == 2 ^ n
<1>3. Growing(base, top, limit, e) = AtMost(base * m, limit) /\ m \in Int
  BY <1>2 DEF Growing, n
<1> HIDE DEF m
<1>4. base * m \in Int
  BY <1>3
<1> QED BY <1>3, <1>4 DEF AtMost

\* The pauses the pool sets are numbers.
LEMMA PausesOk ==
  ASSUME NEW e \in Endpoint
  PROVE  LimitedPause(e) \in Int /\ FailedPause(e) \in Int /\ Honoured \subseteq Int
<1>1. /\ {LIMITED_PAUSE, LIMITED_TOP, MAX_LIMITED_PAUSE} \subseteq Nat
      /\ {FAILED_PAUSE, FAILED_TOP, MAX_FAILED_PAUSE} \subseteq Nat
      /\ RetryAfters \subseteq Nat
  BY NumbersAssumption
<1>2. Honoured \subseteq Int
  BY <1>1 DEF Honoured, AtMost
<1>3. LimitedPause(e) \in Int
  BY <1>1, GrowingOk DEF LimitedPause
<1>4. FailedPause(e) \in Int
  BY <1>1, GrowingOk DEF FailedPause
<1> QED BY <1>2, <1>3, <1>4

LEMMA BlockOk ==
  ASSUME NEW e \in Endpoint, NEW q \in Questions, now \in Nat
  PROVE  Marked(e, Block(e, q))
<1>1. Method[q] \in Methods /\ now + BLOCK \in Nat /\ e.cooldownUntil \in Nat
  BY QuestionsAssumption, NumbersAssumption, EndpointNumbers
<1>2. Block(e, q) = [e EXCEPT !.blocked = [e.blocked EXCEPT ![Method[q]] = now + BLOCK]]
  BY DEF Block
<1>3. [e.blocked EXCEPT ![Method[q]] = now + BLOCK] \in [Methods -> Nat]
  BY <1>1, EndpointNumbers
<1> QED BY <1>1, <1>2, <1>3 DEF Marked, Endpoint

LEMMA NarrowOk ==
  ASSUME NEW e \in Endpoint, NEW q \in Questions, now \in Nat
  PROVE  Marked(e, Narrow(e, q))
<1>1. logRange[q] \in Nat /\ now + RANGE_MEMORY \in Nat /\ e.cooldownUntil \in Nat
      /\ e.logRangeMax \in 1..NoLimit /\ NoLimit \in Nat
  BY QuestionsAssumption, NumbersAssumption, EndpointNumbers
<1> DEFINE h == logRange[q] \div 2  n == AtMost(e.logRangeMax, AtLeast(1, h))
           u == now + RANGE_MEMORY
<1>2. h \in Nat
  BY <1>1, FloorLemma
<1> HIDE DEF h
<1>3. n \in 1..NoLimit
  BY <1>1, <1>2 DEF AtMost, AtLeast
<1>4. CASE logRange[q] <= 1
  BY <1>1, <1>4 DEF Narrow, Marked
<1>5. CASE ~(logRange[q] <= 1)
  <2>1. Narrow(e, q) = [e EXCEPT !.logRangeMax = n, !.logRangeUntil = u] /\ u \in Nat
    BY <1>1, <1>5 DEF Narrow, h
  <2> HIDE DEF n, u
  <2> DEFINE f == [e EXCEPT !.logRangeMax = n, !.logRangeUntil = u]
  <2>2. /\ f \in Endpoint /\ f.tokens = e.tokens /\ f.refilledAt = e.refilledAt
        /\ f.inFlight = e.inFlight /\ f.cooldownUntil = e.cooldownUntil
    BY <1>3, <2>1 DEF Endpoint
  <2> HIDE DEF f
  <2>3. Narrow(e, q) = f
    BY <2>1 DEF f
  <2> QED BY <1>1, <2>2, <2>3 DEF Marked
<1> QED BY <1>4, <1>5

-----------------------------------------------------------------------------
(* The invariant.                                                          *)

\* The runs that wait for n's answer.
At(n) == {c \in Callers : call[c].pc = "fetching" /\ call[c].node = n}

\* Node n as it is written down is what its rate, its requests and its wishes make of it.
NodeOk(n) ==
  /\ node[n] \in Endpoint /\ node[n].refilledAt <= now
  /\ allowance[n] = Earned(node[n], now)
  /\ told[n] \in Nat /\ told[n] <= node[n].cooldownUntil
  /\ IsFiniteSet(At(n)) /\ node[n].inFlight = Cardinality(At(n)) /\ node[n].inFlight <= MAX_IN_FLIGHT

\* A run is on the map of its question and in time; who joined one finds one there.
CallerOk(c) ==
  /\ call[c] \in Call
  /\ call[c].pc \in Waiting => call[c].q \in Questions /\ inFlight[call[c].q] = c /\ now <= call[c].until
  /\ call[c].pc \in {"waiting", "paused"} => call[c].until <= call[c].deadline
  /\ call[c].pc = "fetching" =>
       call[c].node \in Nodes /\ call[c].until <= call[c].deadline + (call[c].attempt + 1) * TIMEOUT
  /\ call[c].pc = "joined" => call[c].q \in Questions /\ inFlight[call[c].q] # None

\* Whoever the map names is there.
QuestionOk(q) ==
  /\ inFlight[q] \in Callers \cup {None}
  /\ inFlight[q] # None => call[inFlight[q]].pc \in Waiting /\ call[inFlight[q]].q = q

RpcInv ==
  /\ now \in 0..MaxTime /\ asks \in 0..MaxAsks
  /\ node \in [Nodes -> Endpoint] /\ call \in [Callers -> Call]
  /\ inFlight \in [Questions -> Callers \cup {None}]
  /\ answers \in [Questions -> Nat \cup {NotKept}]
  /\ told \in [Nodes -> Nat] /\ allowance \in [Nodes -> Int]
  /\ \A n \in Nodes : NodeOk(n)
  /\ \A c \in Callers : CallerOk(c)
  /\ \A q \in Questions : QuestionOk(q)

\* The run of caller c stands as r, off every node; ns are the nodes without its request.
Between(c, r, ns) ==
  /\ c \in Callers /\ call[c].pc # "joined" /\ (call[c].pc \in Waiting => call[c].q = r.q)
  /\ r \in Call /\ r.q \in Questions /\ inFlight[r.q] \in {None, c}
  /\ ns \in [Nodes -> Endpoint]
  /\ \A n \in Nodes :
       /\ ns[n].refilledAt <= now /\ Earned(ns[n], now) = allowance[n]
       /\ told[n] <= ns[n].cooldownUntil
       /\ IsFiniteSet(At(n) \ {c}) /\ ns[n].inFlight = Cardinality(At(n) \ {c})
       /\ ns[n].inFlight <= MAX_IN_FLIGHT

\* What a step does to the wishes of nodes, while no time passes.
Told(ns) == now' = now /\ asks' \in 0..MaxAsks /\ told' \in [Nodes -> Nat]
            /\ \A n \in Nodes : told'[n] <= ns[n].cooldownUntil

Respects == \A n \in Nodes : allowance'[n] < allowance[n] => now >= told[n]

LEMMA TimeOk == RpcInv => now \in Nat /\ MaxTime \in Nat /\ TIMEOUT \in Nat /\ ATTEMPTS \in Nat \ {0}
BY NumbersAssumption DEF RpcInv

\* What concerns the other callers is untouched when c goes on with its question.
LEMMA OthersOk ==
  ASSUME RpcInv, NEW c \in Callers, NEW r, NEW ns, Between(c, r, ns), NEW d \in Callers, d # c,
         now' = now, call'[d] = call[d],
         \A q \in Questions : q # r.q => inFlight'[q] = inFlight[q],
         call[d].pc = "joined" => call[d].q # r.q \/ inFlight'[r.q] # None
  PROVE  CallerOk(d)'
<1>1. CallerOk(d) /\ inFlight[r.q] \in {None, c} /\ None \notin Callers
  BY NamesAssumption DEF RpcInv, Between, None
<1>2. call[d].pc \in Waiting => call[d].q # r.q
  BY <1>1 DEF CallerOk
<1>3. call[d].pc \in Waiting => inFlight'[call[d].q] = inFlight[call[d].q]
  BY <1>1, <1>2 DEF CallerOk
<1>4. call[d].pc = "joined" => inFlight'[call[d].q] # None
  BY <1>1 DEF CallerOk
<1> QED BY <1>1, <1>3, <1>4 DEF CallerOk

\* The run's other questions are untouched too.
LEMMA QuestionsOk ==
  ASSUME RpcInv, NEW c \in Callers, NEW r, NEW ns, Between(c, r, ns),
         NEW q \in Questions, q # r.q, inFlight'[q] = inFlight[q],
         \A d \in Callers : d # c /\ call[d].pc \in Waiting => call'[d] = call[d]
  PROVE  QuestionOk(q)'
<1>1. QuestionOk(q) /\ None \notin Callers
  BY NamesAssumption DEF RpcInv, None
<1>2. ASSUME inFlight[q] # None PROVE inFlight[q] # c
  <2>1. call[inFlight[q]].pc \in Waiting /\ call[inFlight[q]].q = q
    BY <1>1, <1>2 DEF QuestionOk
  <2> QED BY <2>1 DEF Between
<1>3. ASSUME inFlight[q] # None PROVE call'[inFlight[q]] = call[inFlight[q]]
  BY <1>1, <1>2, <1>3 DEF QuestionOk
<1> QED BY <1>1, <1>3 DEF QuestionOk

\* The requests at each node, once c's run is somewhere else.
LEMMA AtOk ==
  ASSUME RpcInv, NEW c \in Callers,
         \A d \in Callers : d # c /\ call[d].pc = "fetching" => call'[d] = call[d],
         \A d \in Callers : d # c /\ call'[d].pc = "fetching" => call'[d] = call[d],
         NEW n \in Nodes
  PROVE  At(n)' = IF call'[c].pc = "fetching" /\ call'[c].node = n THEN (At(n) \ {c}) \cup {c}
                  ELSE At(n) \ {c}
BY DEF At

\* A run sleeps.
LEMMA SleepLemma ==
  ASSUME RpcInv, NEW c \in Callers, NEW r, NEW ns, Between(c, r, ns), Told(ns),
         NEW pc \in {"waiting", "paused"}, NEW ms \in Nat, now + ms <= r.deadline,
         Sleep(c, r, ns, pc, ms)
  PROVE  RpcInv' /\ Respects
<1> DEFINE u == now + ms  z == [r EXCEPT !.pc = pc, !.until = u]
<1>1. now \in Nat /\ u \in Nat
  BY TimeOk
<1>2. /\ r \in Call /\ r.q \in Questions /\ inFlight[r.q] \in {None, c}
  BY DEF Between
<1>3. /\ call' = [call EXCEPT ![c] = z] /\ node' = ns /\ inFlight' = [inFlight EXCEPT ![r.q] = c]
      /\ answers' = answers /\ allowance' = allowance /\ now' = now
  BY DEF Sleep, Runs, Told
<1> HIDE DEF u
<1>4. z \in Call /\ z.pc = pc /\ z.q = r.q /\ z.until = u /\ z.deadline = r.deadline
  BY <1>1, <1>2 DEF Call, Waiting
<1>5. now <= u /\ u <= r.deadline
  BY <1>1 DEF u
<1> HIDE DEF z
<1>6. call'[c] = z /\ \A d \in Callers : d # c => call'[d] = call[d]
  BY <1>3 DEF RpcInv
<1>7. inFlight'[r.q] = c /\ \A q \in Questions : q # r.q => inFlight'[q] = inFlight[q]
  BY <1>2, <1>3 DEF RpcInv
<1>8. c # None
  BY NamesAssumption DEF None
<1>9. ASSUME NEW d \in Callers PROVE CallerOk(d)'
  <2>1. CASE d = c
    BY <1>2, <1>3, <1>4, <1>5, <1>6, <1>7, <2>1 DEF CallerOk
  <2>2. CASE d # c
    BY <1>3, <1>6, <1>7, <1>8, <2>2, OthersOk
  <2> QED BY <2>1, <2>2
<1>10. ASSUME NEW q \in Questions PROVE QuestionOk(q)'
  <2>1. CASE q = r.q
    BY <1>4, <1>6, <1>7, <2>1 DEF QuestionOk, Waiting
  <2>2. CASE q # r.q
    BY <1>6, <1>7, <2>2, QuestionsOk
  <2> QED BY <2>1, <2>2
<1>11. ASSUME NEW n \in Nodes PROVE NodeOk(n)'
  <2>1. At(n)' = At(n) \ {c}
    BY <1>4, <1>6, AtOk
  <2>2. /\ ns[n] \in Endpoint /\ ns[n].refilledAt <= now /\ Earned(ns[n], now) = allowance[n]
        /\ IsFiniteSet(At(n) \ {c}) /\ ns[n].inFlight = Cardinality(At(n) \ {c})
        /\ ns[n].inFlight <= MAX_IN_FLIGHT
    BY DEF Between
  <2>3. told'[n] \in Nat /\ told'[n] <= ns[n].cooldownUntil
    BY DEF Told
  <2> QED BY <1>3, <2>1, <2>2, <2>3 DEF NodeOk
<1>12. /\ node' \in [Nodes -> Endpoint] /\ told' \in [Nodes -> Nat] /\ asks' \in 0..MaxAsks
  BY <1>3 DEF Between, Told
<1>13. call' \in [Callers -> Call] /\ inFlight' \in [Questions -> Callers \cup {None}]
  BY <1>2, <1>3, <1>4 DEF RpcInv
<1>14. RpcInv'
  BY <1>3, <1>9, <1>10, <1>11, <1>12, <1>13 DEF RpcInv
<1>15. Respects
  BY <1>3 DEF Respects, RpcInv
<1> QED BY <1>14, <1>15

\* A run is put to a node that is ready, looked at just now.
LEMMA SendLemma ==
  ASSUME RpcInv, NEW c \in Callers, NEW r, NEW ns, Between(c, r, ns), Told(ns),
         now <= r.deadline + r.attempt * TIMEOUT,
         NEW m \in Nodes, ns[m].refilledAt = now, Ready(ns[m]), Send(c, r, ns, m)
  PROVE  RpcInv' /\ Respects
<1> DEFINE u == now + TIMEOUT  z == [r EXCEPT !.pc = "fetching", !.node = m, !.until = u]
           t == ns[m].tokens - TOKEN  i == ns[m].inFlight + 1
           e == [ns[m] EXCEPT !.tokens = t, !.inFlight = i]
<1>1. now \in Nat /\ u \in Nat /\ TIMEOUT \in Nat
  BY TimeOk
<1>2. /\ r \in Call /\ r.q \in Questions /\ inFlight[r.q] \in {None, c}
  BY DEF Between
<1>3. /\ call' = [call EXCEPT ![c] = z] /\ inFlight' = [inFlight EXCEPT ![r.q] = c]
      /\ answers' = answers /\ now' = now
      /\ allowance' = [allowance EXCEPT ![m] = @ - TOKEN]
  BY DEF Send, Runs, Told
<1>4. /\ ns[m] \in Endpoint /\ ns \in [Nodes -> Endpoint] /\ Earned(ns[m], now) = allowance[m]
      /\ allowance \in [Nodes -> Int] /\ told[m] <= ns[m].cooldownUntil
  BY DEF Between, RpcInv
<1>5. node' = [ns EXCEPT ![m] = e]
  BY <1>4 DEF Send
<1>6. ns[m].cooldownUntil <= now /\ ns[m].tokens >= TOKEN /\ ns[m].inFlight < MAX_IN_FLIGHT
  BY DEF Ready
<1>7. /\ t \in 0..Cap /\ i \in Nat /\ i <= MAX_IN_FLIGHT /\ Cap \in Nat /\ TOKEN \in Nat \ {0}
  BY <1>4, <1>6, CapOk, EndpointNumbers, NumbersAssumption
<1> HIDE DEF u, t, i
<1>8. z \in Call /\ z.pc = "fetching" /\ z.q = r.q /\ z.until = u /\ z.deadline = r.deadline
      /\ z.attempt = r.attempt /\ z.node = m
  BY <1>1, <1>2 DEF Call, Waiting
<1>9. /\ e \in Endpoint /\ e.tokens = t /\ e.inFlight = i /\ e.refilledAt = now
      /\ e.cooldownUntil = ns[m].cooldownUntil
  BY <1>4, <1>7 DEF Endpoint
<1>10. now <= u /\ u <= r.deadline + (r.attempt + 1) * TIMEOUT
  <2>1. r.attempt \in Nat /\ r.deadline \in Nat
    BY <1>2, NumbersAssumption DEF Call
  <2>2. (r.attempt + 1) * TIMEOUT = r.attempt * TIMEOUT + TIMEOUT /\ r.attempt * TIMEOUT \in Nat
    BY <1>1, <2>1, Z3
  <2> QED BY <1>1, <2>1, <2>2 DEF u
<1> HIDE DEF z, e
<1>11. call'[c] = z /\ \A d \in Callers : d # c => call'[d] = call[d]
  BY <1>3 DEF RpcInv
<1>12. inFlight'[r.q] = c /\ \A q \in Questions : q # r.q => inFlight'[q] = inFlight[q]
  BY <1>2, <1>3 DEF RpcInv
<1>13. c # None
  BY NamesAssumption DEF None
<1>14. ASSUME NEW d \in Callers PROVE CallerOk(d)'
  <2>1. CASE d = c
    BY <1>2, <1>3, <1>8, <1>10, <1>11, <1>12, <2>1 DEF CallerOk
  <2>2. CASE d # c
    BY <1>3, <1>11, <1>12, <1>13, <2>2, OthersOk
  <2> QED BY <2>1, <2>2
<1>15. ASSUME NEW q \in Questions PROVE QuestionOk(q)'
  <2>1. CASE q = r.q
    BY <1>8, <1>11, <1>12, <2>1 DEF QuestionOk, Waiting
  <2>2. CASE q # r.q
    BY <1>11, <1>12, <2>2, QuestionsOk
  <2> QED BY <2>1, <2>2
<1>16. Earned(e, now) = allowance[m] - TOKEN /\ allowance'[m] = allowance[m] - TOKEN
  <2>1. Earned(e, now) = t
    BY <1>1, <1>9, EarnedOk
  <2>2. Earned(ns[m], now) = ns[m].tokens
    BY <1>1, <1>4, EarnedOk
  <2> QED BY <1>3, <1>4, <2>1, <2>2 DEF t
<1>17. ASSUME NEW n \in Nodes PROVE NodeOk(n)'
  <2>1. At(n)' = IF m = n THEN (At(n) \ {c}) \cup {c} ELSE At(n) \ {c}
    BY <1>8, <1>11, AtOk
  <2>2. /\ ns[n] \in Endpoint /\ ns[n].refilledAt <= now /\ Earned(ns[n], now) = allowance[n]
        /\ IsFiniteSet(At(n) \ {c}) /\ ns[n].inFlight = Cardinality(At(n) \ {c})
        /\ ns[n].inFlight <= MAX_IN_FLIGHT
    BY DEF Between
  <2>3. told'[n] \in Nat /\ told'[n] <= ns[n].cooldownUntil
    BY DEF Told
  <2>4. CASE n = m
    <3>1. node'[n] = e /\ allowance'[n] = Earned(e, now)
      BY <1>4, <1>5, <1>16, <2>4
    <3>2. IsFiniteSet(At(n)') /\ Cardinality(At(n)') = i
      <4> DEFINE S == At(n) \ {c}
      <4>1. c \notin S /\ IsFiniteSet(S) /\ At(n)' = S \cup {c}
        BY <2>1, <2>2, <2>4
      <4>2. Cardinality(S) + 1 = i
        BY <2>2, <2>4 DEF i
      <4> HIDE DEF S
      <4>3. IsFiniteSet(S \cup {c}) /\ Cardinality(S \cup {c}) = Cardinality(S) + 1
        BY <4>1, FS_AddElement
      <4> QED BY <4>1, <4>2, <4>3
    <3>3. e.refilledAt <= now
      BY <1>1, <1>9
    <3> QED BY <1>3, <1>7, <1>9, <2>3, <2>4, <3>1, <3>2, <3>3 DEF NodeOk
  <2>5. CASE n # m
    <3>1. node'[n] = ns[n] /\ allowance'[n] = allowance[n]
      BY <1>3, <1>4, <1>5, <2>5
    <3>2. At(n)' = At(n) \ {c}
      BY <2>1, <2>5
    <3> QED BY <1>3, <2>2, <2>3, <3>1, <3>2 DEF NodeOk
  <2> QED BY <2>4, <2>5
<1>18. /\ node' \in [Nodes -> Endpoint] /\ told' \in [Nodes -> Nat] /\ asks' \in 0..MaxAsks
       /\ allowance' \in [Nodes -> Int]
  <2>1. allowance[m] - TOKEN \in Int
    BY <1>4, <1>7
  <2>2. node' \in [Nodes -> Endpoint]
    BY <1>4, <1>5, <1>9
  <2> QED BY <1>3, <1>4, <2>1, <2>2 DEF Told
<1>19. call' \in [Callers -> Call] /\ inFlight' \in [Questions -> Callers \cup {None}]
  BY <1>2, <1>3, <1>8 DEF RpcInv
<1>20. RpcInv'
  BY <1>3, <1>14, <1>15, <1>17, <1>18, <1>19 DEF RpcInv
<1>21. Respects
  <2> SUFFICES ASSUME NEW n \in Nodes, allowance'[n] < allowance[n] PROVE now >= told[n]
    BY DEF Respects
  <2>1. n = m
    BY <1>3, <1>4
  <2>2. told[m] \in Nat /\ ns[m].cooldownUntil \in Nat
    BY <1>4, EndpointNumbers DEF RpcInv
  <2> QED BY <1>1, <1>4, <1>6, <2>1, <2>2
<1> QED BY <1>20, <1>21

LEMMA KeptOk ==
  ASSUME RpcInv, NEW q \in Questions, NEW body
  PROVE  Kept(q, body) \in [Questions -> Nat \cup {NotKept}]
<1>1. now \in Nat /\ answers \in [Questions -> Nat \cup {NotKept}]
  BY TimeOk DEF RpcInv
<1> DEFINE room == IF Cardinality({a \in Questions : answers[a] # NotKept}) > MAX_ANSWERS
                     THEN [a \in Questions |-> NotKept] ELSE answers
<1>2. room \in [Questions -> Nat \cup {NotKept}]
  BY <1>1
<1>3. Kept(q, body) = answers \/ Kept(q, body) = [room EXCEPT ![q] = now]
  BY DEF Kept
<1> HIDE DEF room
<1> QED BY <1>1, <1>2, <1>3

LEMMA IdleOk == Idle \in Call /\ Idle.pc = "idle"
<1>1. 0 \in 0..(ATTEMPTS - 1) /\ 0 \in Nat
  BY NumbersAssumption
<1> QED BY <1>1 DEF Idle, Call, Waiting

\* A run ends: its owner and those who joined it go.
LEMMA FinishLemma ==
  ASSUME RpcInv, NEW c \in Callers, NEW r, NEW ns, Between(c, r, ns), Told(ns),
         NEW body, Finish(c, r.q, body), node' = ns, allowance' = allowance
  PROVE  RpcInv' /\ Respects
<1> DEFINE gone == AnsweredBy(c, r.q)
<1>1. /\ r.q \in Questions /\ inFlight[r.q] \in {None, c}
  BY DEF Between
<1>2. /\ call' = [d \in Callers |-> IF d \in gone THEN Idle ELSE call[d]]
      /\ inFlight' = [inFlight EXCEPT ![r.q] = None] /\ answers' = Kept(r.q, body)
      /\ now' = now
  BY DEF Finish, Told
<1>3. /\ c \in gone
      /\ \A d \in Callers : d # c => (d \in gone <=> call[d].pc = "joined" /\ call[d].q = r.q)
  BY DEF AnsweredBy
<1> HIDE DEF gone
<1>4. \A d \in Callers : call'[d] = IF d \in gone THEN Idle ELSE call[d]
  BY <1>2
<1>5. inFlight'[r.q] = None /\ \A q \in Questions : q # r.q => inFlight'[q] = inFlight[q]
  BY <1>1, <1>2 DEF RpcInv
<1>6. ASSUME NEW d \in Callers PROVE CallerOk(d)'
  <2>1. CASE d \in gone
    <3>1. call'[d] = Idle
      BY <1>4, <2>1
    <3> QED BY <3>1, IdleOk DEF CallerOk, Waiting
  <2>2. CASE d \notin gone
    <3>1. d # c /\ call'[d] = call[d] /\ ~(call[d].pc = "joined" /\ call[d].q = r.q)
      BY <1>3, <1>4, <2>2
    <3> QED BY <1>2, <1>5, <3>1, OthersOk
  <2> QED BY <2>1, <2>2
<1>7. \A d \in Callers : d # c /\ call[d].pc \in Waiting => call'[d] = call[d]
  BY <1>3, <1>4 DEF Waiting
<1>8. ASSUME NEW q \in Questions PROVE QuestionOk(q)'
  <2>1. CASE q = r.q
    BY <1>5, <2>1 DEF QuestionOk
  <2>2. CASE q # r.q
    BY <1>5, <1>7, <2>2, QuestionsOk
  <2> QED BY <2>1, <2>2
<1>9. ASSUME NEW n \in Nodes PROVE NodeOk(n)'
  <2>1. \A d \in Callers : d # c /\ call[d].pc = "fetching" => call'[d] = call[d]
    BY <1>7 DEF Waiting
  <2>2. \A d \in Callers : d # c /\ call'[d].pc = "fetching" => call'[d] = call[d]
    BY <1>4, IdleOk
  <2>3. call'[c].pc # "fetching"
    BY <1>3, <1>4, IdleOk
  <2>4. At(n)' = At(n) \ {c}
    BY <2>1, <2>2, <2>3, AtOk
  <2>5. /\ ns[n] \in Endpoint /\ ns[n].refilledAt <= now /\ Earned(ns[n], now) = allowance[n]
        /\ IsFiniteSet(At(n) \ {c}) /\ ns[n].inFlight = Cardinality(At(n) \ {c})
        /\ ns[n].inFlight <= MAX_IN_FLIGHT
    BY DEF Between
  <2>6. told'[n] \in Nat /\ told'[n] <= ns[n].cooldownUntil
    BY DEF Told
  <2> QED BY <1>2, <2>4, <2>5, <2>6 DEF NodeOk
<1>10. /\ node' \in [Nodes -> Endpoint] /\ told' \in [Nodes -> Nat] /\ asks' \in 0..MaxAsks
  BY DEF Between, Told
<1>11. call' \in [Callers -> Call] /\ inFlight' \in [Questions -> Callers \cup {None}]
  BY <1>1, <1>2, IdleOk DEF RpcInv
<1>12. answers' \in [Questions -> Nat \cup {NotKept}]
  BY <1>1, <1>2, KeptOk
<1>13. now' \in 0..MaxTime /\ allowance' \in [Nodes -> Int]
  BY <1>2 DEF RpcInv
<1>14. RpcInv'
  BY <1>6, <1>8, <1>9, <1>10, <1>11, <1>12, <1>13 DEF RpcInv
<1>15. Respects
  BY DEF Respects, RpcInv
<1> QED BY <1>14, <1>15

\* No node for now: one more look, or the end.
LEMMA NoNodeLemma ==
  ASSUME RpcInv, NEW c \in Callers, NEW r, NEW ns, Between(c, r, ns), Told(ns), NoNode(c, r, ns)
  PROVE  RpcInv' /\ Respects
<1> DEFINE z == [r EXCEPT !.exclude = {}, !.second = TRUE]
<1>1. CASE ~r.second /\ r.exclude # {} /\ now < r.deadline - MARGIN /\ r.attempt < ATTEMPTS - 1
  <2>1. r \in Call /\ r.q \in Questions
    BY DEF Between
  <2>2. z \in Call /\ z.q = r.q /\ z.deadline = r.deadline
    BY <2>1 DEF Call
  <2>3. Sleep(c, z, ns, "paused", SECOND_LOOK)
    BY <1>1 DEF NoNode
  <2>4. now + SECOND_LOOK <= z.deadline /\ SECOND_LOOK \in Nat
    <3>1. r.deadline \in Nat
      BY <2>1 DEF Call
    <3> QED BY <1>1, <2>2, <3>1, TimeOk, SecondLookAssumption, NumbersAssumption
  <2> HIDE DEF z
  <2>5. Between(c, z, ns)
    BY <2>2 DEF Between
  <2> QED BY <2>3, <2>4, <2>5, SleepLemma
<1>2. CASE ~(~r.second /\ r.exclude # {} /\ now < r.deadline - MARGIN /\ r.attempt < ATTEMPTS - 1)
  <2> DEFINE body == IF r.refused THEN "too_big" ELSE "failed"
  <2>1. Finish(c, r.q, body) /\ node' = ns /\ allowance' = allowance
    BY <1>2 DEF NoNode
  <2> HIDE DEF body
  <2> QED BY <2>1, FinishLemma
<1> QED BY <1>1, <1>2

\* Looking for a node for a run, in whichever of the three ways it ends.
LEMMA AcquireLemma ==
  ASSUME RpcInv, NEW c \in Callers, NEW r, NEW before, Between(c, r, before), Told(before),
         now <= r.deadline + r.attempt * TIMEOUT, acquire(c, r, before)
  PROVE  RpcInv' /\ Respects
<1> DEFINE ns == [n \in Nodes |->
                    LET e == refill(before[n]) IN IF n \in r.exclude THEN e ELSE Forget(e)]
           candidates == {n \in Nodes \ r.exclude : usable(ns[n], r.q)}
           ready == {n \in candidates : Ready(ns[n])}
           waits == {Wait(ns[n]) : n \in candidates}
           wait == AtLeast(1, Min(waits))
<1>1. \/ ready # {} /\ \E n \in ready : Send(c, r, ns, n)
      \/ candidates # {} /\ InBudget(r, wait) /\ Sleep(c, r, ns, "waiting", wait)
      \/ NoNode(c, r, ns)
  BY DEF acquire
<1>2. now \in Nat
  BY TimeOk
<1>3. \A n \in Nodes :
        /\ ns[n] \in Endpoint /\ ns[n].refilledAt = now /\ ns[n].tokens = Earned(before[n], now)
        /\ ns[n].inFlight = before[n].inFlight /\ ns[n].cooldownUntil = before[n].cooldownUntil
  <2> SUFFICES ASSUME NEW n \in Nodes
               PROVE  /\ ns[n] \in Endpoint /\ ns[n].refilledAt = now
                      /\ ns[n].tokens = Earned(before[n], now)
                      /\ ns[n].inFlight = before[n].inFlight
                      /\ ns[n].cooldownUntil = before[n].cooldownUntil
    OBVIOUS
  <2>1. before[n] \in Endpoint /\ before[n].refilledAt <= now
    BY DEF Between
  <2>2. ns[n] = refill(before[n]) \/ ns[n] = Forget(refill(before[n]))
    OBVIOUS
  <2> HIDE DEF ns
  <2> QED BY <1>2, <2>1, <2>2, RefillOk
<1>4. ns = [n \in Nodes |-> ns[n]]
  OBVIOUS
<1> HIDE DEF ns
<1>5. ns \in [Nodes -> Endpoint]
  BY <1>3, <1>4
<1>6. ASSUME NEW n \in Nodes PROVE Earned(ns[n], now) = allowance[n]
  <2>1. Earned(ns[n], now) = ns[n].tokens
    BY <1>2, <1>3, EarnedOk
  <2> QED BY <1>3, <2>1 DEF Between
<1>7. Between(c, r, ns)
  <2>1. /\ c \in Callers /\ call[c].pc # "joined" /\ (call[c].pc \in Waiting => call[c].q = r.q)
        /\ r \in Call /\ r.q \in Questions /\ inFlight[r.q] \in {None, c}
    BY DEF Between
  <2>2. ASSUME NEW n \in Nodes
        PROVE  /\ ns[n].refilledAt <= now /\ told[n] <= ns[n].cooldownUntil
               /\ IsFiniteSet(At(n) \ {c}) /\ ns[n].inFlight = Cardinality(At(n) \ {c})
               /\ ns[n].inFlight <= MAX_IN_FLIGHT
    <3>1. /\ told[n] <= before[n].cooldownUntil /\ IsFiniteSet(At(n) \ {c})
          /\ before[n].inFlight = Cardinality(At(n) \ {c}) /\ before[n].inFlight <= MAX_IN_FLIGHT
      BY DEF Between
    <3>2. ns[n].refilledAt = now /\ ns[n].inFlight = before[n].inFlight
          /\ ns[n].cooldownUntil = before[n].cooldownUntil
      BY <1>3
    <3> QED BY <1>2, <3>1, <3>2
  <2> QED BY <1>5, <1>6, <2>1, <2>2 DEF Between
<1>8. Told(ns)
  BY <1>3 DEF Told
<1>9. CASE ready # {} /\ \E n \in ready : Send(c, r, ns, n)
  <2>1. PICK m \in ready : Send(c, r, ns, m)
    BY <1>9
  <2>2. m \in Nodes /\ Ready(ns[m]) /\ ns[m].refilledAt = now
    BY <1>3
  <2> HIDE DEF ready
  <2> QED BY <1>7, <1>8, <2>1, <2>2, SendLemma
<1>10. CASE candidates # {} /\ InBudget(r, wait) /\ Sleep(c, r, ns, "waiting", wait)
  <2>1. waits \in SUBSET Nat /\ waits # {}
    BY <1>2, <1>3, <1>10, WaitOk
  <2> HIDE DEF waits
  <2>2. Min(waits) \in Nat
    BY <2>1, MinLemma
  <2>3. wait \in Nat
    BY <2>2 DEF AtLeast
  <2>4. now + wait <= r.deadline
    BY <1>10 DEF InBudget
  <2> HIDE DEF wait
  <2> QED BY <1>7, <1>8, <1>10, <2>3, <2>4, SleepLemma
<1>11. CASE NoNode(c, r, ns)
  BY <1>7, <1>8, <1>11, NoNodeLemma
<1> QED BY <1>1, <1>9, <1>10, <1>11

\* c's request comes back from its node, which is marked as f and has one place more.
LEMMA BackLemma ==
  ASSUME RpcInv, NEW c \in Callers, call[c].pc = "fetching", NEW outcome,
         NEW f, Marked(node[call[c].node], f), NEW r \in Call, r.q = call[c].q,
         now' = now, asks' = asks, told' \in [Nodes -> Nat], told'[call[c].node] <= f.cooldownUntil,
         \A n \in Nodes : n # call[c].node => told'[n] = told[n]
  PROVE  /\ Between(c, r, [node EXCEPT ![call[c].node] = Release(f, outcome)])
         /\ Told([node EXCEPT ![call[c].node] = Release(f, outcome)])
         /\ now <= call[c].deadline + (call[c].attempt + 1) * TIMEOUT
<1> DEFINE m == call[c].node  i == f.inFlight - 1  e == [f EXCEPT !.inFlight = i]
           ns == [node EXCEPT ![m] = e]
<1>1. CallerOk(c) /\ call[c] \in Call
  BY DEF RpcInv
<1>2. /\ m \in Nodes /\ call[c].q \in Questions /\ inFlight[call[c].q] = c
      /\ now <= call[c].until /\ call[c].until <= call[c].deadline + (call[c].attempt + 1) * TIMEOUT
  BY <1>1 DEF CallerOk, Waiting
<1>3. now <= call[c].deadline + (call[c].attempt + 1) * TIMEOUT
  <2> DEFINE limit == call[c].deadline + (call[c].attempt + 1) * TIMEOUT
  <2>1. call[c].until \in Nat /\ call[c].deadline \in Nat /\ call[c].attempt \in Nat
    BY <1>1, NumbersAssumption DEF Call
  <2>2. limit \in Int
    BY <2>1, TimeOk
  <2>3. call[c].until <= limit
    BY <1>2
  <2> HIDE DEF limit
  <2>4. now <= limit
    BY <1>2, <2>1, <2>2, <2>3, TimeOk
  <2> QED BY <2>4 DEF limit
<1>4. \A n \in Nodes :
        /\ node[n] \in Endpoint /\ node[n].refilledAt <= now /\ allowance[n] = Earned(node[n], now)
        /\ told[n] \in Nat /\ told[n] <= node[n].cooldownUntil
        /\ IsFiniteSet(At(n)) /\ node[n].inFlight = Cardinality(At(n))
        /\ node[n].inFlight <= MAX_IN_FLIGHT
  BY DEF RpcInv, NodeOk
<1>5. /\ f \in Endpoint /\ f.tokens = node[m].tokens /\ f.refilledAt = node[m].refilledAt
      /\ f.inFlight = node[m].inFlight /\ f.cooldownUntil >= node[m].cooldownUntil
  BY DEF Marked
<1>6. c \in At(m) /\ \A n \in Nodes : n # m => At(n) \ {c} = At(n)
  BY DEF At
<1>7. /\ IsFiniteSet(At(m) \ {c}) /\ i = Cardinality(At(m) \ {c}) /\ i \in Nat
      /\ i <= MAX_IN_FLIGHT
  <2>1. IsFiniteSet(At(m)) /\ node[m].inFlight = Cardinality(At(m)) /\ node[m].inFlight <= MAX_IN_FLIGHT
    BY <1>2, <1>4
  <2>2. IsFiniteSet(At(m) \ {c}) /\ Cardinality(At(m) \ {c}) = Cardinality(At(m)) - 1
    BY <1>6, <2>1, FS_RemoveElement
  <2>3. Cardinality(At(m) \ {c}) \in Nat
    BY <2>2, FS_CardinalityType
  <2>4. MAX_IN_FLIGHT \in Nat /\ f.inFlight \in Nat
    BY <1>5, NumbersAssumption, EndpointNumbers
  <2> QED BY <1>5, <2>1, <2>2, <2>3, <2>4
<1>8. Release(f, outcome) = e
  BY DEF Release
<1> HIDE DEF i
<1>9. /\ e \in Endpoint /\ e.tokens = f.tokens /\ e.refilledAt = f.refilledAt
      /\ e.cooldownUntil = f.cooldownUntil /\ e.inFlight = i
  BY <1>5, <1>7 DEF Endpoint
<1> HIDE DEF e
<1>10. node \in [Nodes -> Endpoint]
  BY DEF RpcInv
<1>11. ns \in [Nodes -> Endpoint] /\ ns[m] = e /\ \A n \in Nodes : n # m => ns[n] = node[n]
  BY <1>2, <1>9, <1>10
<1> HIDE DEF ns
<1>12. ASSUME NEW n \in Nodes
       PROVE  /\ ns[n].refilledAt <= now /\ Earned(ns[n], now) = allowance[n]
              /\ told[n] <= ns[n].cooldownUntil
              /\ IsFiniteSet(At(n) \ {c}) /\ ns[n].inFlight = Cardinality(At(n) \ {c})
              /\ ns[n].inFlight <= MAX_IN_FLIGHT
  <2>1. CASE n = m
    <3>1. ns[n].refilledAt = node[m].refilledAt /\ ns[n].tokens = node[m].tokens
          /\ ns[n].cooldownUntil = f.cooldownUntil /\ ns[n].inFlight = i
      BY <1>5, <1>9, <1>11, <2>1
    <3>2. Earned(ns[n], now) = Earned(node[m], now)
      BY <3>1 DEF Earned
    <3>3. told[m] <= f.cooldownUntil
      <4>1. node[m].cooldownUntil \in Nat /\ f.cooldownUntil \in Nat
        BY <1>2, <1>4, <1>5, EndpointNumbers
      <4> QED BY <1>2, <1>4, <1>5, <4>1
    <3> QED BY <1>2, <1>4, <1>7, <2>1, <3>1, <3>2, <3>3
  <2>2. CASE n # m
    BY <1>4, <1>6, <1>11, <2>2
  <2> QED BY <2>1, <2>2
<1>13. Between(c, r, ns)
  BY <1>2, <1>11, <1>12 DEF Between
<1>14. ASSUME NEW n \in Nodes PROVE told'[n] <= ns[n].cooldownUntil
  <2>1. CASE n = m
    BY <1>9, <1>11, <2>1
  <2>2. CASE n # m
    BY <1>4, <1>11, <2>2
  <2> QED BY <2>1, <2>2
<1>15. Told(ns)
  BY <1>14 DEF Told, RpcInv
<1> QED BY <1>3, <1>8, <1>13, <1>15 DEF ns

\* The next node is looked for, or the run ends with its last attempt.
LEMMA TryNextLemma ==
  ASSUME RpcInv, NEW c \in Callers, NEW r, NEW ns, Between(c, r, ns), Told(ns), r.node \in Nodes,
         now <= r.deadline + (r.attempt + 1) * TIMEOUT, TryNext(c, r, ns)
  PROVE  RpcInv' /\ Respects
<1> DEFINE a == r.attempt + 1  x == r.exclude \cup {r.node}
           z == [r EXCEPT !.exclude = x, !.node = None, !.second = FALSE, !.attempt = a]
<1>1. r \in Call /\ r.q \in Questions
  BY DEF Between
<1>2. CASE a < ATTEMPTS
  <2>1. acquire(c, z, ns)
    BY <1>2 DEF TryNext
  <2>2. a \in 0..(ATTEMPTS - 1) /\ x \in SUBSET Nodes
    BY <1>1, <1>2, NumbersAssumption DEF Call
  <2>3. now <= r.deadline + a * TIMEOUT
    OBVIOUS
  <2> HIDE DEF a, x
  <2>4. z \in Call /\ z.q = r.q /\ z.deadline = r.deadline /\ z.attempt = a
    BY <1>1, <2>2 DEF Call
  <2> HIDE DEF z
  <2>5. Between(c, z, ns)
    BY <2>4 DEF Between
  <2> QED BY <2>1, <2>3, <2>4, <2>5, AcquireLemma
<1>3. CASE ~(a < ATTEMPTS)
  <2> DEFINE body == IF r.refused THEN "too_big" ELSE "failed"
  <2>1. Finish(c, r.q, body) /\ node' = ns /\ allowance' = allowance
    BY <1>3 DEF TryNext
  <2> HIDE DEF body
  <2> QED BY <2>1, FinishLemma
<1> QED BY <1>2, <1>3

\* A failed request: r is the caller's run as it goes on.
LEMMA FailedLemma ==
  ASSUME RpcInv, NEW c \in Callers, call[c].pc = "fetching", NEW outcome,
         NEW f, Marked(node[call[c].node], f),
         NEW r \in Call, r.q = call[c].q, r.node = call[c].node, r.attempt = call[c].attempt,
         r.deadline = call[c].deadline, Failed(c, r, f, outcome),
         told' \in [Nodes -> Nat], told'[call[c].node] <= f.cooldownUntil,
         \A n \in Nodes : n # call[c].node => told'[n] = told[n]
  PROVE  RpcInv' /\ Respects
<1> DEFINE ns == [node EXCEPT ![call[c].node] = Release(f, outcome)]
<1>1. TryNext(c, r, ns) /\ now' = now /\ asks' = asks
  BY DEF Failed
<1>2. /\ Between(c, r, ns) /\ Told(ns) /\ now <= r.deadline + (r.attempt + 1) * TIMEOUT
  BY <1>1, BackLemma
<1>3. r.node \in Nodes
  BY DEF RpcInv, CallerOk
<1> HIDE DEF ns
<1> QED BY <1>1, <1>2, <1>3, TryNextLemma

-----------------------------------------------------------------------------
(* The invariant holds at the start, and every action keeps it.            *)

LEMMA RpcInit ==
  ASSUME Init
  PROVE  RpcInv
<1> DEFINE e == [tokens |-> Cap, refilledAt |-> 0, inFlight |-> 0, cooldownUntil |-> 0,
                 failStreak |-> 0, blocked |-> [m \in Methods |-> 0], logRangeMax |-> NoLimit,
                 logRangeUntil |-> 0]
<1>1. /\ now = 0 /\ asks = 0 /\ node = [n \in Nodes |-> e] /\ call = [c \in Callers |-> Idle]
      /\ inFlight = [q \in Questions |-> None] /\ answers = [q \in Questions |-> NotKept]
      /\ told = [n \in Nodes |-> 0] /\ allowance = [n \in Nodes |-> Cap]
  BY DEF Init
<1>2. Cap \in 0..Cap /\ Cap \in Nat /\ 0 \in 0..TOP_STREAK /\ NoLimit \in 1..NoLimit
      /\ MaxTime \in Nat /\ MaxAsks \in Nat /\ MAX_IN_FLIGHT \in Nat
  BY CapOk, TopStreakOk, NumbersAssumption, QuestionsAssumption
<1>3. [m \in Methods |-> 0] \in [Methods -> Nat]
  OBVIOUS
<1>4. /\ e \in Endpoint /\ e.refilledAt = 0 /\ e.tokens = Cap /\ e.inFlight = 0
      /\ e.cooldownUntil = 0
  BY <1>2, <1>3 DEF Endpoint
<1> HIDE DEF e
<1>5. Earned(e, 0) = Cap
  BY <1>4, EarnedOk
<1>6. ASSUME NEW n \in Nodes PROVE NodeOk(n)
  <2>1. At(n) = {}
    BY <1>1, IdleOk DEF At
  <2>2. IsFiniteSet(At(n)) /\ Cardinality(At(n)) = 0
    BY <2>1, FS_EmptySet
  <2>3. node[n] = e /\ allowance[n] = Cap /\ told[n] = 0
    BY <1>1
  <2> QED BY <1>1, <1>2, <1>4, <1>5, <2>2, <2>3 DEF NodeOk
<1>7. ASSUME NEW c \in Callers PROVE CallerOk(c)
  BY <1>1, IdleOk DEF CallerOk, Waiting
<1>8. ASSUME NEW q \in Questions PROVE QuestionOk(q)
  BY <1>1 DEF QuestionOk
<1>9. /\ now \in 0..MaxTime /\ asks \in 0..MaxAsks
  BY <1>1, <1>2
<1>10. node \in [Nodes -> Endpoint] /\ call \in [Callers -> Call]
  BY <1>1, <1>4, IdleOk
<1>11. /\ inFlight \in [Questions -> Callers \cup {None}]
       /\ answers \in [Questions -> Nat \cup {NotKept}]
       /\ told \in [Nodes -> Nat] /\ allowance \in [Nodes -> Int]
  BY <1>1, <1>2
<1> QED BY <1>6, <1>7, <1>8, <1>9, <1>10, <1>11 DEF RpcInv

LEMMA RpcSame ==
  ASSUME RpcInv, UNCHANGED vars
  PROVE  RpcInv' /\ Respects
<1>1. /\ now' = now /\ asks' = asks /\ node' = node /\ call' = call /\ inFlight' = inFlight
      /\ answers' = answers /\ told' = told /\ allowance' = allowance
  BY DEF vars
<1>2. Respects
  BY <1>1 DEF Respects, RpcInv
<1>3. ASSUME NEW n \in Nodes PROVE NodeOk(n)'
  BY <1>1 DEF RpcInv, NodeOk, At
<1>4. ASSUME NEW c \in Callers PROVE CallerOk(c)'
  BY <1>1 DEF RpcInv, CallerOk
<1>5. ASSUME NEW q \in Questions PROVE QuestionOk(q)'
  BY <1>1 DEF RpcInv, QuestionOk
<1> QED BY <1>1, <1>2, <1>3, <1>4, <1>5 DEF RpcInv

\* A run that waits at no node, new or old, is off every node already.
LEMMA QuietLemma ==
  ASSUME RpcInv, NEW c \in Callers, call[c].pc \in {"idle", "waiting", "paused"},
         NEW r \in Call, r.q \in Questions, inFlight[r.q] \in {None, c},
         call[c].pc # "idle" => call[c].q = r.q,
         now' = now, told' = told, asks' \in 0..MaxAsks
  PROVE  Between(c, r, node) /\ Told(node)
<1>1. ASSUME NEW n \in Nodes
      PROVE  /\ node[n].refilledAt <= now /\ Earned(node[n], now) = allowance[n]
             /\ told[n] <= node[n].cooldownUntil
             /\ IsFiniteSet(At(n) \ {c}) /\ node[n].inFlight = Cardinality(At(n) \ {c})
             /\ node[n].inFlight <= MAX_IN_FLIGHT
  <2>1. At(n) \ {c} = At(n)
    BY DEF At
  <2> QED BY <2>1 DEF RpcInv, NodeOk
<1>2. Between(c, r, node)
  BY <1>1 DEF Between, RpcInv, Waiting
<1> QED BY <1>1, <1>2 DEF Told, RpcInv

LEMMA BeginKeeps ==
  ASSUME RpcInv, NEW c \in Callers, NEW q \in Questions, Begin(c, q)
  PROVE  RpcInv' /\ Respects
<1> DEFINE u == now + BUDGET  r == [call[c] EXCEPT !.q = q, !.deadline = u]
<1>1. /\ call[c].pc = "idle" /\ inFlight[q] = None /\ asks < MaxAsks /\ asks' = asks + 1
      /\ acquire(c, r, node) /\ now' = now /\ told' = told
  BY DEF Begin, Shared
<1>2. call[c] \in Call /\ u \in Nat /\ now \in Nat /\ BUDGET \in Nat /\ now <= u
  BY TimeOk, NumbersAssumption DEF RpcInv
<1> HIDE DEF u
<1>3. r \in Call /\ r.q = q /\ r.deadline = u /\ r.attempt = call[c].attempt
  BY <1>2 DEF Call
<1>4. call[c].attempt \in Nat
  BY <1>2, NumbersAssumption DEF Call
<1>5. call[c].attempt * TIMEOUT \in Nat
  BY <1>4, TimeOk, Z3
<1>6. now <= r.deadline + r.attempt * TIMEOUT
  <2> DEFINE x == call[c].attempt * TIMEOUT
  <2>1. x \in Nat
    BY <1>5
  <2> HIDE DEF x
  <2>2. now <= u + x
    BY <1>2, <2>1
  <2> QED BY <1>3, <2>2 DEF x
<1>7. asks' \in 0..MaxAsks
  BY <1>1, NumbersAssumption DEF RpcInv
<1> HIDE DEF r
<1>8. Between(c, r, node) /\ Told(node)
  BY <1>1, <1>3, <1>7, QuietLemma
<1> QED BY <1>1, <1>6, <1>8, AcquireLemma

LEMMA WakeKeeps ==
  ASSUME RpcInv, NEW c \in Callers, Wake(c)
  PROVE  RpcInv' /\ Respects
<1> DEFINE r == call[c]
<1>1. /\ r.pc \in {"waiting", "paused"} /\ r.until = now /\ acquire(c, r, node)
      /\ now' = now /\ asks' = asks /\ told' = told
  BY DEF Wake
<1>2. CallerOk(c)
  BY DEF RpcInv
<1>3. r \in Call /\ r.q \in Questions /\ inFlight[r.q] = c /\ now <= r.deadline
  BY <1>1, <1>2 DEF CallerOk, Waiting
<1>4. r.attempt \in Nat /\ r.deadline \in Nat
  BY <1>3, NumbersAssumption DEF Call
<1>5. r.attempt * TIMEOUT \in Nat
  BY <1>4, TimeOk, Z3
<1>6. now <= r.deadline + r.attempt * TIMEOUT
  <2> DEFINE x == r.attempt * TIMEOUT
  <2>1. x \in Nat
    BY <1>5
  <2> HIDE DEF x
  <2>2. now <= r.deadline + x
    BY <1>3, <1>4, <2>1, TimeOk
  <2> QED BY <2>2 DEF x
<1>7. Between(c, r, node) /\ Told(node)
  BY <1>1, <1>3, QuietLemma DEF RpcInv
<1> HIDE DEF r
<1> QED BY <1>1, <1>6, <1>7, AcquireLemma

\* Who joins a run finds one on the map.
LEMMA JoinKeeps ==
  ASSUME RpcInv, NEW c \in Callers, NEW q \in Questions, Join(c, q)
  PROVE  RpcInv' /\ Respects
<1> DEFINE z == [call[c] EXCEPT !.pc = "joined", !.q = q]
<1>1. /\ call[c].pc = "idle" /\ inFlight[q] # None /\ asks < MaxAsks /\ asks' = asks + 1
      /\ call' = [call EXCEPT ![c] = z]
      /\ now' = now /\ node' = node /\ inFlight' = inFlight /\ answers' = answers
      /\ told' = told /\ allowance' = allowance
  BY DEF Join, Shared, RpcInv
<1>2. z \in Call /\ z.pc = "joined" /\ z.q = q
  BY DEF RpcInv, Call
<1> HIDE DEF z
<1>3. call'[c] = z /\ \A d \in Callers : d # c => call'[d] = call[d]
  BY <1>1 DEF RpcInv
<1>4. call' \in [Callers -> Call] /\ asks' \in 0..MaxAsks
  BY <1>1, <1>2, NumbersAssumption DEF RpcInv
<1>5. ASSUME NEW d \in Callers PROVE CallerOk(d)'
  <2>1. CASE d = c
    BY <1>1, <1>2, <1>3, <2>1 DEF CallerOk, Waiting
  <2>2. CASE d # c
    <3>1. CallerOk(d)
      BY DEF RpcInv
    <3> QED BY <1>1, <1>3, <2>2, <3>1 DEF CallerOk
  <2> QED BY <2>1, <2>2
<1>6. ASSUME NEW p \in Questions PROVE QuestionOk(p)'
  <2>1. QuestionOk(p)
    BY DEF RpcInv
  <2>2. inFlight[p] # None => inFlight[p] \in Callers /\ inFlight[p] # c
    BY <1>1, <2>1 DEF QuestionOk, Waiting
  <2> QED BY <1>1, <1>3, <2>1, <2>2 DEF QuestionOk
<1>7. ASSUME NEW n \in Nodes PROVE NodeOk(n)'
  <2>1. At(n)' = At(n)
    BY <1>1, <1>2, <1>3 DEF At
  <2>2. NodeOk(n)
    BY DEF RpcInv
  <2> QED BY <1>1, <2>1, <2>2 DEF NodeOk
<1>8. Respects
  BY <1>1 DEF Respects, RpcInv
<1> QED BY <1>1, <1>4, <1>5, <1>6, <1>7, <1>8 DEF RpcInv

\* What is known of a run that waits for a node's answer.
LEMMA AtNode ==
  ASSUME RpcInv, NEW c \in Callers, call[c].pc = "fetching"
  PROVE  /\ call[c] \in Call /\ call[c].node \in Nodes /\ call[c].q \in Questions
         /\ node[call[c].node] \in Endpoint /\ told \in [Nodes -> Nat]
         /\ told[call[c].node] <= node[call[c].node].cooldownUntil /\ now \in Nat
<1>1. CallerOk(c)
  BY DEF RpcInv
<1>2. call[c] \in Call /\ call[c].node \in Nodes /\ call[c].q \in Questions
  BY <1>1 DEF CallerOk, Waiting
<1>3. NodeOk(call[c].node)
  BY <1>2 DEF RpcInv
<1> QED BY <1>2, <1>3, TimeOk DEF NodeOk, RpcInv

LEMMA LimitedKeeps ==
  ASSUME RpcInv, NEW c \in Callers, Limited(c)
  PROVE  RpcInv' /\ Respects
<1> DEFINE r == call[c]  m == r.node  e == Streak(node[m])
<1>1. PICK ms \in Honoured \cup {LimitedPause(e)} :
        /\ Failed(c, r, cool(e, ms), "limited")
        /\ told' = [told EXCEPT ![m] = AtLeast(@, now + ms)]
  BY DEF Limited
<1>2. r.pc = "fetching"
  BY DEF Limited
<1>3. /\ r \in Call /\ m \in Nodes /\ node[m] \in Endpoint /\ told \in [Nodes -> Nat]
      /\ told[m] <= node[m].cooldownUntil /\ now \in Nat
  BY <1>2, AtNode
<1>4. Marked(node[m], e) /\ e \in Endpoint
  BY <1>3, StreakOk DEF Marked
<1> HIDE DEF e
<1>5. ms \in Int
  <2>1. LimitedPause(e) \in Int /\ Honoured \subseteq Int
    BY <1>4, PausesOk
  <2> QED BY <2>1
<1> DEFINE f == cool(e, ms)
<1>6. Marked(e, f) /\ f.cooldownUntil >= now + ms
  BY <1>3, <1>4, <1>5, CoolOk
<1> HIDE DEF f
<1>7. Marked(node[m], f) /\ f \in Endpoint
  BY <1>3, <1>4, <1>6, MarkedAgain DEF Marked
<1> DEFINE t == AtLeast(told[m], now + ms)
<1>8. t \in Nat /\ t <= f.cooldownUntil
  <2>1. told[m] \in Nat /\ node[m].cooldownUntil \in Nat /\ f.cooldownUntil \in Nat
    BY <1>3, <1>7, EndpointNumbers
  <2>2. f.cooldownUntil >= node[m].cooldownUntil
    BY <1>7 DEF Marked
  <2> QED BY <1>3, <1>5, <1>6, <2>1, <2>2 DEF AtLeast
<1>9. told' = [told EXCEPT ![m] = t]
  BY <1>1
<1> HIDE DEF t
<1>10. told' \in [Nodes -> Nat] /\ told'[m] = t /\ \A n \in Nodes : n # m => told'[n] = told[n]
  BY <1>3, <1>8, <1>9
<1>11. Failed(c, r, f, "limited")
  BY <1>1 DEF f
<1> QED BY <1>2, <1>3, <1>7, <1>8, <1>10, <1>11, FailedLemma

LEMMA RefusesKeeps ==
  ASSUME RpcInv, NEW c \in Callers, Refuses(c)
  PROVE  RpcInv' /\ Respects
<1> DEFINE r == call[c]  m == r.node  f == Block(node[m], r.q)
<1>1. r.pc = "fetching" /\ Failed(c, r, f, "refuses") /\ told' = told
  BY DEF Refuses
<1>2. /\ r \in Call /\ m \in Nodes /\ r.q \in Questions /\ node[m] \in Endpoint
      /\ told \in [Nodes -> Nat] /\ told[m] <= node[m].cooldownUntil /\ now \in Nat
  BY <1>1, AtNode
<1>3. Marked(node[m], f)
  BY <1>2, BlockOk
<1> HIDE DEF f
<1>4. told'[m] <= f.cooldownUntil
  <2>1. told[m] \in Nat /\ node[m].cooldownUntil \in Nat /\ f.cooldownUntil \in Nat
        /\ f.cooldownUntil >= node[m].cooldownUntil
    BY <1>2, <1>3, EndpointNumbers DEF Marked
  <2> QED BY <1>1, <1>2, <2>1
<1> QED BY <1>1, <1>2, <1>3, <1>4, FailedLemma

LEMMA BreaksKeeps ==
  ASSUME RpcInv, NEW c \in Callers, Breaks(c)
  PROVE  RpcInv' /\ Respects
<1> DEFINE r == call[c]  m == r.node  e == Streak(node[m])  ms == FailedPause(e)
<1>1. r.pc = "fetching" /\ Failed(c, r, cool(e, ms), "breaks") /\ told' = told
  BY DEF Breaks
<1>2. /\ r \in Call /\ m \in Nodes /\ node[m] \in Endpoint
      /\ told \in [Nodes -> Nat] /\ told[m] <= node[m].cooldownUntil /\ now \in Nat
  BY <1>1, AtNode
<1>3. Marked(node[m], e) /\ e \in Endpoint
  BY <1>2, StreakOk DEF Marked
<1> HIDE DEF e
<1>4. ms \in Int
  BY <1>3, PausesOk
<1> HIDE DEF ms
<1> DEFINE f == cool(e, ms)
<1>5. Marked(node[m], f)
  BY <1>2, <1>3, <1>4, CoolOk, MarkedAgain
<1>6. Failed(c, r, f, "breaks")
  BY <1>1
<1> HIDE DEF f
<1>7. told'[m] <= f.cooldownUntil
  <2>1. told[m] \in Nat /\ node[m].cooldownUntil \in Nat /\ f.cooldownUntil \in Nat
        /\ f.cooldownUntil >= node[m].cooldownUntil
    BY <1>2, <1>5, EndpointNumbers DEF Marked
  <2> QED BY <1>1, <1>2, <2>1
<1> QED BY <1>1, <1>2, <1>5, <1>6, <1>7, FailedLemma

LEMMA TooBigKeeps ==
  ASSUME RpcInv, NEW c \in Callers, TooBig(c)
  PROVE  RpcInv' /\ Respects
<1> DEFINE m == call[c].node  f == Narrow(node[m], call[c].q)  r == [call[c] EXCEPT !.refused = TRUE]
<1>1. call[c].pc = "fetching" /\ Failed(c, r, f, "too_big") /\ told' = told
  BY DEF TooBig
<1>2. /\ call[c] \in Call /\ m \in Nodes /\ call[c].q \in Questions /\ node[m] \in Endpoint
      /\ told \in [Nodes -> Nat] /\ told[m] <= node[m].cooldownUntil /\ now \in Nat
  BY <1>1, AtNode
<1>3. Marked(node[m], f)
  BY <1>2, NarrowOk
<1> HIDE DEF f
<1>4. told'[m] <= f.cooldownUntil
  <2>1. told[m] \in Nat /\ node[m].cooldownUntil \in Nat /\ f.cooldownUntil \in Nat
        /\ f.cooldownUntil >= node[m].cooldownUntil
    BY <1>2, <1>3, EndpointNumbers DEF Marked
  <2> QED BY <1>1, <1>2, <2>1
<1>5. /\ r \in Call /\ r.q = call[c].q /\ r.node = m /\ r.attempt = call[c].attempt
      /\ r.deadline = call[c].deadline
  BY <1>2 DEF Call
<1> HIDE DEF r
<1> QED BY <1>1, <1>2, <1>3, <1>4, <1>5, FailedLemma

LEMMA AnswersKeeps ==
  ASSUME RpcInv, NEW c \in Callers, NEW body, Answers(c, body)
  PROVE  RpcInv' /\ Respects
<1> DEFINE r == call[c]  m == r.node
           f == IF body = "node-error" THEN node[m] ELSE [node[m] EXCEPT !.failStreak = 0]
           ns == [node EXCEPT ![m] = Release(f, body)]
<1>1. /\ r.pc = "fetching" /\ node' = ns /\ Finish(c, r.q, body)
      /\ now' = now /\ asks' = asks /\ told' = told /\ allowance' = allowance
  BY DEF Answers
<1>2. /\ r \in Call /\ m \in Nodes /\ node[m] \in Endpoint
      /\ told \in [Nodes -> Nat] /\ told[m] <= node[m].cooldownUntil /\ now \in Nat
  BY <1>1, AtNode
<1>3. Marked(node[m], f)
  BY <1>2, StreakOk
<1> HIDE DEF f
<1>4. told'[m] <= f.cooldownUntil
  <2>1. told[m] \in Nat /\ node[m].cooldownUntil \in Nat /\ f.cooldownUntil \in Nat
        /\ f.cooldownUntil >= node[m].cooldownUntil
    BY <1>2, <1>3, EndpointNumbers DEF Marked
  <2> QED BY <1>1, <1>2, <2>1
<1>5. Between(c, r, ns) /\ Told(ns)
  BY <1>1, <1>2, <1>3, <1>4, BackLemma
<1> HIDE DEF ns
<1> QED BY <1>1, <1>5, FinishLemma

\* Time passes: every node earns, and no timer is passed.
LEMMA TickKeeps ==
  ASSUME RpcInv, Tick
  PROVE  RpcInv' /\ Respects
<1>1. /\ now < MaxTime /\ now' = now + 1
      /\ \A c \in Callers : call[c].pc \in Waiting => call[c].until > now
      /\ allowance' = [n \in Nodes |-> AtMost(Cap, allowance[n] + RPS)]
      /\ asks' = asks /\ node' = node /\ call' = call /\ inFlight' = inFlight
      /\ answers' = answers /\ told' = told
  BY DEF Tick
<1>2. now \in Nat /\ MaxTime \in Nat /\ now' \in 0..MaxTime
  BY <1>1, TimeOk
<1>3. ASSUME NEW n \in Nodes
      PROVE  NodeOk(n)' /\ allowance'[n] \in Int /\ ~(allowance'[n] < allowance[n])
  <2>1. NodeOk(n)
    BY DEF RpcInv
  <2>2. /\ node[n] \in Endpoint /\ node[n].refilledAt <= now /\ allowance[n] = Earned(node[n], now)
    BY <2>1 DEF NodeOk
  <2>3. /\ Earned(node[n], now) \in 0..Cap
        /\ Earned(node[n], now + 1) = AtMost(Cap, Earned(node[n], now) + RPS)
    BY <1>2, <2>2, EarnedOk
  <2>4. allowance'[n] = Earned(node[n], now + 1)
    BY <1>1, <2>2, <2>3
  <2>5. At(n)' = At(n)
    BY <1>1 DEF At
  <2>6. node[n].refilledAt <= now + 1
    BY <1>2, <2>2, EndpointNumbers
  <2>7. NodeOk(n)'
    BY <1>1, <2>1, <2>4, <2>5, <2>6 DEF NodeOk
  <2>8. allowance'[n] \in Int /\ ~(allowance'[n] < allowance[n])
    <3> DEFINE x == Earned(node[n], now)
    <3>1. x \in Nat /\ x <= Cap /\ allowance[n] = x /\ allowance'[n] = AtMost(Cap, x + RPS)
      BY <2>2, <2>3, <2>4, CapOk
    <3> HIDE DEF x
    <3> QED BY <3>1, CapOk DEF AtMost
  <2> QED BY <2>7, <2>8
<1>4. ASSUME NEW c \in Callers PROVE CallerOk(c)'
  <2>1. CallerOk(c)
    BY DEF RpcInv
  <2>2. call[c].until \in Nat
    BY <2>1 DEF CallerOk, Call
  <2>3. call[c].pc \in Waiting => now + 1 <= call[c].until
    BY <1>1, <1>2, <2>2
  <2> QED BY <1>1, <2>1, <2>3 DEF CallerOk
<1>5. ASSUME NEW q \in Questions PROVE QuestionOk(q)'
  BY <1>1 DEF RpcInv, QuestionOk
<1>6. allowance' \in [Nodes -> Int]
  BY <1>1, <1>3
<1>7. Respects
  BY <1>3 DEF Respects
<1> QED BY <1>1, <1>2, <1>3, <1>4, <1>5, <1>6, <1>7 DEF RpcInv

LEMMA RpcStep ==
  ASSUME RpcInv, [Next]_vars
  PROVE  RpcInv' /\ Respects
<1>1. ASSUME NEW c \in Callers, NEW q \in Questions, FromCache(c, q) PROVE RpcInv' /\ Respects
  BY <1>1, RpcSame DEF FromCache
<1>2. CASE UNCHANGED vars
  BY <1>2, RpcSame
<1>3. CASE Next
  BY <1>1, <1>3, JoinKeeps, BeginKeeps, WakeKeeps, LimitedKeeps, RefusesKeeps, BreaksKeeps,
     TooBigKeeps, AnswersKeeps, TickKeeps DEF Next
<1> QED BY <1>2, <1>3

LEMMA RpcAlways == Spec => []RpcInv
<1>1. Init => RpcInv
  BY RpcInit
<1>2. RpcInv /\ [Next]_vars => RpcInv'
  BY RpcStep
<1> QED BY <1>1, <1>2, PTL DEF Spec

-----------------------------------------------------------------------------
(* What it means.                                                          *)

LEMMA PlacesMeans == RpcInv => PlacesCounted
BY DEF RpcInv, NodeOk, At, PlacesCounted

LEMMA RateMeans == RpcInv => RateKept
<1> SUFFICES ASSUME RpcInv, NEW n \in Nodes PROVE allowance[n] >= 0
  BY DEF RateKept
<1>1. node[n] \in Endpoint /\ node[n].refilledAt <= now /\ allowance[n] = Earned(node[n], now)
  BY DEF RpcInv, NodeOk
<1>2. allowance[n] \in 0..Cap
  BY <1>1, TimeOk, EarnedOk
<1> QED BY <1>2, CapOk

LEMMA AskedMeans == RpcInv => AskedOnce
<1> SUFFICES ASSUME RpcInv PROVE AskedOnce
  OBVIOUS
<1>1. \A c \in Callers : call[c].pc \in Waiting => call[c].q \in Questions /\ inFlight[call[c].q] = c
  BY DEF RpcInv, CallerOk
<1>2. ASSUME NEW c \in Callers, call[c].pc = "joined"
      PROVE  \E d \in Callers : call[d].pc \in Waiting /\ call[d].q = call[c].q
  <2>1. call[c].q \in Questions /\ inFlight[call[c].q] # None
    BY <1>2 DEF RpcInv, CallerOk
  <2>2. QuestionOk(call[c].q)
    BY <2>1 DEF RpcInv
  <2> QED BY <2>1, <2>2 DEF QuestionOk
<1> QED BY <1>1, <1>2 DEF AskedOnce

LEMMA TimeMeans == RpcInv => EndsInTime
<1> SUFFICES ASSUME RpcInv, NEW c \in Callers, call[c].pc \in Waiting
             PROVE  now <= call[c].deadline + ATTEMPTS * TIMEOUT
  BY DEF EndsInTime
<1> DEFINE d == call[c].deadline  a == call[c].attempt + 1  u == call[c].until
<1>1. CallerOk(c)
  BY DEF RpcInv
<1>2. d \in Nat /\ a \in 1..ATTEMPTS /\ u \in Nat /\ now <= u
  BY <1>1, NumbersAssumption DEF CallerOk, Call
<1>3. u <= d \/ u <= d + a * TIMEOUT
  BY <1>1 DEF CallerOk, Waiting
<1> HIDE DEF d, a, u
<1> DEFINE x == a * TIMEOUT  y == ATTEMPTS * TIMEOUT
<1>4. x \in Nat /\ y \in Nat /\ x <= y
  <2>1. a \in Nat /\ TIMEOUT \in Nat /\ ATTEMPTS \in Nat /\ ATTEMPTS - a \in Nat
    BY <1>2, TimeOk
  <2>2. ATTEMPTS * TIMEOUT = a * TIMEOUT + (ATTEMPTS - a) * TIMEOUT
    BY <2>1, Z3
  <2>3. x \in Nat /\ y \in Nat /\ (ATTEMPTS - a) * TIMEOUT \in Nat
    BY <2>1, Z3
  <2> DEFINE w == (ATTEMPTS - a) * TIMEOUT
  <2>4. y = x + w /\ w \in Nat
    BY <2>2, <2>3
  <2> HIDE DEF x, y, w
  <2> QED BY <2>3, <2>4
<1>5. u <= d \/ u <= d + x
  BY <1>3
<1> HIDE DEF x, y
<1>6. now <= d + y
  BY <1>2, <1>4, <1>5, TimeOk
<1> QED BY <1>6 DEF d, y

\* Every variable stays within its type: no number of tokens, requests, failures or attempts
\* leaves its range.
THEOREM TypeOKAlways == Spec => []TypeOK
<1>1. RpcInv => TypeOK
  BY DEF RpcInv, TypeOK
<1> QED BY <1>1, RpcAlways, PTL

\* A node's requests in flight are counted, and within its limit, however each one ended:
\* the places of pool.ts, taken and given back.
THEOREM PlacesCountedAlways == Spec => []PlacesCounted
BY RpcAlways, PlacesMeans, PTL

\* No node is asked more often than its rate allows, unit by unit: the tokens of pool.ts,
\* added up only when somebody looks.
THEOREM RateKeptAlways == Spec => []RateKept
BY RpcAlways, RateMeans, PTL

\* A question is at one node at a time, and nobody joins a run that is over: the map of
\* questions in flight.
THEOREM AskedOnceAlways == Spec => []AskedOnce
BY RpcAlways, AskedMeans, PTL

\* Every request ends by its budget and the time of its attempts, whatever the nodes do.
THEOREM EndsInTimeAlways == Spec => []EndsInTime
BY RpcAlways, TimeMeans, PTL

\* A node that asked to be left alone is not asked before then, whoever else fails at it.
THEOREM LeftAloneAlways == Spec => LeftAlone
<1>1. RpcInv /\ [Next]_vars => [\A n \in Nodes : allowance'[n] < allowance[n] => now >= told[n]]_vars
  BY RpcStep DEF Respects
<1> QED BY <1>1, RpcAlways, PTL DEF Spec, LeftAlone

=============================================================================
