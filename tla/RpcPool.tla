------------------------------ MODULE RpcPool ------------------------------
(***************************************************************************)
(* The pool of free public nodes (website/src/swings/rpc/pool.ts).  Each   *)
(* question goes to one node at a time, within that node's rate, its limit *)
(* of requests in flight and its wish to be left alone; a failure moves on *)
(* to another node; the same question asked twice is put once.             *)
(*                                                                         *)
(* What runs between two awaits is one step.  The choice among ready nodes *)
(* is random in the code, and any of them here.  Timers fire on time.      *)
(***************************************************************************)
EXTENDS ProgramMath, Integers, FiniteSetsExt

CONSTANTS
  Nodes, Callers, Questions,
  Methods,        \* Method[q]: what q calls
  Method,
  logRange,       \* logRange[q]: the blocks between the ends of a log question, 0 when they are not plain
  Ttl,            \* cacheTtlMs: how long an answer to q is kept, 0 for not at all
  Troubles,       \* Troubles[n]: what may go wrong at node n (nodes differ)
  NoLimit,        \* Infinity: a range wider than any question's
  RPS,            \* parts of a token a node earns in one unit of time
  TOKEN,          \* the parts of one token
  MAX_IN_FLIGHT, ATTEMPTS, TIMEOUT, BUDGET,
  MARGIN,         \* the 500 ms a second look must leave
  SECOND_LOOK,    \* the pause before it
  LIMITED_PAUSE, LIMITED_TOP, MAX_LIMITED_PAUSE,   \* 2 s, doubled up to 6 times, 120 s at most
  FAILED_PAUSE, FAILED_TOP, MAX_FAILED_PAUSE,      \* 3 s, doubled up to 5 times, 60 s at most
  RetryAfters,    \* the times a node may ask for in Retry-After: more than 0, in seconds
  BLOCK,          \* how long a refused method is not asked again
  RANGE_MEMORY,   \* how long a refused range is remembered
  MAX_ANSWERS,    \* 2,000
  MaxAsks,        \* bound: the questions asked, those answered from the cache aside
  MaxTime         \* bound: the clock

ASSUME NumbersAssumption ==
  /\ {RPS, TOKEN, MAX_IN_FLIGHT, ATTEMPTS, TIMEOUT} \subseteq Nat \ {0}
  /\ {BUDGET, MARGIN, SECOND_LOOK, LIMITED_PAUSE, LIMITED_TOP, MAX_LIMITED_PAUSE, FAILED_PAUSE,
      FAILED_TOP, MAX_FAILED_PAUSE, BLOCK, RANGE_MEMORY, MAX_ANSWERS, MaxAsks, MaxTime} \subseteq Nat
  /\ RetryAfters \subseteq Nat \ {0}
ASSUME TroublesAssumption ==
  Troubles \in [Nodes -> SUBSET {"limited", "refuses", "breaks", "too_big"}]
ASSUME QuestionsAssumption ==
  /\ Method \in [Questions -> Methods] /\ Ttl \in [Questions -> Nat]
  /\ NoLimit \in Nat \ {0} /\ logRange \in [Questions -> 0..(NoLimit - 1)]

ASSUME SecondLookAssumption == SECOND_LOOK <= MARGIN + 1   \* at most 249 ms, and 500
ASSUME NamesAssumption == "none" \notin Callers

VARIABLES
  now, asks,
  node,       \* node[n]: an Endpoint
  call,       \* call[c]: what a caller is doing
  inFlight,   \* inFlight[q]: the caller whose run answers q, or None
  answers,    \* answers[q]: when the kept answer came, or NotKept
  told,       \* told[n]: until when n, having said slow down, is due to be left alone; for the properties alone
  allowance   \* allowance[n]: what n's rate still allows, for the properties alone

vars == <<now, asks, node, call, inFlight, answers, told, allowance>>

None == "none"
NotKept == -1
Cap == LET full == 2 * RPS IN IF full < TOKEN THEN TOKEN ELSE full

\* Math.max of two.
AtLeast(a, b) == IF a >= b THEN a ELSE b

\* Failures in a row beyond these change nothing.
TOP_STREAK == AtLeast(LIMITED_TOP, FAILED_TOP) + 1

Endpoint ==
  [tokens : 0..Cap, refilledAt : Nat, inFlight : Nat, cooldownUntil : Nat, failStreak : 0..TOP_STREAK,
   blocked : [Methods -> Nat], logRangeMax : 1..NoLimit, logRangeUntil : Nat]

Waiting == {"waiting", "paused", "fetching"}
Call ==
  [pc : {"idle", "joined"} \cup Waiting, q : Questions \cup {None}, attempt : 0..(ATTEMPTS - 1),
   exclude : SUBSET Nodes, second : BOOLEAN, deadline : Nat, until : Nat, node : Nodes \cup {None},
   refused : BOOLEAN]

-----------------------------------------------------------------------------
(* Nodes.                                                                  *)

\* Mutant: a node that was left alone saves up without limit.
refill_uncapped(e) ==
  [e EXCEPT !.tokens = @ + RPS * (now - e.refilledAt), !.refilledAt = now]

\* Mutant: the clock of a refill is not moved on.
refill_again(e) == [e EXCEPT !.tokens = AtMost(Cap, @ + RPS * (now - e.refilledAt))]

refill(e) ==
  [e EXCEPT !.tokens = AtMost(Cap, @ + RPS * (now - e.refilledAt)), !.refilledAt = now]

\* What was learned about ranges is forgotten when a node is looked at, after a while.
Forget(e) ==
  IF e.logRangeMax # NoLimit /\ now >= e.logRangeUntil THEN [e EXCEPT !.logRangeMax = NoLimit] ELSE e

usable(e, q) == e.blocked[Method[q]] <= now /\ e.logRangeMax >= logRange[q]

Ready(e) == e.cooldownUntil <= now /\ e.tokens >= TOKEN /\ e.inFlight < MAX_IN_FLIGHT

\* When a node that is not ready is worth another look.
Wait(e) ==
  Max({SatSub(e.cooldownUntil, now),
       IF e.tokens >= TOKEN THEN 0 ELSE CeilDiv(TOKEN - e.tokens, RPS),
       IF e.inFlight >= MAX_IN_FLIGHT THEN 1 ELSE 0})

\* Mutant: the last word counts.
cool_last(e, ms) == [e EXCEPT !.cooldownUntil = now + ms]

cool(e, ms) == [e EXCEPT !.cooldownUntil = AtLeast(@, now + ms)]

\* One failure more in a row.
Streak(e) == [e EXCEPT !.failStreak = AtMost(@ + 1, TOP_STREAK)]

\* A pause that doubles with every failure in a row, up to a limit.
Growing(base, top, limit, e) == AtMost(base * 2 ^ AtMost(SatSub(e.failStreak, 1), top), limit)
LimitedPause(e) == Growing(LIMITED_PAUSE, LIMITED_TOP, MAX_LIMITED_PAUSE, e)
FailedPause(e) == Growing(FAILED_PAUSE, FAILED_TOP, MAX_FAILED_PAUSE, e)

\* What the pool makes of a Retry-After: two minutes at most.
Honoured == {AtMost(asked, MAX_LIMITED_PAUSE) : asked \in RetryAfters}

Block(e, q) == [e EXCEPT !.blocked[Method[q]] = now + BLOCK]

\* Half the refused range, at least one block, and never more than was learned before.
Narrow(e, q) ==
  IF logRange[q] <= 1 THEN e
  ELSE [e EXCEPT !.logRangeMax = AtMost(@, AtLeast(1, logRange[q] \div 2)),
                 !.logRangeUntil = now + RANGE_MEMORY]

-----------------------------------------------------------------------------
(* The end of a run: its owner and all who joined it have the answer.      *)

Idle ==
  [pc |-> "idle", q |-> None, attempt |-> 0, exclude |-> {}, second |-> FALSE, deadline |-> 0,
   until |-> 0, node |-> None, refused |-> FALSE]

\* A result that may be kept is; a full cache is emptied first.
Kept(q, body) ==
  IF body # "result" \/ Ttl[q] = 0 THEN answers
  ELSE LET room == IF Cardinality({a \in Questions : answers[a] # NotKept}) > MAX_ANSWERS
                     THEN [a \in Questions |-> NotKept] ELSE answers
       IN  [room EXCEPT ![q] = now]

\* Mutant: only the owner of the run is answered.
AnsweredAlone(c, q) == {c}

AnsweredBy(c, q) == {c} \cup {d \in Callers : call[d].pc = "joined" /\ call[d].q = q}

Finish(c, q, body) ==
  /\ call' = [d \in Callers |-> IF d \in AnsweredBy(c, q) THEN Idle ELSE call[d]]
  /\ inFlight' = [inFlight EXCEPT ![q] = None]
  /\ answers' = Kept(q, body)

-----------------------------------------------------------------------------
(* acquire, and the second look of callUncached when it finds no node.  `r` *)
(* is the run of caller c as it stands, `ns` the nodes.                    *)

\* A run is on the map of questions in flight from its start to its end.
Runs(c, r) == inFlight' = [inFlight EXCEPT ![r.q] = c]

Send(c, r, ns, n) ==
  /\ node' = [ns EXCEPT ![n].tokens = @ - TOKEN, ![n].inFlight = @ + 1]
  /\ allowance' = [allowance EXCEPT ![n] = @ - TOKEN]
  /\ call' = [call EXCEPT ![c] = [r EXCEPT !.pc = "fetching", !.node = n, !.until = now + TIMEOUT]]
  /\ Runs(c, r) /\ UNCHANGED answers

Sleep(c, r, ns, pc, ms) ==
  /\ node' = ns
  /\ call' = [call EXCEPT ![c] = [r EXCEPT !.pc = pc, !.until = now + ms]]
  /\ Runs(c, r) /\ UNCHANGED <<answers, allowance>>

\* Mutant: a run waits as long as it takes.
WaitsAnyway(r, wait) == TRUE

InBudget(r, wait) == now + wait <= r.deadline

NoNode(c, r, ns) ==
  IF ~r.second /\ r.exclude # {} /\ now < r.deadline - MARGIN /\ r.attempt < ATTEMPTS - 1
    THEN Sleep(c, [r EXCEPT !.exclude = {}, !.second = TRUE], ns, "paused", SECOND_LOOK)
    ELSE /\ Finish(c, r.q, IF r.refused THEN "too_big" ELSE "failed")
         /\ node' = ns /\ UNCHANGED allowance

acquire(c, r, before) ==
  LET ns == [n \in Nodes |-> LET e == refill(before[n]) IN IF n \in r.exclude THEN e ELSE Forget(e)]
      candidates == {n \in Nodes \ r.exclude : usable(ns[n], r.q)}
      ready == {n \in candidates : Ready(ns[n])}
      wait == AtLeast(1, Min({Wait(ns[n]) : n \in candidates}))
  IN
  CASE ready # {} -> \E n \in ready : Send(c, r, ns, n)
    [] ready = {} /\ candidates # {} /\ InBudget(r, wait) -> Sleep(c, r, ns, "waiting", wait)
    [] OTHER -> NoNode(c, r, ns)

-----------------------------------------------------------------------------
(* Asking.                                                                 *)

Hit(q) == answers[q] # NotKept /\ now - answers[q] < Ttl[q]

Shared(q) == inFlight[q] # None

FromCache(c, q) == call[c].pc = "idle" /\ Hit(q) /\ UNCHANGED vars

Join(c, q) ==
  /\ call[c].pc = "idle" /\ ~Hit(q) /\ Shared(q)
  /\ asks < MaxAsks /\ asks' = asks + 1
  /\ call' = [call EXCEPT ![c].pc = "joined", ![c].q = q]
  /\ UNCHANGED <<now, node, inFlight, answers, told, allowance>>

Begin(c, q) ==
  /\ call[c].pc = "idle" /\ ~Hit(q) /\ ~Shared(q)
  /\ asks < MaxAsks /\ asks' = asks + 1
  /\ acquire(c, [call[c] EXCEPT !.q = q, !.deadline = now + BUDGET], node)
  /\ UNCHANGED <<now, told>>

\* A sleep is over: the nodes are looked at again.
Wake(c) ==
  /\ call[c].pc \in {"waiting", "paused"} /\ call[c].until = now
  /\ acquire(c, call[c], node)
  /\ UNCHANGED <<now, asks, told>>

-----------------------------------------------------------------------------
(* What a node answers.                                                    *)

\* Mutant: a node that refuses keeps the place of its request.
KeptIfRefused(e, outcome) == IF outcome = "refuses" THEN e ELSE [e EXCEPT !.inFlight = @ - 1]

Release(e, outcome) == [e EXCEPT !.inFlight = @ - 1]

\* The node put aside and the next one looked for, or the end.
TryNext(c, r, ns) ==
  LET out == [r EXCEPT !.exclude = @ \cup {r.node}, !.node = None, !.second = FALSE] IN
  IF r.attempt + 1 < ATTEMPTS
    THEN acquire(c, [out EXCEPT !.attempt = @ + 1], ns)
    ELSE Finish(c, r.q, IF r.refused THEN "too_big" ELSE "failed") /\ node' = ns /\ UNCHANGED allowance

\* The node is done with caller c's request and left as `e`; the run goes on as `r`.
Failed(c, r, e, outcome) ==
  /\ TryNext(c, r, [node EXCEPT ![r.node] = Release(e, outcome)])
  /\ UNCHANGED <<now, asks>>

\* HTTP 429, or "slow down" in the body.  A Retry-After that is missing, 0 or a date
\* gives the growing pause.
Limited(c) ==
  LET r == call[c]  e == Streak(node[r.node]) IN
  /\ r.pc = "fetching" /\ "limited" \in Troubles[r.node]
  /\ \E ms \in Honoured \cup {LimitedPause(e)} :
       /\ Failed(c, r, cool(e, ms), "limited")
       /\ told' = [told EXCEPT ![r.node] = AtLeast(@, now + ms)]

\* HTTP 401 or 403, or a body that says the node cannot.
Refuses(c) ==
  LET r == call[c] IN
  /\ r.pc = "fetching" /\ "refuses" \in Troubles[r.node]
  /\ Failed(c, r, Block(node[r.node], r.q), "refuses") /\ UNCHANGED told

\* HTTP 5xx or a lost connection at any time, and the abort when the time is up.
Breaks(c) ==
  LET r == call[c]  e == Streak(node[r.node]) IN
  /\ r.pc = "fetching" /\ "breaks" \in Troubles[r.node]
  /\ Failed(c, r, cool(e, FailedPause(e)), "breaks") /\ UNCHANGED told

\* The log range was too big for this node.
TooBig(c) ==
  LET r == call[c] IN
  /\ r.pc = "fetching" /\ "too_big" \in Troubles[r.node] /\ Method[r.q] = "eth_getLogs"
  /\ Failed(c, [r EXCEPT !.refused = TRUE], Narrow(node[r.node], r.q), "too_big") /\ UNCHANGED told

\* A result (null is one too), or the node's own error, which is an answer as well.
Answers(c, body) ==
  LET r == call[c]
      e == IF body = "node-error" THEN node[r.node] ELSE [node[r.node] EXCEPT !.failStreak = 0]
  IN
  /\ r.pc = "fetching"
  /\ node' = [node EXCEPT ![r.node] = Release(e, body)]
  /\ Finish(c, r.q, body)
  /\ UNCHANGED <<now, asks, told, allowance>>

\* Timers fire on time, so time stops while one is due.
Tick ==
  /\ now < MaxTime /\ \A c \in Callers : call[c].pc \in Waiting => call[c].until > now
  /\ now' = now + 1
  /\ allowance' = [n \in Nodes |-> AtMost(Cap, allowance[n] + RPS)]
  /\ UNCHANGED <<asks, node, call, inFlight, answers, told>>

-----------------------------------------------------------------------------

Init ==
  /\ now = 0 /\ asks = 0
  /\ node = [n \in Nodes |->
       [tokens |-> Cap, refilledAt |-> 0, inFlight |-> 0, cooldownUntil |-> 0, failStreak |-> 0,
        blocked |-> [m \in Methods |-> 0], logRangeMax |-> NoLimit, logRangeUntil |-> 0]]
  /\ call = [c \in Callers |-> Idle]
  /\ inFlight = [q \in Questions |-> None] /\ answers = [q \in Questions |-> NotKept]
  /\ told = [n \in Nodes |-> 0] /\ allowance = [n \in Nodes |-> Cap]

Next ==
  \/ \E c \in Callers, q \in Questions : FromCache(c, q) \/ Join(c, q) \/ Begin(c, q)
  \/ \E c \in Callers : Wake(c) \/ Limited(c) \/ Refuses(c) \/ Breaks(c) \/ TooBig(c)
  \/ \E c \in Callers, body \in {"result", "null", "node-error"} : Answers(c, body)
  \/ Tick

Spec == Init /\ [][Next]_vars

-----------------------------------------------------------------------------
(* Properties                                                              *)

\* Every variable stays within its type.
TypeOK ==
  /\ now \in 0..MaxTime /\ asks \in 0..MaxAsks /\ node \in [Nodes -> Endpoint] /\ call \in [Callers -> Call]
  /\ inFlight \in [Questions -> Callers \cup {None}]
  /\ answers \in [Questions -> Nat \cup {NotKept}]
  /\ told \in [Nodes -> Nat] /\ allowance \in [Nodes -> Int]

\* A node's count of requests in flight is the number of runs that wait for its answer,
\* however each one ended: a place is never lost, and never more are taken than there are.
PlacesCounted ==
  \A n \in Nodes :
    /\ node[n].inFlight = Cardinality({c \in Callers : call[c].pc = "fetching" /\ call[c].node = n})
    /\ node[n].inFlight <= MAX_IN_FLIGHT

\* Nobody asks a node more often than it earns, unit by unit, with at most two seconds
\* saved up, though the code adds up only when it looks ("it stays inside each node's").
RateKept == \A n \in Nodes : allowance[n] >= 0

\* The same question is at one node at a time, however many ask it, and whoever joined a
\* run has somebody to wait for.
AskedOnce ==
  /\ \A c, d \in Callers :
       call[c].pc \in Waiting /\ call[d].pc \in Waiting /\ call[c].q = call[d].q => c = d
  /\ \A c \in Callers : call[c].pc = "joined" =>
       \E d \in Callers : call[d].pc \in Waiting /\ call[d].q = call[c].q

\* A request ends by the budget and the time its attempts may take after it.
EndsInTime ==
  \A c \in Callers : call[c].pc \in Waiting => now <= call[c].deadline + ATTEMPTS * TIMEOUT

\* A node that said "slow down" is left alone for the seconds it asked for, 120 at most, or
\* else the growing pause, whatever other pause was set since and whoever asks.
LeftAlone ==
  [][\A n \in Nodes : allowance'[n] < allowance[n] => now >= told[n]]_vars
=============================================================================
