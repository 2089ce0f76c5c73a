----------------------------- MODULE PlanRunner -----------------------------
(***************************************************************************)
(* The plan runner (website/src/swings/plan) on the plan its screen makes: *)
(* leg 1 buys USDC with a provider and is proved by the user's balance,    *)
(* leg 2 moves what arrived with the orchestrator, quoted when its turn    *)
(* comes.  Every open tab steps the same stored plan on a timer.           *)
(*                                                                         *)
(* A move is seen here as its executors see it: by the state of its record *)
(* and by what became of its burn.  Orchestrator has the rest.             *)
(***************************************************************************)
EXTENDS Integers, FiniteSets

CONSTANTS
  Pages,       \* tabs that step the plan
  Spare,       \* USDC in the wallet before the plan
  Bought,      \* USDC the provider sends
  Stray,       \* USDC somebody else sends to the same wallet
  MaxMoves,    \* bound: executions created for leg 2
  MaxCrashes   \* bound: tabs that die or reload

ASSUME AmountsAssumption ==
  /\ Spare \in Nat /\ Stray \in Nat
  /\ Bought \in Nat \ {0}
ASSUME BoundsAssumption == MaxMoves \in Nat \ {0} /\ MaxCrashes \in Nat

VARIABLES
  plan,       \* the stored record of the plan
  op,         \* op[p]: where page p's runner.step is (its `busy` set)
  moves,      \* the stored records of the moves made for leg 2, and their burns
  fresh,      \* fresh[p]: the moves whose quote page p accepted
  held,       \* USDC in the wallet on the first network
  arrivals,   \* which of "bought" and "stray" have arrived
  lapsed,     \* the plan's quote has expired
  crashes

vars == <<plan, op, moves, fresh, held, arrivals, lapsed, crashes>>

-----------------------------------------------------------------------------
(* The plan's record and its transition table (state.ts).                  *)

NEXT(s) ==
  CASE s = "PLANNED"      -> {"RUNNING", "CANCELLED", "EXPIRED", "FAILED"}
    [] s = "RUNNING"      -> {"WAITING_USER", "COMPLETED", "FAILED"}
    [] s = "WAITING_USER" -> {"RUNNING", "FAILED"}
    [] OTHER              -> {}

PlanFinal == {"COMPLETED", "FAILED", "CANCELLED", "EXPIRED"}
PlanStates == {"none", "PLANNED", "RUNNING", "WAITING_USER"} \cup PlanFinal
LegStatuses == {"pending", "active", "waiting-user", "needs-requote", "done", "failed"}

Legs == {1, 2}
MoveNo == 0..MaxMoves   \* 0 is "no execution id"
Unread == -1            \* no watchBaseline

PlanRecord ==
  [state : PlanStates, legs : [Legs -> LegStatuses], base : Nat \cup {Unread}, move : MoveNo]

newPlan == [state |-> "PLANNED", legs |-> [i \in Legs |-> "pending"], base |-> Unread, move |-> 0]

hasBegun(r) == \E i \in Legs : r.legs[i] # "pending"

\* movePlan: the moves it refuses are the ones it throws on.
CanMove(r, to) ==
  /\ to \in NEXT(r.state)
  /\ to \in {"CANCELLED", "EXPIRED"} => ~hasBegun(r)
  /\ to = "COMPLETED" => \A i \in Legs : r.legs[i] = "done"

\* The records of the moves.  "adrift": the user answered "it was sent" for a
\* burn the record never moved to SOURCE_SUBMITTED for.
MoveFinal == {"completed", "failed", "expired"}
MoveStates == {"none", "open", "adrift", "sent", "settling"} \cup MoveFinal
Burns == {"none", "inflight", "confirmed", "failed"}

Move == [state : MoveStates, amount : Nat, attention : BOOLEAN, burn : Burns]
NoMove == [state |-> "none", amount |-> 0, attention |-> FALSE, burn |-> "none"]

-----------------------------------------------------------------------------
(* One call of runner.step.  As in Orchestrator, `stale` is set when another *)
(* page writes the plan after this call read it: its next write is refused.  *)
(* An executor does not look: it goes on with what it began.                 *)

Answers == {"waiting-user", "needs-requote", "active", "done", "failed", "threw"}
Executing == {"rampStart", "rampPoll", "moveStart", "quoted", "cleared", "starting"}
Places == {"idle", "complete", "answered", "waiting", "failing"} \cup Executing

Op == [pc : Places, leg : Legs, stale : BOOLEAN, move : MoveNo, amount : Nat,
       answer : Answers, base : Nat \cup {Unread}]

Idle == [pc |-> "idle", leg |-> 1, stale |-> FALSE, move |-> 0, amount |-> 0,
         answer |-> "active", base |-> Unread]

At(pc, i, m) == [Idle EXCEPT !.pc = pc, !.leg = i, !.move = m]

\* Mutant: a leg that waits for the user does not hold up the next one.
GoesOnPastWaiting(r) ==
  IF r.legs[1] \in {"pending", "active", "failed"}
    THEN At(IF r.legs[1] = "pending" THEN "rampStart" ELSE "rampPoll", 1, 0)
  ELSE IF r.legs[2] = "done" THEN At("complete", 2, 0)
  ELSE At(IF r.move = 0 THEN "moveStart" ELSE "starting", 2, r.move)

\* The loop of step: the first leg that is not done, started or polled.
GoesOn(r) ==
  IF r.legs[1] # "done"
    THEN At(IF r.legs[1] = "pending" THEN "rampStart" ELSE "rampPoll", 1, 0)
  ELSE IF r.legs[2] = "done" THEN At("complete", 2, 0)
  ELSE At(IF r.move = 0 THEN "moveStart" ELSE "starting", 2, r.move)

Reached(p, pc) == op[p].pc = pc /\ ~op[p].stale

Save(p, r, o) ==
  /\ plan' = r
  /\ op' = [q \in Pages |->
              IF q = p THEN o
              ELSE IF op[q].pc = "idle" THEN op[q] ELSE [op[q] EXCEPT !.stale = TRUE]]

SaveMove(p, r, to, o) == CanMove(r, to) /\ Save(p, [r EXCEPT !.state = to], o)

\* The executor answers; nothing is written yet.
Goes(p, o) == op' = [op EXCEPT ![p] = o] /\ UNCHANGED plan
Answer(p, answer, base, m) ==
  Goes(p, [op[p] EXCEPT !.pc = "answered", !.answer = answer, !.base = base, !.move = m])

Init ==
  /\ plan = [newPlan EXCEPT !.state = "none"]
  /\ op = [p \in Pages |-> Idle]
  /\ moves = [m \in 1..MaxMoves |-> NoMove]
  /\ fresh = [p \in Pages |-> {}]
  /\ held = Spare
  /\ arrivals = {}
  /\ lapsed = FALSE
  /\ crashes = 0

world == <<moves, fresh, held, arrivals, lapsed, crashes>>

-----------------------------------------------------------------------------
(* create, cancel, and the head of step.                                   *)

Create(p) ==
  /\ plan.state = "none" /\ ~lapsed
  /\ Save(p, newPlan, Idle)
  /\ UNCHANGED world

\* Mutant: cancel asks only whether a leg was saved as begun.
CancelUnbegun(p) ==
  /\ op[p].pc = "idle"
  /\ plan.state \notin PlanFinal \cup {"none"} /\ ~hasBegun(plan)
  /\ Save(p, [plan EXCEPT !.state = "CANCELLED"], Idle)
  /\ UNCHANGED world

Cancel(p) ==
  /\ op[p].pc = "idle"
  /\ SaveMove(p, plan, "CANCELLED", Idle)
  /\ UNCHANGED world

StepExpires(p) ==
  /\ op[p].pc = "idle"
  /\ plan.state = "PLANNED" /\ lapsed
  /\ SaveMove(p, plan, "EXPIRED", Idle)
  /\ UNCHANGED world

\* Mutant: a plan that waits for the user is left alone.
StepRunsUnasked(p) ==
  /\ op[p].pc = "idle"
  /\ plan.state = "PLANNED" => ~lapsed
  /\ \/ plan.state = "PLANNED" /\ SaveMove(p, plan, "RUNNING", GoesOn(plan))
     \/ plan.state = "RUNNING" /\ Goes(p, GoesOn(plan))
  /\ UNCHANGED world

StepRuns(p) ==
  /\ op[p].pc = "idle"
  /\ plan.state = "PLANNED" => ~lapsed
  /\ \/ plan.state \in {"PLANNED", "WAITING_USER"} /\ SaveMove(p, plan, "RUNNING", GoesOn(plan))
     \/ plan.state = "RUNNING" /\ Goes(p, GoesOn(plan))
  /\ UNCHANGED world

StepCompletes(p) ==
  /\ Reached(p, "complete")
  /\ SaveMove(p, plan, "COMPLETED", Idle)
  /\ UNCHANGED world

-----------------------------------------------------------------------------
(* Leg 1: BalanceLegExecutor.                                              *)

RampBegins(p) ==
  /\ op[p].pc = "rampStart"
  /\ \E readable \in BOOLEAN : Answer(p, "waiting-user", IF readable THEN held ELSE Unread, 0)
  /\ UNCHANGED world

\* No wallet, no baseline, a balance that cannot be read, or no rise in it.
RampWaits(p) ==
  /\ op[p].pc = "rampPoll"
  /\ Answer(p, "waiting-user", Unread, 0)
  /\ UNCHANGED world

\* Mutant: the balance must rise above the minimum.
RampArrivedAbove(p) ==
  /\ op[p].pc = "rampPoll"
  /\ plan.base # Unread
  /\ held > plan.base + 1
  /\ Answer(p, "done", Unread, 0)
  /\ UNCHANGED world

RampArrived(p) ==
  /\ op[p].pc = "rampPoll"
  /\ plan.base # Unread
  /\ held >= plan.base + 1
  /\ Answer(p, "done", Unread, 0)
  /\ UNCHANGED world

-----------------------------------------------------------------------------
(* Leg 2: DeferredSettlementExecutor.start, while there is no move to follow. *)

\* No wallet, no baseline, nothing read or arrived, or no route.
MoveWaits(p) ==
  /\ op[p].pc = "moveStart"
  /\ Answer(p, "waiting-user", Unread, 0)
  /\ UNCHANGED world

\* The quote, fees included, takes exactly what arrived.
MoveQuoted(p) ==
  /\ op[p].pc = "moveStart"
  /\ plan.base # Unread /\ held > plan.base
  /\ Goes(p, [op[p] EXCEPT !.pc = "quoted", !.amount = held - plan.base])
  /\ UNCHANGED world

\* assess blocks it, or the user does not accept the risks.
MoveHeld(p) ==
  /\ op[p].pc = "quoted"
  /\ Answer(p, "waiting-user", Unread, 0)
  /\ UNCHANGED world

Unfinished(m) == moves[m].state \notin MoveFinal \cup {"none"}

\* assess allows it: the balance covers it, and no unfinished move is the same.
MoveCleared(p) ==
  /\ op[p].pc = "quoted"
  /\ held >= op[p].amount
  /\ \A m \in 1..MaxMoves : Unfinished(m) => moves[m].amount # op[p].amount
  /\ Goes(p, [op[p] EXCEPT !.pc = "cleared"])
  /\ UNCHANGED world

\* The quote expired while the user decided.
MoveExpired(p) ==
  /\ op[p].pc = "cleared"
  /\ Answer(p, "needs-requote", Unread, 0)
  /\ UNCHANGED world

MoveCreated(p) ==
  /\ op[p].pc = "cleared"
  /\ \E m \in 1..MaxMoves :
       /\ moves[m].state = "none"
       /\ \A k \in 1..(m - 1) : moves[k].state # "none"
       /\ moves' = [moves EXCEPT ![m] = [NoMove EXCEPT !.state = "open", !.amount = op[p].amount]]
       /\ fresh' = [fresh EXCEPT ![p] = @ \cup {m}]
       /\ Goes(p, [op[p] EXCEPT !.pc = "starting", !.move = m])
  /\ UNCHANGED <<held, arrivals, lapsed, crashes>>

-----------------------------------------------------------------------------
(* Leg 2: inside orchestrator.start and advance.                           *)

InCall(p, state) ==
  op[p].pc = "starting" /\ moves[op[p].move].state = state /\ ~moves[op[p].move].attention

\* The move of page p's call is changed, and the call goes on.
MoveBecomes(p, r) ==
  /\ moves' = [moves EXCEPT ![op[p].move] = r]
  /\ UNCHANGED <<plan, fresh, held, arrivals, lapsed, crashes>>

CanSign(p) == InCall(p, "open") /\ op[p].move \in fresh[p] /\ moves[op[p].move].burn = "none"

\* The wait for an earlier step may have run out: start goes on, and the record
\* is flagged.
SignBurn(p) ==
  /\ CanSign(p)
  /\ \E flagged \in BOOLEAN :
       MoveBecomes(p, [moves[op[p].move] EXCEPT
                         !.state = "sent", !.burn = "inflight", !.attention = flagged])
  /\ UNCHANGED op

\* The wallet sent it, and the hash could not be saved: start throws.
SignLost(p) ==
  /\ CanSign(p)
  /\ \E flagged \in BOOLEAN :
       MoveBecomes(p, [moves[op[p].move] EXCEPT !.burn = "inflight", !.attention = flagged])
  /\ op' = [op EXCEPT ![p].pc = "answered", ![p].answer = "threw"]

\* The wallet's answer is unclear, an earlier call was interrupted in it, or a step
\* was waited for too long.
SignUnclear(p) ==
  LET r == moves[op[p].move] IN
  /\ InCall(p, "open")
  /\ \E burn \in {r.burn} \cup (IF CanSign(p) THEN {"inflight"} ELSE {}) :
       MoveBecomes(p, [r EXCEPT !.attention = TRUE, !.burn = burn])
  /\ UNCHANGED op

\* Nothing was sent and the quote lapsed, was accepted elsewhere, or an earlier
\* step failed; or a burn the record never followed is given up.
MoveDropped(p) ==
  LET r == moves[op[p].move] IN
  /\ \/ /\ InCall(p, "open") /\ r.burn = "none"
        /\ \E how \in {"expired", "failed"} : MoveBecomes(p, [r EXCEPT !.state = how])
     \/ /\ InCall(p, "adrift")
        /\ op[p].move \notin fresh[p] \/ r.burn = "failed"
        /\ \E flagged \in BOOLEAN :
             MoveBecomes(p, [r EXCEPT !.state = "failed", !.attention = flagged])
  /\ UNCHANGED op

\* Mutant: a move in settlement is taken for a finished one.
mapEagerly(r) ==
  CASE r.attention -> "waiting-user"
    [] ~r.attention /\ r.state \in {"completed", "settling"} -> "done"
    [] ~r.attention /\ r.state = "failed" -> "failed"
    [] ~r.attention /\ r.state = "expired" -> "needs-requote"
    [] ~r.attention /\ r.state \in {"open", "adrift"} -> "waiting-user"
    [] OTHER -> "active"

\* SettlementLegExecutor.map; a move that can be claimed waits for the user.
map(r) ==
  CASE r.attention -> "waiting-user"
    [] ~r.attention /\ r.state = "completed" -> "done"
    [] ~r.attention /\ r.state = "failed" -> "failed"
    [] ~r.attention /\ r.state = "expired" -> "needs-requote"
    [] ~r.attention /\ r.state \in {"open", "adrift"} -> "waiting-user"
    [] OTHER -> "active"

CallReturns(p) ==
  LET r == moves[op[p].move] IN
  /\ op[p].pc = "starting"
  /\ \E answer \in {map(r)} \cup (IF r.state = "settling" THEN {"waiting-user"} ELSE {}) :
       Answer(p, answer, Unread, IF answer = "needs-requote" THEN 0 ELSE op[p].move)
  /\ UNCHANGED world

\* create or start throws: storage, a provider, a check, the wallet, a busy record.
CallThrows(p) ==
  /\ \/ op[p].pc = "cleared"
     \/ op[p].pc = "starting" /\ Unfinished(op[p].move)
  /\ Answer(p, "threw", Unread, 0)
  /\ UNCHANGED world

-----------------------------------------------------------------------------
(* The tail of step: the answer is saved.                                  *)

\* The leg of page p's call with a new status and what the answer adds to its ref.
WithLeg(p, status) ==
  [plan EXCEPT !.legs[op[p].leg] = status,
               !.base = IF op[p].base = Unread THEN @ ELSE op[p].base,
               !.move = IF op[p].move = 0 THEN @ ELSE op[p].move]

Answered(p, answers) == Reached(p, "answered") /\ op[p].answer \in answers

SaveDone(p) ==
  /\ Answered(p, {"done"})
  /\ Save(p, WithLeg(p, "done"), GoesOn(WithLeg(p, "done")))
  /\ UNCHANGED world

SaveActive(p) ==
  /\ Answered(p, {"active"})
  /\ Save(p, WithLeg(p, "active"), Idle)
  /\ UNCHANGED world

\* Two writes: the leg, then the plan.
SaveLeg(p) ==
  /\ Answered(p, {"waiting-user", "needs-requote", "failed"})
  /\ Save(p, WithLeg(p, op[p].answer),
          [Idle EXCEPT !.pc = IF op[p].answer = "failed" THEN "failing" ELSE "waiting"])
  /\ UNCHANGED world

PlanWaits(p) ==
  /\ Reached(p, "waiting")
  /\ SaveMove(p, plan, "WAITING_USER", Idle)
  /\ UNCHANGED world

PlanFails(p) ==
  /\ Reached(p, "failing")
  /\ SaveMove(p, plan, "FAILED", Idle)
  /\ UNCHANGED world

\* The catch of step: the leg keeps its status, and no ref is saved.
SaveThrown(p) ==
  /\ Answered(p, {"threw"})
  /\ SaveMove(p, plan, "WAITING_USER", Idle)
  /\ UNCHANGED world

\* A write is refused (the plan was changed elsewhere) or fails: step throws.
WriteFails(p) ==
  /\ op[p].pc \notin Executing \cup {"idle"}
  /\ Goes(p, Idle)
  /\ UNCHANGED world

-----------------------------------------------------------------------------
(* The Move tab, the user and the network, the chain, and crashes.         *)

Changed(m, r) ==
  /\ moves' = [moves EXCEPT ![m] = r]
  /\ UNCHANGED <<plan, op, fresh, arrivals, lapsed, crashes>>

\* The record follows its burn, and the settlement.  A call that went on after its
\* record was flagged follows it all the same.
MoveFollowed(m) ==
  LET r == moves[m] IN
  /\ \/ r.state = "sent" /\ r.burn = "confirmed" /\ Changed(m, [r EXCEPT !.state = "settling"])
     \/ r.state = "sent" /\ r.burn = "failed" /\ Changed(m, [r EXCEPT !.state = "failed"])
     \/ r.state = "settling" /\ Changed(m, [r EXCEPT !.state = "completed"])
  /\ UNCHANGED held

\* The burn or the claim was waited for too long, or cannot be told of.
MoveFlagged(m) ==
  /\ moves[m].state \in {"adrift", "sent", "settling"} /\ ~moves[m].attention
  /\ Changed(m, [moves[m] EXCEPT !.attention = TRUE])
  /\ UNCHANGED held

\* The user answers truthfully: before the record is in SOURCE_SUBMITTED whether
\* the burn was sent, after it a question that no longer changes the move.
UserAnswers(m) ==
  LET r == moves[m] IN
  /\ r.attention
  /\ IF r.state \notin {"open", "adrift"}
       THEN Changed(m, [r EXCEPT !.attention = FALSE])
     ELSE IF r.burn \in {"inflight", "confirmed"}
       THEN Changed(m, [r EXCEPT !.attention = FALSE, !.state = "adrift"])
       ELSE Changed(m, [r EXCEPT !.attention = FALSE, !.state = "open", !.burn = "none"])
  /\ UNCHANGED held

\* A burn in flight ends; one the wallet cannot pay for fails.
BurnEnds(m) ==
  LET r == moves[m] IN
  /\ r.burn = "inflight"
  /\ \/ held >= r.amount /\ held' = held - r.amount /\ Changed(m, [r EXCEPT !.burn = "confirmed"])
     \/ held' = held /\ Changed(m, [r EXCEPT !.burn = "failed"])

\* The provider's page is opened once leg 1 has begun.
Deliver(what, amount) ==
  /\ what = "bought" => plan.legs[1] # "pending"
  /\ what \notin arrivals
  /\ arrivals' = arrivals \cup {what}
  /\ held' = held + amount
  /\ UNCHANGED <<plan, op, moves, fresh, lapsed, crashes>>

\* The wallet is the user's: what is in it may be spent at any time, on anything.
Spend ==
  /\ held > 0 /\ held' = held - 1
  /\ UNCHANGED <<plan, op, moves, fresh, arrivals, lapsed, crashes>>

\* Nothing reads the plan's expiry once a step began it.
QuoteLapses ==
  /\ plan.state \in {"none", "PLANNED"}
  /\ ~lapsed /\ lapsed' = TRUE
  /\ UNCHANGED <<plan, op, moves, fresh, held, arrivals, crashes>>

Crash(p) ==
  /\ crashes < MaxCrashes /\ crashes' = crashes + 1
  /\ op' = [op EXCEPT ![p] = Idle]
  /\ fresh' = [fresh EXCEPT ![p] = {}]
  /\ UNCHANGED <<plan, moves, held, arrivals, lapsed>>

-----------------------------------------------------------------------------

Step(p) ==
  \/ StepCompletes(p)
  \/ RampBegins(p) \/ RampWaits(p) \/ RampArrived(p)
  \/ MoveWaits(p) \/ MoveQuoted(p) \/ MoveHeld(p) \/ MoveCleared(p)
  \/ MoveExpired(p) \/ MoveCreated(p)
  \/ SignBurn(p) \/ SignLost(p) \/ SignUnclear(p) \/ MoveDropped(p)
  \/ CallReturns(p) \/ CallThrows(p)
  \/ SaveDone(p) \/ SaveActive(p) \/ SaveLeg(p) \/ SaveThrown(p)
  \/ PlanWaits(p) \/ PlanFails(p)
  \/ WriteFails(p)

World(m) == MoveFollowed(m) \/ MoveFlagged(m) \/ UserAnswers(m) \/ BurnEnds(m)

Next ==
  \/ \E p \in Pages :
       Create(p) \/ Cancel(p) \/ StepExpires(p) \/ StepRuns(p) \/ Step(p) \/ Crash(p)
  \/ \E m \in 1..MaxMoves : World(m)
  \/ Deliver("bought", Bought) \/ Deliver("stray", Stray)
  \/ Spend
  \/ QuoteLapses

Spec == Init /\ [][Next]_vars

\* The screen's timer steps an unfinished plan for ever; a call goes on; a balance
\* that is read again and again is read once, and a save that is tried again succeeds.
LiveSpec ==
  /\ Spec
  /\ \A p \in Pages :
       /\ WF_vars(StepRuns(p)) /\ WF_vars(StepExpires(p)) /\ WF_vars(Step(p))
       /\ SF_vars(RampArrived(p)) /\ SF_vars(MoveQuoted(p)) /\ SF_vars(MoveCleared(p))
       /\ SF_vars(SaveDone(p)) /\ SF_vars(SaveLeg(p)) /\ SF_vars(CallReturns(p))
       /\ SF_vars(StepCompletes(p))

-----------------------------------------------------------------------------
(* Properties                                                              *)

\* Every variable stays within its type.
TypeOK ==
  /\ plan \in PlanRecord
  /\ op \in [Pages -> Op]
  /\ moves \in [1..MaxMoves -> Move]
  /\ fresh \in [Pages -> SUBSET (1..MaxMoves)]
  /\ held \in Nat
  /\ arrivals \in SUBSET {"bought", "stray"}
  /\ lapsed \in BOOLEAN
  /\ crashes \in 0..MaxCrashes

\* No move is made for leg 2 before leg 1 is done, whichever tab makes it
\* (runner.ts: "legs run strictly in order").
LegsInOrder ==
  (\E m \in 1..MaxMoves : moves[m].state # "none") => plan.legs[1] = "done"

\* A plan is dropped (cancelled, expired) only if no tab began anything of it.
DroppedBeganNothing ==
  plan.state \in {"CANCELLED", "EXPIRED"} =>
    /\ ~hasBegun(plan)
    /\ \A p \in Pages : op[p].pc \notin Executing
    /\ \A m \in 1..MaxMoves : moves[m].state = "none"

\* The plan and the move behind it agree (recovery.ts): the plan is complete, or
\* leg 2 done, only if its own move completed, and fails only if that move failed.
PlanAgreesWithMove ==
  /\ plan.legs[2] = "done" =>
       plan.move # 0 /\ moves[plan.move].state = "completed"
  /\ plan.state = "FAILED" => plan.move # 0 /\ moves[plan.move].state = "failed"
  /\ plan.state = "COMPLETED" => \A i \in Legs : plan.legs[i] = "done"

\* Whatever was begun before in another tab, a plan that is over stays as it is.
FinalPlanStays == [][plan.state \in PlanFinal => UNCHANGED plan]_vars

\* A plan that follows a move, or watches from a balance, keeps to it, and a leg
\* that is done stays done.
FollowsOneMove ==
  [][/\ plan.move # 0 => plan'.move = plan.move
     /\ plan.base # Unread => plan'.base = plan.base
     /\ \A i \in Legs : plan.legs[i] = "done" => plan'.legs[i] = "done"]_vars

\* A plan moves its money once: two moves made for leg 2 never both have a burn
\* that is done or on its way (runner.ts: "a leg is started once").
MovedOnce ==
  \A m, k \in 1..MaxMoves :
    {moves[m].burn, moves[k].burn} \subseteq {"inflight", "confirmed"} => m = k

\* An executor that throws changes nothing (runner.ts): the leg it did not start
\* has no move behind it.
ThrownLegLeftNothing ==
  \A p \in Pages :
    Answered(p, {"threw"}) /\ plan.move = 0 => \A m \in 1..MaxMoves : moves[m].state = "none"

\* The purchase is done only when at least what it states arrived (executors.ts:
\* "rose by at least the leg's stated minimum (buy, swap)").
BoughtBeforeDone ==
  plan.legs[1] = "done" =>
    Bought <= (IF "bought" \in arrivals THEN Bought ELSE 0)
              + (IF "stray" \in arrivals THEN Stray ELSE 0)

\* The wallet holds more than the plan watched from.
RiseShows == plan.base # Unread /\ held > plan.base

\* A rise that lasts is seen, through any reload, and any balance that could not be
\* read.  One spent before it was read is not (executors.ts compares two balances).
PurchaseIsSeen == RiseShows ~> (plan.legs[1] = "done" \/ ~RiseShows)

\* A plan whose own move completed, with no question left open, is completed.
CompletedMoveEndsPlan ==
  (/\ plan.move # 0 /\ moves[plan.move].state = "completed"
   /\ ~moves[plan.move].attention) ~> plan.state = "COMPLETED"

\* A balance that could not be read is read again (executors.ts: "this step cannot
\* begin safely. Try again shortly.").
BalanceIsReadAgain ==
  (plan.legs[1] = "waiting-user" /\ plan.base = Unread) ~> plan.base # Unread

\* A leg that needs a new quote gets one (recovery.ts: "Get a new quote for the
\* remaining steps").
RequoteHappens ==
  plan.legs[2] = "needs-requote" ~> plan.legs[2] # "needs-requote"
=============================================================================
