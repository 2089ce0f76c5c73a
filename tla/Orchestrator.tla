---------------------------- MODULE Orchestrator ----------------------------
(***************************************************************************)
(* The cross-chain execution orchestrator of the website                   *)
(* (website/src/swings/orchestrator).  It walks one USDC move from an      *)
(* accepted quote to completion: it signs the source steps in order        *)
(* (approve, Aretia's fee, the burn), waits for them, follows the          *)
(* settlement and signs the claim (mint) on the destination.               *)
(*                                                                         *)
(* Several tabs (Pages) share one browser store of records; every tab has  *)
(* its own `busy` and `fresh` sets and its own fee ledger.  Every await of *)
(* the code at which another tab, a crash, the wallet or a chain can       *)
(* intervene is a step boundary of the model.                              *)
(***************************************************************************)
EXTENDS Integers, Sequences

CONSTANTS
  Pages,         \* browser tabs with the store open
  Execs,         \* execution ids: every one a quote for the SAME move
  SourceSteps,   \* the transactions buildSettlement returns, in order
  MaxSends,      \* bound: transactions sent per step of an execution
  MaxCrashes     \* bound: tabs that die or reload

StepIds == {SourceSteps[i] : i \in 1..Len(SourceSteps)} \cup {"mint"}
First == SourceSteps[1]
Last == SourceSteps[Len(SourceSteps)]

ASSUME SourceStepsAssumption ==
  /\ SourceSteps \in Seq({"approve", "fee", "burn"})
  /\ Len(SourceSteps) > 0
  /\ Last = "burn"
  /\ \A i, j \in 1..Len(SourceSteps) : SourceSteps[i] = SourceSteps[j] => i = j
ASSUME BoundsAssumption == MaxSends \in Nat \ {0} /\ MaxCrashes \in Nat

VARIABLES
  rec,      \* the store: the saved record of each execution
  op,       \* op[p][x]: where page p's call on execution x is (its `busy` set)
  fresh,    \* fresh[p]: executions whose quote was accepted on page p
  ledger,   \* ledger[p]: page p remembers a fee paid for this move
  live,     \* the quotes that have not expired
  chain,    \* chain[x][s][n]: the n-th transaction sent for step s of x
  settle,   \* how the settlement of x ended without our claim, if it did
  crashes

vars == <<rec, op, fresh, ledger, live, chain, settle, crashes>>

-----------------------------------------------------------------------------
(* The record and its transition table (states.ts).                        *)

NEXT(s) ==
  CASE s = "CREATED"              -> {"QUOTED", "FAILED", "EXPIRED"}
    [] s = "QUOTED"               -> {"AWAITING_SIGNATURE", "EXPIRED", "FAILED"}
    [] s = "AWAITING_SIGNATURE"   -> {"QUOTED", "SOURCE_SUBMITTED", "EXPIRED", "FAILED"}
    [] s = "SOURCE_SUBMITTED"     -> {"SOURCE_CONFIRMED", "FAILED"}
    [] s = "SOURCE_CONFIRMED"     -> {"SETTLEMENT_PENDING", "FAILED"}
    [] s = "SETTLEMENT_PENDING"   -> {"DESTINATION_RECEIVED", "FAILED", "REFUNDED"}
    [] s = "DESTINATION_RECEIVED" -> {"DESTINATION_EXECUTED", "COMPLETED", "FAILED"}
    [] s = "DESTINATION_EXECUTED" -> {"COMPLETED", "FAILED"}
    [] OTHER                      -> {}

Final == {"COMPLETED", "FAILED", "EXPIRED", "REFUNDED"}

ExecutionStates ==
  {"none", "CREATED", "QUOTED", "AWAITING_SIGNATURE", "SOURCE_SUBMITTED",
   "SOURCE_CONFIRMED", "SETTLEMENT_PENDING", "DESTINATION_RECEIVED",
   "DESTINATION_EXECUTED"} \cup Final

StepStatuses == {"none", "pending", "sending", "submitted", "confirmed", "failed"}
TxStatuses == {"unsent", "inflight", "confirmed", "failed", "dropped"}

\* A transaction is named by its number; 0 is "no hash".
TxNo == 0..MaxSends

Record ==
  [state : ExecutionStates,
   steps : [StepIds -> [status : StepStatuses, tx : TxNo]],
   executionId : TxNo,
   failure : {"none", "fundsSafe", "fundsAtRisk"},
   needsAttention : BOOLEAN]

NoRecord ==
  [state |-> "none",
   steps |-> [s \in StepIds |-> [status |-> "none", tx |-> 0]],
   executionId |-> 0, failure |-> "none", needsAttention |-> FALSE]

hasCommitted(r) == \E s \in StepIds : r.steps[s].status \notin {"none", "pending"}

\* applyTransition: the moves it refuses are the ones it throws on.
Allowed(r, to) ==
  /\ r.state \notin Final
  /\ to \in NEXT(r.state)
  /\ to = "EXPIRED" => ~hasCommitted(r)

\* The record with one step saved, moved, failed, or flagged.
WithStep(r, s, status, tx) == [r EXCEPT !.steps[s] = [status |-> status, tx |-> tx]]
WithFailure(r, why) == [r EXCEPT !.failure = why]
Flagged(r) == [r EXCEPT !.needsAttention = TRUE]

-----------------------------------------------------------------------------
(* One asynchronous call of a page on an execution.  `stale` stands for    *)
(* the version check of store.update: it is set when another page writes   *)
(* the record after this call read it, and every later write of this call  *)
(* is then refused.  While it is unset, the call's copy of the record is   *)
(* the stored one.                                                         *)

Places ==
  {"idle", "creating", "building", "stepping", "preflight", "asking", "sent",
   "declined", "moving", "waiting", "settled", "stepFailed", "confirming",
   "tracking", "arrived", "claiming"}

Op == [pc : Places, step : StepIds, stale : BOOLEAN, tx : TxNo]

Idle == [pc |-> "idle", step |-> "mint", stale |-> FALSE, tx |-> 0]
At(pc, s, tx) == [pc |-> pc, step |-> s, stale |-> FALSE, tx |-> tx]

Free(p, x) == op[p][x].pc = "idle"
Reached(p, x, pc) == op[p][x].pc = pc /\ ~op[p][x].stale

\* The call goes on without writing the record.
Continue(p, x, o) == op' = [op EXCEPT ![p][x] = o] /\ UNCHANGED rec

\* store.update succeeds: every other page's call on x now holds an old version.
Save(p, x, r, o) ==
  /\ rec' = [rec EXCEPT ![x] = r]
  /\ op' = [q \in Pages |->
              [op[q] EXCEPT ![x] =
                 IF q = p THEN o
                 ELSE IF @.pc = "idle" THEN @ ELSE [@ EXCEPT !.stale = TRUE]]]

\* move(r, to): the transition is checked, then saved.
Move(p, x, r, to, o) == Allowed(r, to) /\ Save(p, x, [r EXCEPT !.state = to], o)
Fail(p, x, r, why) == Move(p, x, WithFailure(r, why), "FAILED", Idle)

Live(x, s) == {n \in 1..MaxSends : chain[x][s][n] \in {"inflight", "confirmed"}}
Burned(x) == \E n \in 1..MaxSends : chain[x]["burn"][n] = "confirmed"
Minted(x) ==
  \/ settle[x] = "relayed"
  \/ \E n \in 1..MaxSends : chain[x]["mint"][n] = "confirmed"

\* A tab may already remember a fee, paid by an earlier attempt at the same move.
Init ==
  /\ rec = [x \in Execs |-> NoRecord]
  /\ op = [p \in Pages |-> [x \in Execs |-> Idle]]
  /\ fresh = [p \in Pages |-> {}]
  /\ ledger \in [Pages -> BOOLEAN]
  /\ live = Execs
  /\ chain = [x \in Execs |-> [s \in StepIds |-> [n \in 1..MaxSends |-> "unsent"]]]
  /\ settle = [x \in Execs |-> "open"]
  /\ crashes = 0

-----------------------------------------------------------------------------
(* create(quote): two writes, CREATED and then QUOTED.                     *)

Create(p, x) ==
  /\ Free(p, x)
  /\ rec[x].state = "none"
  /\ x \in live
  /\ Save(p, x, [rec[x] EXCEPT !.state = "CREATED"], At("creating", First, 0))
  /\ fresh' = [fresh EXCEPT ![p] = @ \cup {x}]
  /\ UNCHANGED <<ledger, live, chain, settle, crashes>>

Quote(p, x) ==
  /\ Reached(p, x, "creating")
  /\ Move(p, x, rec[x], "QUOTED", Idle)
  /\ UNCHANGED <<fresh, ledger, live, chain, settle, crashes>>

-----------------------------------------------------------------------------
(* start(id): the reads and early returns up to the first await.           *)

Sending(r) == \E s \in StepIds : r.steps[s].status = "sending"
CanBegin(p, x) ==
  /\ Free(p, x)
  /\ ~rec[x].needsAttention
  /\ rec[x].state \in {"QUOTED", "AWAITING_SIGNATURE"}

StartInterrupted(p, x) ==
  /\ CanBegin(p, x)
  /\ Sending(rec[x])
  /\ Save(p, x, Flagged(rec[x]), Idle)
  /\ UNCHANGED <<fresh, ledger, live, chain, settle, crashes>>

\* A saved quote is never signed: retire(r).
StartRetire(p, x) ==
  /\ CanBegin(p, x)
  /\ ~Sending(rec[x])
  /\ x \notin fresh[p]
  /\ IF hasCommitted(rec[x]) THEN Fail(p, x, rec[x], "fundsSafe")
                             ELSE Move(p, x, rec[x], "EXPIRED", Idle)
  /\ UNCHANGED <<fresh, ledger, live, chain, settle, crashes>>

StartExpired(p, x) ==
  /\ CanBegin(p, x)
  /\ ~Sending(rec[x])
  /\ x \in fresh[p]
  /\ x \notin live /\ ~hasCommitted(rec[x])
  /\ Move(p, x, rec[x], "EXPIRED", Idle)
  /\ UNCHANGED <<fresh, ledger, live, chain, settle, crashes>>

StartBuild(p, x) ==
  /\ CanBegin(p, x)
  /\ ~Sending(rec[x])
  /\ x \in fresh[p]
  /\ x \in live \/ hasCommitted(rec[x])
  /\ Continue(p, x, At("building", First, 0))
  /\ UNCHANGED <<fresh, ledger, live, chain, settle, crashes>>

\* buildSettlement answers.  The quote may have lapsed while it worked.
BuildLapsed(p, x) ==
  /\ Reached(p, x, "building")
  /\ x \notin live
  /\ IF hasCommitted(rec[x]) THEN Fail(p, x, rec[x], "fundsSafe")
                             ELSE Continue(p, x, Idle)
  /\ UNCHANGED <<fresh, ledger, live, chain, settle, crashes>>

\* The provider cannot be asked, or inspect/inspectAll object: start throws.
BuildRefused(p, x) ==
  /\ Reached(p, x, "building")
  /\ Continue(p, x, Idle)
  /\ UNCHANGED <<fresh, ledger, live, chain, settle, crashes>>

BuildEmpty(p, x) ==
  /\ Reached(p, x, "building")
  /\ Fail(p, x, rec[x], "fundsSafe")
  /\ UNCHANGED <<fresh, ledger, live, chain, settle, crashes>>

\* Mutant: a start that resumes goes straight to the burn.
BuildResumesAtBurn(p, x) ==
  /\ Reached(p, x, "building")
  /\ x \in live
  /\ IF rec[x].state = "QUOTED"
       THEN Move(p, x, rec[x], "AWAITING_SIGNATURE", At("stepping", First, 0))
       ELSE Continue(p, x, At("stepping", Last, 0))
  /\ UNCHANGED <<fresh, ledger, live, chain, settle, crashes>>

Build(p, x) ==
  /\ Reached(p, x, "building")
  /\ x \in live
  /\ IF rec[x].state = "QUOTED"
       THEN Move(p, x, rec[x], "AWAITING_SIGNATURE", At("stepping", First, 0))
       ELSE Continue(p, x, At("stepping", First, 0))
  /\ UNCHANGED <<fresh, ledger, live, chain, settle, crashes>>

-----------------------------------------------------------------------------
(* start(id): the loop over the source steps.                              *)

Status(x, s) == rec[x].steps[s].status

\* The step after s, or the end of the loop.
NextStep(s) == SourceSteps[(CHOOSE i \in 1..Len(SourceSteps) : SourceSteps[i] = s) + 1]
AfterStep(s) == IF s = Last THEN Idle ELSE At("stepping", NextStep(s), 0)

StepFailedBefore(p, x) ==
  LET s == op[p][x].step IN
  /\ Reached(p, x, "stepping")
  /\ Status(x, s) = "failed"
  /\ Fail(p, x, rec[x], "fundsSafe")
  /\ UNCHANGED <<fresh, ledger, live, chain, settle, crashes>>

\* settleStep of a confirmed step returns at once (confirmSource moves nothing
\* here: the loop only runs in AWAITING_SIGNATURE).
StepConfirmedBefore(p, x) ==
  LET s == op[p][x].step IN
  /\ Reached(p, x, "stepping")
  /\ Status(x, s) = "confirmed"
  /\ Continue(p, x, AfterStep(s))
  /\ UNCHANGED <<fresh, ledger, live, chain, settle, crashes>>

StepSubmittedBefore(p, x) ==
  LET s == op[p][x].step IN
  /\ Reached(p, x, "stepping")
  /\ Status(x, s) = "submitted"
  /\ Continue(p, x, At("waiting", s, rec[x].steps[s].tx))
  /\ UNCHANGED <<fresh, ledger, live, chain, settle, crashes>>

\* The fee of this very move was paid by an earlier attempt.
StepPrepaid(p, x) ==
  LET s == op[p][x].step IN
  /\ Reached(p, x, "stepping")
  /\ Status(x, s) \in {"none", "pending"}
  /\ s = "fee" /\ ledger[p]
  /\ Save(p, x, WithStep(rec[x], s, "confirmed", 0), AfterStep(s))
  /\ UNCHANGED <<fresh, ledger, live, chain, settle, crashes>>

\* Mutant: the fee ledger is not asked before the step begins.
LedgerForgotten(p, x) ==
  /\ Reached(p, x, "stepping")
  /\ Status(x, op[p][x].step) \in {"none", "pending"}
  /\ Continue(p, x, At("preflight", op[p][x].step, 0))
  /\ UNCHANGED <<fresh, ledger, live, chain, settle, crashes>>

StepBegins(p, x) ==
  LET s == op[p][x].step IN
  /\ Reached(p, x, "stepping")
  /\ Status(x, s) \in {"none", "pending"}
  /\ ~(s = "fee" /\ ledger[p])
  /\ Continue(p, x, At("preflight", s, 0))
  /\ UNCHANGED <<fresh, ledger, live, chain, settle, crashes>>

\* preflight: the burn is simulated; a refusal throws before the wallet is asked.
PreflightRefuses(p, x) ==
  /\ Reached(p, x, "preflight")
  /\ Continue(p, x, Idle)
  /\ UNCHANGED <<fresh, ledger, live, chain, settle, crashes>>

\* On a network with approvals the simulation passes only once the chain has the
\* approval (cctp.ts: preflight).
Simulates(x, s) ==
  s \in {"fee", "burn"} /\ "approve" \in StepIds =>
    \E n \in 1..MaxSends : chain[x]["approve"][n] = "confirmed"

\* "sending" is saved BEFORE the wallet is asked.
MarkSending(p, x) ==
  LET s == op[p][x].step IN
  /\ Reached(p, x, "preflight")
  /\ Simulates(x, s)
  /\ Save(p, x, WithStep(rec[x], s, "sending", 0), At("asking", s, 0))
  /\ UNCHANGED <<fresh, ledger, live, chain, settle, crashes>>

-----------------------------------------------------------------------------
(* The wallet (gateway.send), for the source steps and for the claim.      *)

CanSend(x, s, n) ==
  /\ chain[x][s][n] = "unsent"
  /\ \A m \in 1..(n - 1) : chain[x][s][m] # "unsent"

\* The wallet sends, and returns the hash; whether the record can still be
\* saved is found out at the next write.
WalletSends(p, x) ==
  LET s == op[p][x].step IN
  /\ op[p][x].pc = "asking"
  /\ \E n \in 1..MaxSends :
       /\ CanSend(x, s, n)
       /\ chain' = [chain EXCEPT ![x][s][n] = "inflight"]
       /\ Continue(p, x, [op[p][x] EXCEPT !.pc = "sent", !.tx = n])
  /\ UNCHANGED <<fresh, ledger, live, settle, crashes>>

\* A SwingsError: plainly not sent.  Only a declined signature of a source step
\* continues; every other refusal, and a declined claim, throws after the save.
WalletRefuses(p, x) ==
  LET s == op[p][x].step
      r == WithStep(rec[x], s, "pending", 0) IN
  /\ op[p][x].pc = "asking"
  /\ \/ Continue(p, x, Idle)   \* the save is refused, or fails
     \/ /\ ~op[p][x].stale
        /\ \E declined \in BOOLEAN :
             Save(p, x, r, IF declined /\ s # "mint" /\ ~hasCommitted(r)
                             THEN At("declined", s, 0) ELSE Idle)
  /\ UNCHANGED <<fresh, ledger, live, chain, settle, crashes>>

BackToQuoted(p, x) ==
  /\ Reached(p, x, "declined")
  /\ Move(p, x, rec[x], "QUOTED", Idle)
  /\ UNCHANGED <<fresh, ledger, live, chain, settle, crashes>>

\* Any other error is ambiguous: the transaction may or may not have gone out.
WalletUnclear(p, x) ==
  LET s == op[p][x].step IN
  /\ op[p][x].pc = "asking"
  /\ \/ UNCHANGED chain
     \/ \E n \in 1..MaxSends :
          CanSend(x, s, n) /\ chain' = [chain EXCEPT ![x][s][n] = "inflight"]
  /\ \/ Continue(p, x, Idle)
     \/ ~op[p][x].stale /\ Save(p, x, Flagged(rec[x]), Idle)
  /\ UNCHANGED <<fresh, ledger, live, settle, crashes>>

SaveSubmitted(p, x) ==
  LET s == op[p][x].step
      n == op[p][x].tx IN
  /\ Reached(p, x, "sent")
  /\ Save(p, x, WithStep(rec[x], s, "submitted", n),
          At(IF s = Last THEN "moving" ELSE "waiting", s, n))
  /\ UNCHANGED <<fresh, ledger, live, chain, settle, crashes>>

\* The burn was saved as submitted; a second write names it as the settlement.
MoveToSubmitted(p, x) ==
  LET s == op[p][x].step
      n == op[p][x].tx IN
  /\ Reached(p, x, "moving")
  /\ Move(p, x, [rec[x] EXCEPT !.executionId = n], "SOURCE_SUBMITTED", At("waiting", s, n))
  /\ UNCHANGED <<fresh, ledger, live, chain, settle, crashes>>

-----------------------------------------------------------------------------
(* settleStep and confirmSource: waiting for a submitted transaction.      *)

SeeConfirmed(p, x) ==
  LET s == op[p][x].step
      n == op[p][x].tx IN
  /\ Reached(p, x, "waiting")
  /\ chain[x][s][n] = "confirmed"
  /\ Save(p, x, WithStep(rec[x], s, "confirmed", n),
          IF s = "mint" THEN Idle ELSE At("settled", s, n))
  /\ UNCHANGED <<fresh, ledger, live, chain, settle, crashes>>

\* A failed claim can be built and sent again; a failed source step ends the move.
SeeFailed(p, x) ==
  LET s == op[p][x].step
      n == op[p][x].tx IN
  /\ Reached(p, x, "waiting")
  /\ chain[x][s][n] = "failed"
  /\ Save(p, x, WithStep(rec[x], s, "failed", n),
          IF s = "mint" THEN Idle ELSE At("stepFailed", s, n))
  /\ UNCHANGED <<fresh, ledger, live, chain, settle, crashes>>

FailStep(p, x) ==
  /\ Reached(p, x, "stepFailed")
  /\ Fail(p, x, rec[x], "fundsSafe")
  /\ UNCHANGED <<fresh, ledger, live, chain, settle, crashes>>

\* Mutant: no answer in time is taken for a failure.
TimeOutIsFailure(p, x) ==
  LET s == op[p][x].step IN
  /\ Reached(p, x, "waiting") /\ s # "mint"
  /\ Save(p, x, WithStep(rec[x], s, "failed", op[p][x].tx), At("stepFailed", s, 0))
  /\ UNCHANGED <<fresh, ledger, live, chain, settle, crashes>>

\* The deadline passes without an answer: not landed yet, never landing, or
\* nodes that could not be asked (an error counts as "pending").  The record is
\* flagged, and the loop of start, which stops at a final state only, goes on
\* to the next step.
TimeOut(p, x) ==
  LET s == op[p][x].step IN
  /\ Reached(p, x, "waiting")
  /\ Save(p, x, Flagged(rec[x]), IF s = "mint" THEN Idle ELSE AfterStep(s))
  /\ UNCHANGED <<fresh, ledger, live, chain, settle, crashes>>

\* A confirmed fee is remembered before anything else is written, even when
\* the next write will be refused.
SettleEarlier(p, x) ==
  LET s == op[p][x].step IN
  /\ op[p][x].pc = "settled" /\ s # Last
  /\ ledger' = [ledger EXCEPT ![p] = @ \/ s = "fee"]
  /\ Continue(p, x, [AfterStep(s) EXCEPT !.stale = op[p][x].stale])
  /\ UNCHANGED <<fresh, live, chain, settle, crashes>>

\* The burn confirmed: the fee is spent; confirmSource moves the record only
\* if it had reached SOURCE_SUBMITTED.
SettleBurn(p, x) ==
  LET s == op[p][x].step IN
  /\ op[p][x].pc = "settled" /\ s = Last
  /\ ledger' = [ledger EXCEPT ![p] = FALSE]
  /\ \/ Continue(p, x, Idle)
     \/ /\ ~op[p][x].stale /\ rec[x].state = "SOURCE_SUBMITTED"
        /\ Move(p, x, rec[x], "SOURCE_CONFIRMED", At("confirming", s, 0))
  /\ UNCHANGED <<fresh, live, chain, settle, crashes>>

MoveToPending(p, x) ==
  /\ Reached(p, x, "confirming")
  /\ Move(p, x, rec[x], "SETTLEMENT_PENDING", Idle)
  /\ UNCHANGED <<fresh, ledger, live, chain, settle, crashes>>

-----------------------------------------------------------------------------
(* start(id) after the burn was sent: resumeSource.                        *)

NamesItsBurn(r) == r.executionId # 0 /\ r.steps[Last].tx = r.executionId

\* Mutant: start does nothing for a record in SOURCE_CONFIRMED.
ResumesSubmittedOnly(p, x, state) ==
  /\ Free(p, x) /\ ~rec[x].needsAttention
  /\ rec[x].state = state /\ state # "SOURCE_CONFIRMED"

CanResume(p, x, state) == Free(p, x) /\ ~rec[x].needsAttention /\ rec[x].state = state

ResumeLost(p, x) ==
  /\ CanResume(p, x, "SOURCE_SUBMITTED")
  /\ ~NamesItsBurn(rec[x])
  /\ Save(p, x, Flagged(rec[x]), Idle)
  /\ UNCHANGED <<fresh, ledger, live, chain, settle, crashes>>

\* Mutant: a named burn is taken for a confirmed one.
ResumeUnconfirmed(p, x) ==
  /\ CanResume(p, x, "SOURCE_SUBMITTED")
  /\ NamesItsBurn(rec[x])
  /\ Move(p, x, rec[x], "SOURCE_CONFIRMED", At("confirming", Last, 0))
  /\ UNCHANGED <<fresh, ledger, live, chain, settle, crashes>>

ResumeWaiting(p, x) ==
  /\ CanResume(p, x, "SOURCE_SUBMITTED")
  /\ NamesItsBurn(rec[x])
  /\ IF Status(x, Last) = "confirmed"
       THEN Move(p, x, rec[x], "SOURCE_CONFIRMED", At("confirming", Last, 0))
       ELSE Continue(p, x, At("waiting", Last, rec[x].executionId))
  /\ UNCHANGED <<fresh, ledger, live, chain, settle, crashes>>

ResumeConfirmed(p, x) ==
  /\ CanResume(p, x, "SOURCE_CONFIRMED")
  /\ Move(p, x, rec[x], "SETTLEMENT_PENDING", Idle)
  /\ UNCHANGED <<fresh, ledger, live, chain, settle, crashes>>

-----------------------------------------------------------------------------
(* advance(id): the provider is asked where the settlement is.             *)

\* Mutant: only the page that accepted the quote follows the settlement.
AdvanceOwnQuote(p, x) ==
  /\ Free(p, x) /\ x \in fresh[p]
  /\ rec[x].state = "SETTLEMENT_PENDING" /\ rec[x].executionId # 0
  /\ Continue(p, x, At("tracking", "mint", 0))
  /\ UNCHANGED <<fresh, ledger, live, chain, settle, crashes>>

Advance(p, x) ==
  /\ Free(p, x)
  /\ rec[x].state = "SETTLEMENT_PENDING" /\ rec[x].executionId # 0
  /\ Continue(p, x, At("tracking", "mint", 0))
  /\ UNCHANGED <<fresh, ledger, live, chain, settle, crashes>>

\* Still pending, ready to claim, or the provider could not be asked.
TrackedOpen(p, x) ==
  /\ Reached(p, x, "tracking")
  /\ Continue(p, x, Idle)
  /\ UNCHANGED <<fresh, ledger, live, chain, settle, crashes>>

TrackedCompleted(p, x) ==
  /\ Reached(p, x, "tracking")
  /\ Minted(x)
  /\ Move(p, x, rec[x], "DESTINATION_RECEIVED", At("arrived", "mint", 0))
  /\ UNCHANGED <<fresh, ledger, live, chain, settle, crashes>>

Complete(p, x) ==
  /\ Reached(p, x, "arrived")
  /\ Move(p, x, rec[x], "COMPLETED", Idle)
  /\ UNCHANGED <<fresh, ledger, live, chain, settle, crashes>>

\* Mutant: an unknown answer is taken for a failed settlement.
TrackedUnknown(p, x) ==
  /\ Reached(p, x, "tracking")
  /\ Fail(p, x, rec[x], "fundsAtRisk")
  /\ UNCHANGED <<fresh, ledger, live, chain, settle, crashes>>

TrackedFailed(p, x) ==
  /\ Reached(p, x, "tracking")
  /\ settle[x] = "returned"
  /\ Fail(p, x, rec[x], "fundsAtRisk")
  /\ UNCHANGED <<fresh, ledger, live, chain, settle, crashes>>

-----------------------------------------------------------------------------
(* claim(id)                                                               *)

CanClaim(p, x) ==
  /\ CanResume(p, x, "SETTLEMENT_PENDING")
  /\ rec[x].executionId # 0

ClaimInterrupted(p, x) ==
  /\ CanClaim(p, x)
  /\ Status(x, "mint") = "sending"
  /\ Save(p, x, Flagged(rec[x]), Idle)
  /\ UNCHANGED <<fresh, ledger, live, chain, settle, crashes>>

\* Mutant: a claim already submitted is built again.
ClaimAgain(p, x) ==
  /\ CanClaim(p, x)
  /\ Status(x, "mint") # "sending"
  /\ Continue(p, x, At("claiming", "mint", 0))
  /\ UNCHANGED <<fresh, ledger, live, chain, settle, crashes>>

Claim(p, x) ==
  /\ CanClaim(p, x)
  /\ Status(x, "mint") \in {"none", "pending", "failed"}
  /\ Continue(p, x, At("claiming", "mint", 0))
  /\ UNCHANGED <<fresh, ledger, live, chain, settle, crashes>>

\* buildDestination has nothing to send, cannot be asked, or fails inspection.
ClaimRefused(p, x) ==
  /\ Reached(p, x, "claiming")
  /\ Continue(p, x, Idle)
  /\ UNCHANGED <<fresh, ledger, live, chain, settle, crashes>>

\* An attested message that the destination has not used yet.
ClaimBuilt(p, x) ==
  /\ Reached(p, x, "claiming")
  /\ chain[x]["burn"][rec[x].executionId] = "confirmed"
  /\ settle[x] = "open" /\ ~Minted(x)
  /\ Save(p, x, WithStep(rec[x], "mint", "sending", 0), At("asking", "mint", 0))
  /\ UNCHANGED <<fresh, ledger, live, chain, settle, crashes>>

-----------------------------------------------------------------------------
(* The user's own actions.                                                 *)

\* The user looks at the wallet's history and answers truthfully about a step
\* the screen asks about (walletCrossChain.ts lists `sending` and `submitted`
\* steps).  "Not sent" is only answered with no wallet prompt left open.
Latest(x, s, n) ==
  /\ chain[x][s][n] # "unsent"
  /\ \A m \in (n + 1)..MaxSends : chain[x][s][m] = "unsent"

PromptOpen(x, s) == \E q \in Pages : op[q][x].pc = "asking" /\ op[q][x].step = s

Asked(p, x, s) ==
  /\ Free(p, x)
  /\ rec[x].needsAttention
  /\ Status(x, s) \in {"sending", "submitted"}

Answered(r, s, status, n) == [WithStep(r, s, status, n) EXCEPT !.needsAttention = FALSE]

ResolveSent(p, x, s) ==
  /\ Asked(p, x, s)
  /\ \E n \in 1..MaxSends :
       /\ Latest(x, s, n) /\ chain[x][s][n] # "dropped"
       /\ Save(p, x, Answered(rec[x], s, "submitted", n), Idle)
  /\ UNCHANGED <<fresh, ledger, live, chain, settle, crashes>>

ResolveNotSent(p, x, s) ==
  /\ Asked(p, x, s)
  /\ Live(x, s) = {} /\ ~PromptOpen(x, s)
  /\ Save(p, x, Answered(rec[x], s, "pending", 0), Idle)
  /\ UNCHANGED <<fresh, ledger, live, chain, settle, crashes>>

\* recordRefund, with the refund as evidence; the state check is in move.
RecordRefund(p, x) ==
  /\ Free(p, x)
  /\ settle[x] = "returned"
  /\ Move(p, x, rec[x], "REFUNDED", Idle)
  /\ UNCHANGED <<fresh, ledger, live, chain, settle, crashes>>

-----------------------------------------------------------------------------
(* What the code does not control: lost versions, crashes, clocks, chains. *)

\* store.update refuses a write against an old version and the call throws.
Conflict(p, x) ==
  /\ op[p][x].stale
  /\ op[p][x].pc \notin {"asking", "settled"}
  /\ Continue(p, x, Idle)
  /\ UNCHANGED <<fresh, ledger, live, chain, settle, crashes>>

\* The browser will not save the record (storage full or blocked): the call throws.
SaveFails(p, x) ==
  /\ op[p][x].pc \notin {"idle", "asking", "settled"}
  /\ Continue(p, x, Idle)
  /\ UNCHANGED <<fresh, ledger, live, chain, settle, crashes>>

\* A tab dies or reloads: its calls and `fresh` are gone.  The fee ledger is
\* in session storage: it survives a reload and goes with a closed tab.
Crash(p) ==
  /\ crashes < MaxCrashes
  /\ crashes' = crashes + 1
  /\ op' = [op EXCEPT ![p] = [x \in Execs |-> Idle]]
  /\ fresh' = [fresh EXCEPT ![p] = {}]
  /\ \E kept \in {ledger[p], FALSE} : ledger' = [ledger EXCEPT ![p] = kept]
  /\ UNCHANGED <<rec, live, chain, settle>>

QuoteLapses(x) ==
  /\ x \in live
  /\ live' = live \ {x}
  /\ UNCHANGED <<rec, op, fresh, ledger, chain, settle, crashes>>

\* MOVE_FEE_PAID_WINDOW_MS passes.
LedgerLapses(p) ==
  /\ ledger[p]
  /\ ledger' = [ledger EXCEPT ![p] = FALSE]
  /\ UNCHANGED <<rec, op, fresh, live, chain, settle, crashes>>

\* A transaction in flight ends.  A claim succeeds once, and only for a burn
\* that confirmed.
Lands(x, s, n) ==
  /\ chain[x][s][n] = "inflight"
  /\ \E outcome \in {"confirmed", "failed", "dropped"} :
       /\ outcome = "confirmed" /\ s = "mint" =>
            Burned(x) /\ settle[x] = "open" /\ ~Minted(x)
       /\ chain' = [chain EXCEPT ![x][s][n] = outcome]
  /\ UNCHANGED <<rec, op, fresh, ledger, live, settle, crashes>>

\* The settlement ends without our claim: another relayer used the message, or
\* the provider gave the funds back.
SettlementEnds(x) ==
  /\ Burned(x) /\ settle[x] = "open" /\ ~Minted(x)
  /\ \E how \in {"relayed", "returned"} : settle' = [settle EXCEPT ![x] = how]
  /\ UNCHANGED <<rec, op, fresh, ledger, live, chain, crashes>>

-----------------------------------------------------------------------------

StartCall(p, x) ==
  \/ StartInterrupted(p, x) \/ StartRetire(p, x) \/ StartExpired(p, x)
  \/ StartBuild(p, x)
  \/ ResumeLost(p, x) \/ ResumeWaiting(p, x) \/ ResumeConfirmed(p, x)

ClaimCall(p, x) == ClaimInterrupted(p, x) \/ Claim(p, x)

Answer(p, x) == \E s \in StepIds : ResolveSent(p, x, s) \/ ResolveNotSent(p, x, s)

\* What the "Move USDC" screen calls (walletCrossChain.ts, by viewStatus): "Continue"
\* or "Get a new quote" while nothing was submitted, its 15-second poll, "Claim", and
\* the answers.  It never calls start once the burn was submitted.
ScreenCall(p, x) ==
  \/ rec[x].state \in {"QUOTED", "AWAITING_SIGNATURE"} /\ StartCall(p, x)
  \/ Advance(p, x)
  \/ ClaimCall(p, x)
  \/ Answer(p, x)

\* What a call goes on to do once begun.
Resumes(p, x) ==
  \/ Quote(p, x)
  \/ BuildLapsed(p, x) \/ BuildRefused(p, x) \/ BuildEmpty(p, x) \/ Build(p, x)
  \/ StepFailedBefore(p, x) \/ StepConfirmedBefore(p, x)
  \/ StepSubmittedBefore(p, x) \/ StepPrepaid(p, x) \/ StepBegins(p, x)
  \/ PreflightRefuses(p, x) \/ MarkSending(p, x)
  \/ WalletSends(p, x) \/ WalletRefuses(p, x) \/ WalletUnclear(p, x)
  \/ BackToQuoted(p, x) \/ SaveSubmitted(p, x) \/ MoveToSubmitted(p, x)
  \/ SeeConfirmed(p, x) \/ SeeFailed(p, x) \/ FailStep(p, x) \/ TimeOut(p, x)
  \/ SettleEarlier(p, x) \/ SettleBurn(p, x) \/ MoveToPending(p, x)
  \/ TrackedOpen(p, x) \/ TrackedCompleted(p, x) \/ Complete(p, x)
  \/ TrackedFailed(p, x)
  \/ ClaimRefused(p, x) \/ ClaimBuilt(p, x)
  \/ Conflict(p, x) \/ SaveFails(p, x)

Environment ==
  \/ \E p \in Pages : Crash(p) \/ LedgerLapses(p)
  \/ \E x \in Execs : QuoteLapses(x) \/ SettlementEnds(x)
  \/ \E x \in Execs, s \in StepIds, n \in 1..MaxSends : Lands(x, s, n)

Next ==
  \/ \E p \in Pages, x \in Execs :
       \/ Create(p, x) \/ StartCall(p, x) \/ Advance(p, x) \/ ClaimCall(p, x)
       \/ Answer(p, x) \/ RecordRefund(p, x)
       \/ Resumes(p, x)
  \/ Environment

Spec == Init /\ [][Next]_vars

-----------------------------------------------------------------------------
(* Properties                                                              *)

\* Every variable stays within its type.
TypeOK ==
  /\ rec \in [Execs -> Record]
  /\ op \in [Pages -> [Execs -> Op]]
  /\ fresh \in [Pages -> SUBSET Execs]
  /\ ledger \in [Pages -> BOOLEAN]
  /\ live \in SUBSET Execs
  /\ chain \in [Execs -> [StepIds -> [1..MaxSends -> TxStatuses]]]
  /\ settle \in [Execs -> {"open", "relayed", "returned"}]
  /\ crashes \in 0..MaxCrashes

\* No step of an execution, burn or claim or fee, is ever on its way or done
\* twice, whatever tabs, crashes and unclear wallet answers do (orchestrator.ts:
\* "send a transaction twice").
NoSecondSend ==
  \A x \in Execs, s \in StepIds : \A m, n \in Live(x, s) : m = n

\* An execution expires only if nothing of it is on a chain or on its way.
ExpiredSentNothing ==
  \A x \in Execs : rec[x].state = "EXPIRED" =>
    \A s \in StepIds : Live(x, s) = {}

\* A step is confirmed (or its fee was paid by an earlier attempt) before the next
\* one goes out (orchestrator.ts: "Waits for a submitted step to confirm.
\* Approvals must confirm before the value-moving step is sent").
StepsInOrder ==
  \A x \in Execs, i, j \in 1..Len(SourceSteps) :
    i < j /\ Live(x, SourceSteps[j]) # {} => Status(x, SourceSteps[i]) = "confirmed"

\* No step is left out: whatever was declined, answered or resumed, a step goes out
\* only after every earlier one did, or was paid by an earlier attempt.
NoStepSkipped ==
  \A x \in Execs, i, j \in 1..Len(SourceSteps) :
    i < j /\ chain[x][SourceSteps[j]][1] # "unsent" =>
      chain[x][SourceSteps[i]][1] # "unsent" \/ Status(x, SourceSteps[i]) = "confirmed"

\* Arrival is reported only when the destination received the value.
ArrivedOnlyIfMinted ==
  \A x \in Execs :
    rec[x].state \in {"DESTINATION_RECEIVED", "COMPLETED"} => Minted(x)

\* What a record says of the burn it names is true: past SOURCE_CONFIRMED that burn
\* confirmed, and in a failure "with funds safe" it did not.
FollowsItsOwnBurn ==
  \A x \in Execs :
    /\ rec[x].state \in {"SOURCE_CONFIRMED", "SETTLEMENT_PENDING", "DESTINATION_RECEIVED",
                         "COMPLETED", "REFUNDED"} =>
      /\ rec[x].executionId # 0
      /\ chain[x]["burn"][rec[x].executionId] = "confirmed"
    /\ rec[x].failure = "fundsSafe" /\ rec[x].executionId # 0 => ~Burned(x)

\* Nothing leaves a final state, and a final report is never rewritten.
FinalStays ==
  [][\A x \in Execs : rec[x].state \in Final =>
       rec'[x].state = rec[x].state /\ rec'[x].failure = rec[x].failure]_vars

-----------------------------------------------------------------------------
(* The orchestrator implements SettlementMove.                             *)

fundsBar ==
  [x \in Execs |->
     CASE Minted(x)             -> "destination"
       [] settle[x] = "returned" -> "returned"
       [] Burned(x) /\ ~Minted(x) /\ settle[x] # "returned" -> "burned"
       [] OTHER                 -> "source"]

reportBar ==
  [x \in Execs |->
     CASE rec[x].state \in {"SOURCE_CONFIRMED", "SETTLEMENT_PENDING"} -> "inTransit"
       [] rec[x].state \in {"DESTINATION_RECEIVED", "COMPLETED"} -> "arrived"
       [] rec[x].state = "EXPIRED" -> "expired"
       [] rec[x].state = "REFUNDED" -> "refunded"
       [] rec[x].state = "FAILED" ->
            IF rec[x].failure = "fundsAtRisk" THEN "failedAtRisk" ELSE "failedSafe"
       [] OTHER -> "open"]

Abstract == INSTANCE SettlementMove WITH Moves <- Execs, funds <- fundsBar, report <- reportBar

\* The reports never run ahead of the funds: every step of the orchestrator, the
\* wallets and the chains is a step of SettlementMove or changes neither.
ImplementsSettlementMove == Abstract!Spec
=============================================================================
