----------------------------- MODULE MoveExecutor -----------------------------
(***************************************************************************)
(* The orchestrator called by the plan's settlement executor               *)
(* (website/src/swings/plan: executors.ts, runner.ts, deferred.ts), in the *)
(* tab that steps the plan.                                                *)
(*                                                                         *)
(* The executor creates a move, awaits orchestrator.start, and only then   *)
(* returns its id for the plan to save.  It polls a saved id for ever; of  *)
(* a move whose id was not saved it knows nothing, and makes another one.  *)
(***************************************************************************)
EXTENDS Orchestrator

CONSTANT Tab  \* the tab that steps the plan
ASSUME TabAssumption == Tab \in Pages

VARIABLES
  ref,  \* leg 2's executionId in the saved plan, if there is one
  leg   \* leg[x]: how far the executor's first call on x came, while it runs

execVars == <<vars, ref, leg>>

ExecutorInit ==
  /\ Init
  /\ ref = {}
  /\ leg = [x \in Execs |-> "no"]

\* SettlementLegExecutor.start: create, then start.  (What deferred.ts asks first is
\* in PlanRunner.)
LegBegins(x) ==
  /\ ref = {} /\ \A y \in Execs : leg[y] = "no"
  /\ Create(Tab, x)
  /\ leg' = [leg EXCEPT ![x] = "created"]
  /\ UNCHANGED ref

LegCalls(x) ==
  /\ leg[x] = "created"
  /\ StartCall(Tab, x)
  /\ leg' = [leg EXCEPT ![x] = "started"]
  /\ UNCHANGED ref

\* The call returned and the runner saves its answer with the id; an expired move's
\* answer (needs-requote) has none.
LegSaved(x) ==
  /\ leg[x] = "started" /\ Free(Tab, x)
  /\ rec[x].state = "EXPIRED" => rec[x].needsAttention
  /\ ref' = {x}
  /\ leg' = [leg EXCEPT ![x] = "no"]
  /\ UNCHANGED vars

\* create or start threw, the plan could not be saved, or the move expired: the leg
\* is asked for again, with no id.
LegLost(x) ==
  /\ leg[x] # "no" /\ Free(Tab, x)
  /\ leg' = [leg EXCEPT ![x] = "no"]
  /\ UNCHANGED <<vars, ref>>

\* SettlementLegExecutor.poll of the saved id: start up to SOURCE_CONFIRMED, advance
\* after it.
PollStarts(x) == x \in ref /\ StartCall(Tab, x) /\ UNCHANGED <<ref, leg>>
PollAdvances(x) == x \in ref /\ Advance(Tab, x) /\ UNCHANGED <<ref, leg>>

\* In the plan's own tab nothing comes between the end of create and the call of start.
Asks(p, x) ==
  /\ p = Tab => leg[x] # "created"
  /\ ScreenCall(p, x)
  /\ UNCHANGED <<ref, leg>>
GoesOn(p, x) == Resumes(p, x) /\ UNCHANGED <<ref, leg>>

ExecutorNext ==
  \/ \E x \in Execs :
       \/ LegBegins(x) \/ LegCalls(x) \/ LegSaved(x) \/ LegLost(x)
       \/ PollStarts(x) \/ PollAdvances(x)
  \/ \E p \in Pages, x \in Execs : Asks(p, x) \/ GoesOn(p, x)
  \/ \E p \in Pages :
       /\ Crash(p)
       /\ leg' = IF p = Tab THEN [x \in Execs |-> "no"] ELSE leg
       /\ UNCHANGED ref
  \/ Environment /\ crashes' = crashes /\ UNCHANGED <<ref, leg>>

-----------------------------------------------------------------------------
(* Fairness.  A call under way goes on; the plan's tab keeps polling the   *)
(* id it saved; the user answers when asked; a transaction in flight ends; *)
(* a node that is asked again and again answers once.                      *)

ExecutorSpec ==
  /\ ExecutorInit /\ [][ExecutorNext]_execVars
  /\ \A x \in Execs :
       /\ WF_execVars(GoesOn(Tab, x))
       /\ WF_execVars(Answer(Tab, x) /\ UNCHANGED <<ref, leg>>)
       /\ WF_execVars(PollStarts(x))
       /\ SF_execVars(PollAdvances(x))
       /\ SF_execVars((SeeConfirmed(Tab, x) \/ SeeFailed(Tab, x)) /\ UNCHANGED <<ref, leg>>)
       /\ SF_execVars(TrackedCompleted(Tab, x) /\ UNCHANGED <<ref, leg>>)
  /\ \A x \in Execs, s \in StepIds, n \in 1..MaxSends :
       WF_execVars(Lands(x, s, n) /\ UNCHANGED <<ref, leg>>)

\* The same, and in the same tab the "Move USDC" screen shows every move.
ScreenOpenSpec == ExecutorSpec /\ \A x \in Execs : WF_execVars(Asks(Tab, x))

-----------------------------------------------------------------------------
(* Properties                                                              *)

InTransit(x) ==
  /\ rec[x].state = "SOURCE_SUBMITTED"
  /\ rec[x].executionId # 0
  /\ chain[x]["burn"][rec[x].executionId] = "confirmed"

Followed(x) == rec[x].state \notin {"SOURCE_SUBMITTED", "SOURCE_CONFIRMED"}

\* A burn that was named and confirmed is followed to the settlement, through
\* any reload and any question to the user (orchestrator.ts: "a closed tab, a
\* crash or a restart can always resume honestly"; walletCrossChain.ts: "Picks up an
\* unfinished move, for example after a reload").
ConfirmedBurnIsFollowed == \A x \in Execs : InTransit(x) ~> Followed(x)

\* It is when the plan saved the id of its move, whatever happens after that.
SavedMoveIsFollowed == \A x \in Execs : (x \in ref /\ InTransit(x)) ~> Followed(x)

\* Value that reached the destination is reported to a plan that saved its move.
ReceiptIsReported ==
  \A x \in Execs :
    (x \in ref /\ rec[x].state = "SETTLEMENT_PENDING" /\ Minted(x)) ~>
      rec[x].state # "SETTLEMENT_PENDING"

\* An arrival that was saved is finished (view.ts: "Finishing up").
ArrivalIsFinished ==
  \A x \in Execs : rec[x].state = "DESTINATION_RECEIVED" ~> rec[x].state = "COMPLETED"

\* A submitted move ends: completed, failed, refunded, or at least in settlement.
SubmittedMoveEnds ==
  \A x \in Execs : rec[x].state = "SOURCE_SUBMITTED" ~> rec[x].state # "SOURCE_SUBMITTED"
=============================================================================
