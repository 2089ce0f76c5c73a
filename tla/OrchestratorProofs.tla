------------------------- MODULE OrchestratorProofs -------------------------
(***************************************************************************)
(* Theorems about Orchestrator, for every set of tabs, executions, source  *)
(* steps and bounds, in five parts:                                        *)
(*   1. the types, the transition table and what is final (TypeInv);       *)
(*   2. no step is sent twice (SendInv);                                   *)
(*   3. what records and calls say of the transactions is true, and no     *)
(*      step is skipped (TraceInv);                                        *)
(*   4. the orchestrator implements SettlementMove;                        *)
(*   5. when the move screen opens a move twice, and when a page pays a    *)
(*      fee it remembers (ScreenInv, FeeInv).                              *)
(* Parts 2 to 4 each add to the inductive invariant of the one before, and *)
(* part 5 to that of part 2.                                               *)
(***************************************************************************)
EXTENDS MoveScreen, TLAPS

-----------------------------------------------------------------------------
(* The source steps and the loop over them.                                *)

LEMMA StepsLemma ==
  /\ First \in StepIds \ {"mint"}
  /\ Last \in StepIds \ {"mint"}
  /\ \A s \in StepIds \ {"mint"} : s # Last => NextStep(s) \in StepIds \ {"mint"}
<1>1. \A i \in 1..Len(SourceSteps) : SourceSteps[i] \in StepIds \ {"mint"}
  BY SourceStepsAssumption DEF StepIds
<1>2. First \in StepIds \ {"mint"} /\ Last \in StepIds \ {"mint"}
  BY <1>1, SourceStepsAssumption DEF First, Last
<1>3. ASSUME NEW s \in StepIds \ {"mint"}, s # Last
      PROVE  NextStep(s) \in StepIds \ {"mint"}
  <2>1. \E i \in 1..Len(SourceSteps) : SourceSteps[i] = s
    BY DEF StepIds
  <2> DEFINE i == CHOOSE i \in 1..Len(SourceSteps) : SourceSteps[i] = s
  <2>2. i \in 1..Len(SourceSteps) /\ SourceSteps[i] = s
    BY <2>1
  <2>3. i # Len(SourceSteps)
    BY <2>2, <1>3 DEF Last
  <2>4. i + 1 \in 1..Len(SourceSteps)
    BY <2>2, <2>3, SourceStepsAssumption
  <2> QED BY <2>4, <1>1 DEF NextStep
<1> QED BY <1>2, <1>3

\* A record stays a record when a step is saved, the record moved, failed or flagged.
LEMMA RecordLemma ==
  ASSUME NEW r \in Record
  PROVE  /\ \A s \in StepIds, status \in StepStatuses, n \in TxNo :
              WithStep(r, s, status, n) \in Record
         /\ \A to \in ExecutionStates : [r EXCEPT !.state = to] \in Record
         /\ WithFailure(r, "fundsSafe") \in Record
         /\ WithFailure(r, "fundsAtRisk") \in Record
         /\ Flagged(r) \in Record
         /\ \A n \in TxNo : [r EXCEPT !.executionId = n] \in Record
BY DEF Record, WithStep, WithFailure, Flagged, ExecutionStates, Final

LEMMA AnsweredLemma ==
  ASSUME NEW r \in Record, NEW s \in StepIds
  PROVE  /\ \A n \in 1..MaxSends : Answered(r, s, "submitted", n) \in Record
         /\ Answered(r, s, "pending", 0) \in Record
<1>1. 0 \in TxNo /\ \A n \in 1..MaxSends : n \in TxNo
  BY BoundsAssumption DEF TxNo
<1>2. {"submitted", "pending"} \subseteq StepStatuses
  BY DEF StepStatuses
<1>3. ASSUME NEW t \in Record PROVE [t EXCEPT !.needsAttention = FALSE] \in Record
  BY DEF Record
<1> QED BY <1>1, <1>2, <1>3, RecordLemma DEF Answered

LEMMA OpLemma ==
  /\ Idle \in Op
  /\ \A pc \in Places, s \in StepIds, n \in TxNo : At(pc, s, n) \in Op
  /\ "mint" \in StepIds /\ 0 \in TxNo
BY BoundsAssumption DEF Idle, At, Op, Places, TxNo, StepIds

LEMMA SentLemma ==
  ASSUME NEW o \in Op, NEW n \in 1..MaxSends
  PROVE  [o EXCEPT !.pc = "sent", !.tx = n] \in Op
<1>1. n \in TxNo /\ "sent" \in Places
  BY BoundsAssumption DEF TxNo, Places
<1> QED BY <1>1 DEF Op

LEMMA AfterStepLemma ==
  ASSUME NEW s \in StepIds \ {"mint"}
  PROVE  AfterStep(s) \in Op /\ (AfterStep(s).pc = "idle" \/ AfterStep(s).step # "mint")
<1>1. CASE s = Last
  BY <1>1, OpLemma DEF AfterStep, Idle
<1>2. CASE s # Last
  <2>1. NextStep(s) \in StepIds \ {"mint"}
    BY <1>2, StepsLemma
  <2> QED BY <1>2, <2>1, OpLemma DEF AfterStep, At, Places
<1> QED BY <1>1, <1>2

-----------------------------------------------------------------------------
(* What a step of a call does to the records and the calls.                *)

LEMMA ContinueLemma ==
  ASSUME TypeOK,
         NEW p \in Pages, NEW x \in Execs, NEW o \in Op, Continue(p, x, o)
  PROVE  /\ rec' = rec
         /\ op' \in [Pages -> [Execs -> Op]]
         /\ op'[p][x] = o
         /\ \A q \in Pages, y \in Execs : q # p \/ y # x => op'[q][y] = op[q][y]
BY DEF TypeOK, Continue

LEMMA SaveLemma ==
  ASSUME TypeOK,
         NEW p \in Pages, NEW x \in Execs, NEW r \in Record, NEW o \in Op,
         Save(p, x, r, o)
  PROVE  /\ rec' \in [Execs -> Record]
         /\ op' \in [Pages -> [Execs -> Op]]
         /\ rec'[x] = r
         /\ \A y \in Execs : y # x => rec'[y] = rec[y]
         /\ op'[p][x] = o
         /\ \A q \in Pages, y \in Execs : y # x => op'[q][y] = op[q][y]
         /\ \A q \in Pages : q # p =>
              /\ op'[q][x].pc = op[q][x].pc
              /\ op'[q][x].step = op[q][x].step
              /\ op'[q][x].tx = op[q][x].tx
              /\ op'[q][x].pc = "idle" \/ op'[q][x].stale
<1> DEFINE after(q) == [op[q] EXCEPT ![x] = IF q = p THEN o
                          ELSE IF @.pc = "idle" THEN @ ELSE [@ EXCEPT !.stale = TRUE]]
<1>1. op' = [q \in Pages |-> after(q)] /\ rec' = [rec EXCEPT ![x] = r]
  BY DEF Save
<1>2. ASSUME NEW q \in Pages, NEW y \in Execs
      PROVE  op[q][y] \in Op /\ [op[q][y] EXCEPT !.stale = TRUE] \in Op
  <2>1. op[q][y] \in Op
    BY DEF TypeOK
  <2> QED BY <2>1 DEF Op
<1>3. \A q \in Pages : after(q) \in [Execs -> Op]
  BY <1>2 DEF TypeOK
<1>4. rec' \in [Execs -> Record] /\ rec'[x] = r /\ \A y \in Execs : y # x => rec'[y] = rec[y]
  BY <1>1 DEF TypeOK
<1>5. op' \in [Pages -> [Execs -> Op]]
  BY <1>1, <1>3
<1>6. op'[p][x] = o /\ \A q \in Pages, y \in Execs : y # x => op'[q][y] = op[q][y]
  BY <1>1 DEF TypeOK
<1>7. ASSUME NEW q \in Pages, q # p
      PROVE  op'[q][x] = IF op[q][x].pc = "idle" THEN op[q][x]
                                                 ELSE [op[q][x] EXCEPT !.stale = TRUE]
  BY <1>1, <1>7 DEF TypeOK
<1>8. ASSUME NEW q \in Pages, q # p
      PROVE  /\ op'[q][x].pc = op[q][x].pc
             /\ op'[q][x].step = op[q][x].step
             /\ op'[q][x].tx = op[q][x].tx
             /\ op'[q][x].pc = "idle" \/ op'[q][x].stale
  <2>1. CASE op[q][x].pc = "idle"
    BY <1>7, <1>8, <2>1
  <2>2. CASE op[q][x].pc # "idle"
    <3>1. op'[q][x] = [op[q][x] EXCEPT !.stale = TRUE] /\ op[q][x] \in Op
      BY <1>2, <1>7, <1>8, <2>2
    <3> QED BY <3>1 DEF Op
  <2> QED BY <2>1, <2>2
<1> QED BY <1>4, <1>5, <1>6, <1>8

-----------------------------------------------------------------------------
(* Type correctness.                                                       *)

\* Only a source step is looped over or settled as one: the claim never is.
PlaceOK ==
  \A p \in Pages, x \in Execs :
    op[p][x].pc \in {"stepping", "settled"} => op[p][x].step # "mint"

TypeInv == TypeOK /\ PlaceOK

\* What every step of a page's call on an execution comes down to.
Goes(p, x) ==
  \E o \in Op :
    /\ o.pc \in {"stepping", "settled"} => o.step # "mint"
    /\ Continue(p, x, o) \/ \E r \in Record : Save(p, x, r, o)

LEMMA GoesTyped ==
  ASSUME TypeInv, NEW p \in Pages, NEW x \in Execs, Goes(p, x)
  PROVE  /\ rec' \in [Execs -> Record]
         /\ op' \in [Pages -> [Execs -> Op]]
         /\ PlaceOK'
<1>1. PICK o \in Op : 
        /\ o.pc \in {"stepping", "settled"} => o.step # "mint"
        /\ Continue(p, x, o) \/ \E r \in Record : Save(p, x, r, o)
  BY DEF Goes
<1>2. TypeOK
  BY DEF TypeInv
<1>3. CASE Continue(p, x, o)
  <2>1. /\ rec' = rec
        /\ op' \in [Pages -> [Execs -> Op]]
        /\ op'[p][x] = o
        /\ \A q \in Pages, y \in Execs : q # p \/ y # x => op'[q][y] = op[q][y]
    BY <1>2, <1>3, ContinueLemma
  <2>2. rec' \in [Execs -> Record]
    BY <2>1, <1>2 DEF TypeOK
  <2> QED BY <1>1, <2>1, <2>2 DEF TypeInv, PlaceOK
<1>4. CASE \E r \in Record : Save(p, x, r, o)
  <2>1. PICK r \in Record : Save(p, x, r, o)
    BY <1>4
  <2>2. /\ rec' \in [Execs -> Record]
        /\ op' \in [Pages -> [Execs -> Op]]
        /\ op'[p][x] = o
        /\ \A q \in Pages, y \in Execs : y # x => op'[q][y] = op[q][y]
        /\ \A q \in Pages : q # p =>
              /\ op'[q][x].pc = op[q][x].pc
              /\ op'[q][x].step = op[q][x].step
    BY <1>2, <2>1, SaveLemma
  <2> QED BY <1>1, <2>2 DEF TypeInv, PlaceOK
<1> QED BY <1>1, <1>3, <1>4

\* The variables beside the records and the calls.
RestOK ==
  /\ fresh \in [Pages -> SUBSET Execs]
  /\ ledger \in [Pages -> BOOLEAN]
  /\ live \in SUBSET Execs
  /\ chain \in [Execs -> [StepIds -> [1..MaxSends -> TxStatuses]]]
  /\ settle \in [Execs -> {"open", "relayed", "returned"}]
  /\ crashes \in 0..MaxCrashes

PageStep(p, x) ==
  \/ Create(p, x) \/ StartCall(p, x) \/ Advance(p, x) \/ ClaimCall(p, x)
  \/ Answer(p, x) \/ RecordRefund(p, x)
  \/ Resumes(p, x)

LEMMA PageStepGoes ==
  ASSUME TypeInv, NEW p \in Pages, NEW x \in Execs, PageStep(p, x)
  PROVE  Goes(p, x)
<1>1. /\ rec[x] \in Record
      /\ op[p][x] \in Op /\ op[p][x].step \in StepIds /\ op[p][x].tx \in TxNo
      /\ op[p][x].pc \in {"stepping", "settled"} => op[p][x].step # "mint"
      /\ rec[x].executionId \in TxNo /\ \A s \in StepIds : rec[x].steps[s].tx \in TxNo
  BY DEF TypeInv, TypeOK, Op, PlaceOK, Record
<1>2. First \in StepIds \ {"mint"} /\ Last \in StepIds
  BY StepsLemma
<1> USE OpLemma, RecordLemma
    DEF Goes, Move, Fail, Reached, Idle, At, StepStatuses, Places, ExecutionStates, Final
<1>3. CASE Create(p, x)
  BY <1>1, <1>2, <1>3 DEF Create
<1>4. CASE Quote(p, x)
  BY <1>1, <1>2, <1>4 DEF Quote
<1>5. CASE StartInterrupted(p, x)
  BY <1>1, <1>2, <1>5 DEF StartInterrupted
<1>6. CASE StartRetire(p, x)
  BY <1>1, <1>2, <1>6 DEF StartRetire
<1>7. CASE StartExpired(p, x)
  BY <1>1, <1>2, <1>7 DEF StartExpired
<1>8. CASE StartBuild(p, x)
  BY <1>1, <1>2, <1>8 DEF StartBuild
<1>9. CASE BuildLapsed(p, x)
  BY <1>1, <1>2, <1>9 DEF BuildLapsed
<1>10. CASE BuildRefused(p, x)
  BY <1>1, <1>2, <1>10 DEF BuildRefused
<1>11. CASE BuildEmpty(p, x)
  BY <1>1, <1>2, <1>11 DEF BuildEmpty
<1>12. CASE Build(p, x)
  BY <1>1, <1>2, <1>12 DEF Build
<1>13. CASE StepFailedBefore(p, x)
  BY <1>1, <1>2, <1>13 DEF StepFailedBefore
<1>14. CASE StepConfirmedBefore(p, x)
  BY <1>1, <1>2, <1>14, AfterStepLemma DEF StepConfirmedBefore
<1>15. CASE StepSubmittedBefore(p, x)
  BY <1>1, <1>2, <1>15 DEF StepSubmittedBefore
<1>16. CASE StepPrepaid(p, x)
  BY <1>1, <1>2, <1>16, AfterStepLemma DEF StepPrepaid
<1>17. CASE StepBegins(p, x)
  BY <1>1, <1>2, <1>17 DEF StepBegins
<1>18. CASE PreflightRefuses(p, x)
  BY <1>1, <1>2, <1>18 DEF PreflightRefuses
<1>19. CASE MarkSending(p, x)
  BY <1>1, <1>2, <1>19 DEF MarkSending
<1>20. CASE WalletSends(p, x)
  <2>1. PICK n \in 1..MaxSends : Continue(p, x, [op[p][x] EXCEPT !.pc = "sent", !.tx = n])
    BY <1>20 DEF WalletSends
  <2>2. [op[p][x] EXCEPT !.pc = "sent", !.tx = n] \in Op
    BY <1>1, SentLemma
  <2>3. [op[p][x] EXCEPT !.pc = "sent", !.tx = n].pc = "sent"
    BY <1>1 DEF Op
  <2> QED BY <2>1, <2>2, <2>3
<1>21. CASE WalletRefuses(p, x)
  BY <1>1, <1>2, <1>21 DEF WalletRefuses
<1>22. CASE BackToQuoted(p, x)
  BY <1>1, <1>2, <1>22 DEF BackToQuoted
<1>23. CASE WalletUnclear(p, x)
  BY <1>1, <1>2, <1>23 DEF WalletUnclear
<1>24. CASE SaveSubmitted(p, x)
  BY <1>1, <1>2, <1>24 DEF SaveSubmitted
<1>25. CASE MoveToSubmitted(p, x)
  BY <1>1, <1>2, <1>25 DEF MoveToSubmitted
<1>26. CASE SeeConfirmed(p, x)
  BY <1>1, <1>2, <1>26 DEF SeeConfirmed
<1>27. CASE SeeFailed(p, x)
  BY <1>1, <1>2, <1>27 DEF SeeFailed
<1>28. CASE FailStep(p, x)
  BY <1>1, <1>2, <1>28 DEF FailStep
<1>29. CASE TimeOut(p, x)
  <2>1. CASE op[p][x].step = "mint"
    BY <1>1, <1>2, <1>29, <2>1 DEF TimeOut
  <2>2. CASE op[p][x].step # "mint"
    BY <1>1, <1>2, <1>29, <2>2, AfterStepLemma DEF TimeOut
  <2> QED BY <2>1, <2>2
<1>30. CASE SettleEarlier(p, x)
  <2> DEFINE s == op[p][x].step
             o == [AfterStep(s) EXCEPT !.stale = op[p][x].stale]
  <2>1. s \in StepIds \ {"mint"} /\ op[p][x].stale \in BOOLEAN /\ Continue(p, x, o)
    BY <1>1, <1>30 DEF SettleEarlier, Op
  <2>2. AfterStep(s) \in Op /\ (AfterStep(s).pc = "idle" \/ AfterStep(s).step # "mint")
    BY <2>1, AfterStepLemma
  <2>3. o \in Op /\ o.pc = AfterStep(s).pc /\ o.step = AfterStep(s).step
    BY <2>1, <2>2 DEF Op
  <2> QED BY <2>1, <2>2, <2>3
<1>31. CASE SettleBurn(p, x)
  BY <1>1, <1>2, <1>31 DEF SettleBurn
<1>32. CASE MoveToPending(p, x)
  BY <1>1, <1>2, <1>32 DEF MoveToPending
<1>33. CASE ResumeLost(p, x)
  BY <1>1, <1>2, <1>33 DEF ResumeLost
<1>34. CASE ResumeWaiting(p, x)
  BY <1>1, <1>2, <1>34 DEF ResumeWaiting
<1>35. CASE ResumeConfirmed(p, x)
  BY <1>1, <1>2, <1>35 DEF ResumeConfirmed
<1>36. CASE Advance(p, x)
  BY <1>1, <1>2, <1>36 DEF Advance
<1>37. CASE TrackedOpen(p, x)
  BY <1>1, <1>2, <1>37 DEF TrackedOpen
<1>38. CASE TrackedCompleted(p, x)
  BY <1>1, <1>2, <1>38 DEF TrackedCompleted
<1>39. CASE Complete(p, x)
  BY <1>1, <1>2, <1>39 DEF Complete
<1>40. CASE TrackedFailed(p, x)
  BY <1>1, <1>2, <1>40 DEF TrackedFailed
<1>41. CASE ClaimInterrupted(p, x)
  BY <1>1, <1>2, <1>41 DEF ClaimInterrupted
<1>42. CASE Claim(p, x)
  BY <1>1, <1>2, <1>42 DEF Claim
<1>43. CASE ClaimRefused(p, x)
  BY <1>1, <1>2, <1>43 DEF ClaimRefused
<1>44. CASE ClaimBuilt(p, x)
  BY <1>1, <1>2, <1>44 DEF ClaimBuilt
<1>45. CASE RecordRefund(p, x)
  BY <1>1, <1>2, <1>45 DEF RecordRefund
<1>46. CASE Conflict(p, x) \/ SaveFails(p, x)
  BY <1>1, <1>2, <1>46 DEF Conflict, SaveFails
<1>47. CASE Answer(p, x)
  <2>1. PICK s \in StepIds : ResolveSent(p, x, s) \/ ResolveNotSent(p, x, s)
    BY <1>47 DEF Answer
  <2>2. CASE ResolveSent(p, x, s)
    <3>1. PICK n \in 1..MaxSends : Save(p, x, Answered(rec[x], s, "submitted", n), Idle)
      BY <2>2 DEF ResolveSent
    <3>2. Answered(rec[x], s, "submitted", n) \in Record
      BY <1>1, AnsweredLemma
    <3> QED BY <3>1, <3>2
  <2>3. CASE ResolveNotSent(p, x, s)
    <3>1. Save(p, x, Answered(rec[x], s, "pending", 0), Idle)
      BY <2>3 DEF ResolveNotSent
    <3>2. Answered(rec[x], s, "pending", 0) \in Record
      BY <1>1, AnsweredLemma
    <3> QED BY <3>1, <3>2
  <2> QED BY <2>1, <2>2, <2>3
<1> HIDE OpLemma, RecordLemma
    DEF Goes, Move, Fail, Reached, Idle, At, StepStatuses, Places, ExecutionStates, Final
<1> QED
  BY <1>3, <1>4, <1>5, <1>6, <1>7, <1>8, <1>9, <1>10, <1>11, <1>12, <1>13, <1>14,
     <1>15, <1>16, <1>17, <1>18, <1>19, <1>20, <1>21, <1>22, <1>23, <1>24,
     <1>25, <1>26, <1>27, <1>28, <1>29, <1>30, <1>31, <1>32, <1>33, <1>34,
     <1>35, <1>36, <1>37, <1>38, <1>39, <1>40, <1>41, <1>42, <1>43, <1>44,
     <1>45, <1>46, <1>47
  DEF PageStep, StartCall, ClaimCall, Resumes

Chains == [Execs -> [StepIds -> [1..MaxSends -> TxStatuses]]]

LEMMA ChainLemma ==
  ASSUME NEW c \in Chains, NEW x \in Execs, NEW s \in StepIds,
         NEW n \in 1..MaxSends, NEW outcome \in TxStatuses
  PROVE  [c EXCEPT ![x][s][n] = outcome] \in Chains
<1> DEFINE sent == [c[x][s] EXCEPT ![n] = outcome]
           steps == [c[x] EXCEPT ![s] = sent]
<1>1. sent \in [1..MaxSends -> TxStatuses]
  BY DEF Chains
<1>2. steps \in [StepIds -> [1..MaxSends -> TxStatuses]]
  BY <1>1 DEF Chains
<1>3. [c EXCEPT ![x] = steps] \in Chains
  BY <1>2 DEF Chains
<1> QED BY <1>3

LEMMA PageStepRest ==
  ASSUME TypeInv, NEW p \in Pages, NEW x \in Execs, PageStep(p, x)
  PROVE  RestOK'
<1>1. RestOK
  BY DEF TypeInv, TypeOK, RestOK
<1>2. CASE Create(p, x)
  BY <1>1, <1>2 DEF Create, RestOK
<1>3. CASE WalletSends(p, x) \/ WalletUnclear(p, x)
  <2>1. op[p][x].step \in StepIds
    BY DEF TypeInv, TypeOK, Op
  <2>2. chain \in Chains /\ "inflight" \in TxStatuses
    BY <1>1 DEF RestOK, Chains, TxStatuses
  <2>3. chain' = chain \/ \E n \in 1..MaxSends :
            chain' = [chain EXCEPT ![x][op[p][x].step][n] = "inflight"]
    BY <1>3 DEF WalletSends, WalletUnclear
  <2>4. chain' \in Chains
    <3>1. ASSUME NEW n \in 1..MaxSends
          PROVE  [chain EXCEPT ![x][op[p][x].step][n] = "inflight"] \in Chains
      BY <2>1, <2>2, ChainLemma
    <3> QED BY <2>2, <2>3, <3>1
  <2>5. chain' \in [Execs -> [StepIds -> [1..MaxSends -> TxStatuses]]]
    BY <2>4 DEF Chains
  <2> QED BY <1>1, <1>3, <2>5 DEF WalletSends, WalletUnclear, RestOK
<1>4. CASE SettleEarlier(p, x) \/ SettleBurn(p, x)
  BY <1>1, <1>4 DEF SettleEarlier, SettleBurn, RestOK
<1>5. CASE UNCHANGED <<fresh, ledger, live, chain, settle, crashes>>
  BY <1>1, <1>5 DEF RestOK
<1> QED
  BY <1>2, <1>3, <1>4, <1>5 DEF PageStep, StartCall, ClaimCall, Answer, Resumes,
     Quote, StartInterrupted, StartRetire, StartExpired, StartBuild,
     BuildLapsed, BuildRefused, BuildEmpty, Build, StepFailedBefore,
     StepConfirmedBefore, StepSubmittedBefore, StepPrepaid, StepBegins,
     PreflightRefuses, MarkSending, WalletRefuses, BackToQuoted, SaveSubmitted,
     MoveToSubmitted, SeeConfirmed, SeeFailed, FailStep, TimeOut, MoveToPending,
     ResumeLost, ResumeWaiting, ResumeConfirmed, Advance, TrackedOpen,
     TrackedCompleted, Complete, TrackedFailed, ClaimInterrupted, Claim,
     ClaimRefused, ClaimBuilt, RecordRefund, Conflict, SaveFails, ResolveSent,
     ResolveNotSent

LEMMA EnvironmentTyped ==
  ASSUME TypeInv, Environment
  PROVE  TypeInv'
<1>1. RestOK
  BY DEF TypeInv, TypeOK, RestOK
<1>2. ASSUME rec' = rec, op' = op PROVE PlaceOK' /\ rec' \in [Execs -> Record]
                                                  /\ op' \in [Pages -> [Execs -> Op]]
  BY <1>2 DEF TypeInv, TypeOK, PlaceOK
<1>3. ASSUME NEW p \in Pages, Crash(p) PROVE TypeInv'
  <2>1. op' \in [Pages -> [Execs -> Op]]
    BY <1>3, OpLemma DEF Crash, TypeInv, TypeOK
  <2>2. PlaceOK'
    BY <1>3 DEF Crash, TypeInv, TypeOK, PlaceOK, Idle
  <2>3. crashes' \in 0..MaxCrashes
    BY <1>1, <1>3, BoundsAssumption DEF Crash, RestOK
  <2>4. rec' \in [Execs -> Record] /\ fresh' \in [Pages -> SUBSET Execs]
        /\ ledger' \in [Pages -> BOOLEAN]
    BY <1>3 DEF Crash, TypeInv, TypeOK
  <2>5. UNCHANGED <<live, chain, settle>>
    BY <1>3 DEF Crash
  <2> QED BY <1>1, <2>1, <2>2, <2>3, <2>4, <2>5 DEF TypeInv, TypeOK, RestOK
<1>4. ASSUME NEW p \in Pages, LedgerLapses(p) PROVE TypeInv'
  BY <1>1, <1>2, <1>4 DEF LedgerLapses, TypeInv, TypeOK, RestOK
<1>5. ASSUME NEW x \in Execs, QuoteLapses(x) \/ SettlementEnds(x) PROVE TypeInv'
  BY <1>1, <1>2, <1>5 DEF QuoteLapses, SettlementEnds, TypeInv, TypeOK, RestOK
<1>6. ASSUME NEW x \in Execs, NEW s \in StepIds, NEW n \in 1..MaxSends, Lands(x, s, n)
      PROVE  TypeInv'
  <2>1. PICK outcome \in TxStatuses : chain' = [chain EXCEPT ![x][s][n] = outcome]
    BY <1>6 DEF Lands, TxStatuses
  <2>2. chain \in Chains
    BY <1>1 DEF RestOK, Chains
  <2>3. chain' \in Chains
    BY <2>1, <2>2, ChainLemma
  <2> QED BY <1>1, <1>2, <1>6, <2>3 DEF Lands, TypeInv, TypeOK, RestOK, Chains
<1> QED BY <1>3, <1>4, <1>5, <1>6 DEF Environment

LEMMA TypeStep == TypeInv /\ [Next]_vars => TypeInv'
<1> SUFFICES ASSUME TypeInv, [Next]_vars PROVE TypeInv'
  OBVIOUS
<1>1. CASE \E p \in Pages, x \in Execs : PageStep(p, x)
  <2>1. PICK p \in Pages, x \in Execs : PageStep(p, x)
    BY <1>1
  <2>2. Goes(p, x) /\ RestOK'
    BY <2>1, PageStepGoes, PageStepRest
  <2>3. rec' \in [Execs -> Record] /\ op' \in [Pages -> [Execs -> Op]] /\ PlaceOK'
    BY <2>2, GoesTyped
  <2> QED BY <2>2, <2>3 DEF TypeInv, TypeOK, RestOK
<1>2. CASE Environment
  BY <1>2, EnvironmentTyped
<1>3. CASE UNCHANGED vars
  BY <1>3 DEF vars, TypeInv, TypeOK, PlaceOK
<1> QED BY <1>1, <1>2, <1>3 DEF Next, PageStep

LEMMA TypeInit == Init => TypeInv
<1> SUFFICES ASSUME Init PROVE TypeInv
  OBVIOUS
<1>1. NoRecord \in Record
  BY OpLemma DEF NoRecord, Record, ExecutionStates, StepStatuses
<1>2. op \in [Pages -> [Execs -> Op]] /\ PlaceOK
  BY OpLemma DEF Init, PlaceOK, Idle
<1> QED BY <1>1, <1>2, BoundsAssumption DEF Init, TypeInv, TypeOK, TxStatuses

\* Every variable of the orchestrator stays within its type, for any number of
\* tabs, executions, steps, resends and crashes.
THEOREM TypeCorrect == Spec => []TypeOK
<1>1. Spec => []TypeInv
  BY TypeInit, TypeStep, PTL DEF Spec
<1>2. TypeInv => TypeOK
  BY DEF TypeInv
<1> QED BY <1>1, <1>2, PTL

-----------------------------------------------------------------------------
(* How a record's state changes: along the transition table, if at all.    *)

LEMMA KeepLemma ==
  ASSUME NEW r \in Record
  PROVE  /\ \A s \in StepIds, status \in StepStatuses, n \in TxNo :
              /\ WithStep(r, s, status, n).state = r.state
              /\ WithStep(r, s, status, n).failure = r.failure
              /\ Answered(r, s, status, n).state = r.state
              /\ Answered(r, s, status, n).failure = r.failure
         /\ Flagged(r).state = r.state /\ Flagged(r).failure = r.failure
         /\ \A to : [r EXCEPT !.state = to].state = to
         /\ \A why, to : [WithFailure(r, why) EXCEPT !.state = to].state = to
         /\ \A n, to : [[r EXCEPT !.executionId = n] EXCEPT !.state = to].state = to
BY DEF Record, WithStep, Answered, Flagged, WithFailure

LEMMA AllowedLemma ==
  ASSUME NEW r \in Record
  PROVE  /\ \A to, why : Allowed(WithFailure(r, why), to) <=> Allowed(r, to)
         /\ \A to, n : Allowed([r EXCEPT !.executionId = n], to) <=> Allowed(r, to)
BY DEF Record, WithFailure, Allowed, hasCommitted

\* Nothing but the transition table changes a state, and no arrival is written
\* without the provider's report that the value was received.
StateStep(x) ==
  \/ rec'[x].state = rec[x].state /\ rec'[x].failure = rec[x].failure
  \/ rec[x].state = "none" /\ rec'[x].state = "CREATED" /\ \E p \in Pages : Create(p, x)
  \/ /\ Allowed(rec[x], rec'[x].state)
     /\ rec'[x].state = "DESTINATION_RECEIVED" => Minted(x)

LEMMA SavedRecord ==
  ASSUME TypeOK, NEW p \in Pages, NEW x \in Execs, NEW r, NEW o, Save(p, x, r, o)
  PROVE  rec'[x] = r
BY DEF TypeOK, Save

LEMMA MovedRecord ==
  ASSUME TypeOK, NEW p \in Pages, NEW x \in Execs, NEW r, NEW to, NEW o,
         Move(p, x, r, to, o), to # "DESTINATION_RECEIVED" \/ Minted(x),
         \/ r = rec[x]
         \/ \E why : r = WithFailure(rec[x], why)
         \/ \E n : r = [rec[x] EXCEPT !.executionId = n]
  PROVE  StateStep(x)
<1>1. rec[x] \in Record
  BY DEF TypeOK
<1>2. rec'[x] = [r EXCEPT !.state = to] /\ Allowed(r, to)
  BY SavedRecord DEF Move
<1>3. rec'[x].state = to
  BY <1>1, <1>2, KeepLemma
<1>4. Allowed(rec[x], to)
  BY <1>1, <1>2, AllowedLemma
<1> QED BY <1>3, <1>4 DEF StateStep

LEMMA PageStateStep ==
  ASSUME TypeInv, NEW p \in Pages, NEW x \in Execs, PageStep(p, x)
  PROVE  StateStep(x)
<1>1. TypeOK /\ rec[x] \in Record /\ op[p][x].step \in StepIds /\ op[p][x].tx \in TxNo
  BY DEF TypeInv, TypeOK, Op
<1>2. CASE Create(p, x)
  <2>1. rec'[x] = [rec[x] EXCEPT !.state = "CREATED"] /\ rec[x].state = "none"
    BY <1>1, <1>2, SavedRecord DEF Create
  <2>2. rec'[x].state = "CREATED"
    BY <1>1, <2>1, KeepLemma
  <2> QED BY <1>2, <2>1, <2>2 DEF StateStep
<1>3. CASE \/ StartBuild(p, x) \/ BuildRefused(p, x) \/
            StepConfirmedBefore(p, x) \/ StepSubmittedBefore(p, x)
            \/ StepBegins(p, x) \/ PreflightRefuses(p, x) \/
            WalletSends(p, x) \/ SettleEarlier(p, x) \/
            Advance(p, x) \/ TrackedOpen(p, x) \/ Claim(p, x) \/
            ClaimRefused(p, x) \/ Conflict(p, x) \/ SaveFails(p, x)
  <2>1. rec' = rec
    BY <1>3 DEF Continue, StartBuild, BuildRefused, StepConfirmedBefore, StepSubmittedBefore,
      StepBegins, PreflightRefuses, WalletSends, SettleEarlier, Advance,
      TrackedOpen, Claim, ClaimRefused, Conflict, SaveFails
  <2> QED BY <2>1 DEF StateStep
<1>4. CASE StartInterrupted(p, x) \/ TimeOut(p, x) \/ ResumeLost(p, x) \/
         ClaimInterrupted(p, x)
  <2>1. rec'[x] = Flagged(rec[x])
    BY <1>1, <1>4, SavedRecord DEF StartInterrupted, TimeOut, ResumeLost, ClaimInterrupted
  <2> QED BY <1>1, <2>1, KeepLemma DEF StateStep
<1>5. CASE StepPrepaid(p, x) \/ MarkSending(p, x) \/ SaveSubmitted(p, x) \/
         SeeConfirmed(p, x) \/ SeeFailed(p, x) \/ ClaimBuilt(p, x)
  <2>1. \E s \in StepIds, status \in StepStatuses, k \in TxNo :
          rec'[x] = WithStep(rec[x], s, status, k)
    BY <1>1, <1>5, SavedRecord, OpLemma
    DEF StepStatuses, StepPrepaid, MarkSending, SaveSubmitted, SeeConfirmed, SeeFailed,
      ClaimBuilt
  <2> QED BY <1>1, <2>1, KeepLemma DEF StateStep
<1>6. CASE Answer(p, x)
  <2>1. \E s \in StepIds, status \in StepStatuses, k \in TxNo :
          rec'[x] = Answered(rec[x], s, status, k)
    BY <1>1, <1>6, SavedRecord, OpLemma, BoundsAssumption
    DEF Answer, ResolveSent, ResolveNotSent, StepStatuses, TxNo
  <2> QED BY <1>1, <2>1, KeepLemma DEF StateStep
<1>7. CASE WalletRefuses(p, x)
  <2>1. rec' = rec \/ rec'[x] = WithStep(rec[x], op[p][x].step, "pending", 0)
    BY <1>1, <1>7, SavedRecord DEF WalletRefuses, Continue
  <2> QED BY <1>1, <2>1, KeepLemma, OpLemma DEF StateStep, StepStatuses
<1>8. CASE WalletUnclear(p, x)
  <2>1. rec' = rec \/ rec'[x] = Flagged(rec[x])
    BY <1>1, <1>8, SavedRecord DEF WalletUnclear, Continue
  <2> QED BY <1>1, <2>1, KeepLemma DEF StateStep
<1>9. CASE Quote(p, x) \/ StartExpired(p, x) \/ BackToQuoted(p, x) \/
         MoveToSubmitted(p, x) \/ MoveToPending(p, x) \/
         ResumeConfirmed(p, x) \/ Complete(p, x) \/
         RecordRefund(p, x)
  BY <1>1, <1>9, MovedRecord
  DEF Quote, StartExpired, BackToQuoted, MoveToSubmitted, MoveToPending,
      ResumeConfirmed, Complete, RecordRefund
<1>10. CASE TrackedCompleted(p, x)
  BY <1>1, <1>10, MovedRecord DEF TrackedCompleted
<1>11. CASE BuildEmpty(p, x) \/ StepFailedBefore(p, x) \/ FailStep(p, x) \/
         TrackedFailed(p, x)
  BY <1>1, <1>11, MovedRecord DEF Fail, BuildEmpty, StepFailedBefore, FailStep, TrackedFailed
<1>12. CASE StartRetire(p, x) \/ BuildLapsed(p, x) \/ Build(p, x) \/
         SettleBurn(p, x) \/ ResumeWaiting(p, x)
  <2>1. CASE rec' = rec
    BY <2>1 DEF StateStep
  <2>2. CASE rec' # rec
    BY <1>1, <1>12, <2>2, MovedRecord DEF Fail, Continue, StartRetire, BuildLapsed, Build, SettleBurn, ResumeWaiting
  <2> QED BY <2>1, <2>2
<1> QED
  BY <1>2, <1>3, <1>4, <1>5, <1>6, <1>7, <1>8, <1>9, <1>10, <1>11, <1>12
  DEF PageStep, StartCall, ClaimCall, Resumes

LEMMA AllStateSteps ==
  ASSUME TypeInv, [Next]_vars
  PROVE  \A x \in Execs : StateStep(x)
<1>1. ASSUME rec' = rec PROVE \A x \in Execs : StateStep(x)
  BY <1>1 DEF StateStep
<1>2. CASE \E p \in Pages, x \in Execs : PageStep(p, x)
  <2>1. PICK p \in Pages, x \in Execs : PageStep(p, x)
    BY <1>2
  <2>2. \A y \in Execs : y # x => rec'[y] = rec[y]
    <3>1. Goes(p, x) /\ TypeOK
      BY <2>1, PageStepGoes DEF TypeInv
    <3> QED BY <3>1 DEF Goes, Continue, Save, TypeOK
  <2>3. StateStep(x)
    BY <2>1, PageStateStep
  <2> QED BY <2>2, <2>3 DEF StateStep
<1>3. CASE Environment \/ UNCHANGED vars
  BY <1>1, <1>3 DEF Environment, Crash, LedgerLapses, QuoteLapses, SettlementEnds, Lands, vars
<1> QED BY <1>2, <1>3 DEF Next, PageStep

\* Nothing leaves a final state and a final report is never rewritten, whatever
\* the tabs, crashes and chains do (states.ts applyTransition).
THEOREM FinalStaysAlways == Spec => FinalStays
<1>1. TypeInv /\ [Next]_vars =>
        [\A x \in Execs : rec[x].state \in Final =>
           rec'[x].state = rec[x].state /\ rec'[x].failure = rec[x].failure]_vars
  BY AllStateSteps DEF StateStep, Allowed, Final
<1>2. Spec => []TypeInv
  BY TypeInit, TypeStep, PTL DEF Spec
<1> QED BY <1>1, <1>2, PTL DEF Spec, FinalStays

-----------------------------------------------------------------------------
(* Arrival is reported only when the value arrived.                        *)

LEMMA PageStepSettles ==
  ASSUME NEW p \in Pages, NEW x \in Execs, PageStep(p, x)
  PROVE  settle' = settle /\ (chain' = chain \/ WalletSends(p, x) \/ WalletUnclear(p, x))
BY DEF PageStep, StartCall, ClaimCall, Answer, Resumes, Create, Quote,
   StartInterrupted, StartRetire, StartExpired, StartBuild, BuildLapsed,
   BuildRefused, BuildEmpty, Build, StepFailedBefore, StepConfirmedBefore,
   StepSubmittedBefore, StepPrepaid, StepBegins, PreflightRefuses, MarkSending,
   WalletSends, WalletUnclear, WalletRefuses, BackToQuoted, SaveSubmitted,
   MoveToSubmitted, SeeConfirmed, SeeFailed, FailStep, TimeOut, SettleEarlier,
   SettleBurn, MoveToPending, ResumeLost, ResumeWaiting, ResumeConfirmed, Advance,
   TrackedOpen, TrackedCompleted, Complete, TrackedFailed, ClaimInterrupted, Claim,
   ClaimRefused, ClaimBuilt, ResolveSent, ResolveNotSent, RecordRefund, Conflict, SaveFails

LEMMA PageStepFresh ==
  ASSUME NEW p \in Pages, NEW x \in Execs, PageStep(p, x)
  PROVE  fresh' = fresh \/ Create(p, x)
BY DEF PageStep, StartCall, ClaimCall, Answer, Resumes, Quote,
   StartInterrupted, StartRetire, StartExpired, StartBuild, BuildLapsed,
   BuildRefused, BuildEmpty, Build, StepFailedBefore, StepConfirmedBefore,
   StepSubmittedBefore, StepPrepaid, StepBegins, PreflightRefuses, MarkSending,
   WalletSends, WalletUnclear, WalletRefuses, BackToQuoted, SaveSubmitted,
   MoveToSubmitted, SeeConfirmed, SeeFailed, FailStep, TimeOut, SettleEarlier,
   SettleBurn, MoveToPending, ResumeLost, ResumeWaiting, ResumeConfirmed, Advance,
   TrackedOpen, TrackedCompleted, Complete, TrackedFailed, ClaimInterrupted, Claim,
   ClaimRefused, ClaimBuilt, ResolveSent, ResolveNotSent, RecordRefund, Conflict, SaveFails

\* What the chains have settled stays settled.
LEMMA ChainsSettle ==
  ASSUME TypeInv, [Next]_vars
  PROVE  /\ \A x \in Execs, s \in StepIds, n \in 1..MaxSends :
              chain[x][s][n] \notin {"unsent", "inflight"} => chain'[x][s][n] = chain[x][s][n]
         /\ \A x \in Execs : settle[x] # "open" => settle'[x] = settle[x]
<1>1. chain \in Chains /\ settle \in [Execs -> {"open", "relayed", "returned"}]
  BY DEF TypeInv, TypeOK, Chains
<1>2. \/ UNCHANGED chain
      \/ \E x \in Execs, s \in StepIds, n \in 1..MaxSends, to \in TxStatuses :
           chain[x][s][n] \in {"unsent", "inflight"} /\ chain' = [chain EXCEPT ![x][s][n] = to]
  <2>1. ASSUME NEW p \in Pages, NEW x \in Execs, WalletSends(p, x) \/ WalletUnclear(p, x)
        PROVE  \/ UNCHANGED chain
               \/ \E s \in StepIds, n \in 1..MaxSends, to \in TxStatuses :
                    chain[x][s][n] = "unsent" /\ chain' = [chain EXCEPT ![x][s][n] = to]
    <3>1. op[p][x].step \in StepIds /\ "inflight" \in TxStatuses
      BY DEF TypeInv, TypeOK, Op, TxStatuses
    <3> QED BY <2>1, <3>1 DEF WalletSends, WalletUnclear, CanSend
  <2>2. ASSUME NEW p \in Pages, NEW x \in Execs, PageStep(p, x),
               ~WalletSends(p, x), ~WalletUnclear(p, x)
        PROVE  UNCHANGED chain
    BY <2>2, PageStepSettles
  <2>3. ASSUME NEW x \in Execs, NEW s \in StepIds, NEW n \in 1..MaxSends, Lands(x, s, n)
        PROVE  \E to \in TxStatuses :
                 chain[x][s][n] = "inflight" /\ chain' = [chain EXCEPT ![x][s][n] = to]
    BY <2>3 DEF Lands, TxStatuses
  <2>4. ASSUME Environment,
               \A x \in Execs, s \in StepIds, n \in 1..MaxSends : ~Lands(x, s, n)
        PROVE  UNCHANGED chain
    BY <2>4 DEF Environment, Crash, LedgerLapses, QuoteLapses, SettlementEnds
  <2> QED BY <2>1, <2>2, <2>3, <2>4 DEF Next, PageStep, vars
<1>3. settle' = settle \/ \E x \in Execs : SettlementEnds(x)
  <2>1. ASSUME NEW p \in Pages, NEW x \in Execs, PageStep(p, x)
        PROVE  settle' = settle
    BY <2>1, PageStepSettles
  <2>2. Environment => settle' = settle \/ \E x \in Execs : SettlementEnds(x)
    BY DEF Environment, Crash, LedgerLapses, QuoteLapses, Lands
  <2> QED BY <2>1, <2>2 DEF Next, PageStep, vars
<1>4. \A x \in Execs : settle[x] # "open" => settle'[x] = settle[x]
  BY <1>1, <1>3 DEF SettlementEnds
<1>5. ASSUME NEW x \in Execs, NEW s \in StepIds, NEW n \in 1..MaxSends,
             chain[x][s][n] \notin {"unsent", "inflight"}
      PROVE  chain'[x][s][n] = chain[x][s][n]
  <2>1. CASE UNCHANGED chain
    BY <2>1
  <2>2. ASSUME NEW y \in Execs, NEW t \in StepIds, NEW m \in 1..MaxSends, NEW to,
               chain[y][t][m] \in {"unsent", "inflight"},
               chain' = [chain EXCEPT ![y][t][m] = to]
        PROVE  chain'[x][s][n] = chain[x][s][n]
    <3>1. y # x \/ t # s \/ m # n
      BY <1>5, <2>2
    <3>2. chain[x] \in [StepIds -> [1..MaxSends -> TxStatuses]]
          /\ chain[x][s] \in [1..MaxSends -> TxStatuses]
      BY <1>1 DEF Chains
    <3> QED BY <1>1, <2>2, <3>1, <3>2 DEF Chains
  <2> QED BY <1>2, <2>1, <2>2
<1> QED BY <1>4, <1>5

LEMMA MintedStays ==
  ASSUME TypeInv, [Next]_vars, NEW x \in Execs, Minted(x)
  PROVE  Minted(x)'
<1>1. "mint" \in StepIds
  BY OpLemma
<1> QED BY <1>1, ChainsSettle DEF Minted

\* ArrivedOnlyIfMinted, with the one state the code's table allows between.
ArrivalInv ==
  \A x \in Execs :
    rec[x].state \in {"DESTINATION_RECEIVED", "DESTINATION_EXECUTED", "COMPLETED"} => Minted(x)

LEMMA NextLemma ==
  \A s \in ExecutionStates :
    /\ "COMPLETED" \in NEXT(s) => s \in {"DESTINATION_RECEIVED", "DESTINATION_EXECUTED"}
    /\ "DESTINATION_EXECUTED" \in NEXT(s) => s = "DESTINATION_RECEIVED"
BY DEF NEXT, ExecutionStates, Final

\* The record says the funds arrived only when the destination received them, in
\* every interleaving of tabs, crashes, relayers and lost transactions
\* (orchestrator.ts: never "COMPLETED because the source transaction confirmed").
THEOREM ArrivedOnlyIfMintedAlways == Spec => []ArrivedOnlyIfMinted
<1>1. Init => ArrivalInv
  BY DEF Init, NoRecord, ArrivalInv
<1>2. TypeInv /\ ArrivalInv /\ [Next]_vars => ArrivalInv'
  <2> SUFFICES ASSUME TypeInv, ArrivalInv, [Next]_vars, NEW x \in Execs,
                      rec'[x].state \in {"DESTINATION_RECEIVED", "DESTINATION_EXECUTED",
                                         "COMPLETED"}
               PROVE  Minted(x)'
    BY DEF ArrivalInv
  <2>1. rec[x].state \in ExecutionStates
    BY DEF TypeInv, TypeOK, Record
  <2>2. StateStep(x)
    BY AllStateSteps
  <2>3. Minted(x)
    BY <2>1, <2>2, NextLemma DEF StateStep, ArrivalInv, Allowed
  <2> QED BY <2>3, MintedStays
<1>3. ArrivalInv => ArrivedOnlyIfMinted
  BY DEF ArrivalInv, ArrivedOnlyIfMinted
<1>4. Spec => []TypeInv
  BY TypeInit, TypeStep, PTL DEF Spec
<1> QED BY <1>1, <1>2, <1>3, <1>4, PTL DEF Spec

-----------------------------------------------------------------------------
(* Part 2: no step of an execution is sent twice.                          *)
(*                                                                         *)
(* Two arguments meet in it.  The source steps are sent by one page only,  *)
(* the one that accepted the quote, and only while it holds the lock of    *)
(* `exclusive`.  The claim may be sent by any page; what keeps two pages   *)
(* apart is that "sending" is saved before the wallet is asked, under the  *)
(* store's version check.                                                  *)

-----------------------------------------------------------------------------
(* The inductive invariant.                                                *)

Asking(p, x, s) == op[p][x].pc = "asking" /\ op[p][x].step = s
Current(p, x) == ~op[p][x].stale

\* The call is in the loop of start, or on its way into it.
InLoop(p, x) ==
  \/ op[p][x].pc \in {"creating", "building", "stepping", "preflight", "declined", "moving"}
  \/ op[p][x].pc \in {"asking", "sent"} /\ op[p][x].step # "mint"
  \/ op[p][x].pc \in {"waiting", "settled"} /\ op[p][x].step \notin {Last, "mint"}

\* Only the page that accepted the quote runs the loop, and one page did.
FreshOK(x) ==
  \A p \in Pages :
    /\ x \in fresh[p] => rec[x].state # "none"
    /\ \A q \in Pages : x \in fresh[p] /\ x \in fresh[q] => p = q
    /\ InLoop(p, x) => x \in fresh[p]
    /\ op[p][x].pc = "preflight" => op[p][x].step # "mint"
    /\ op[p][x].pc = "moving" => op[p][x].step = Last

\* A call in the loop that has the current record has one that awaits signatures.
LoopOK(x) ==
  \A p \in Pages : Current(p, x) /\ InLoop(p, x) =>
    \/ rec[x].state = "AWAITING_SIGNATURE" /\ op[p][x].pc # "creating"
    \/ rec[x].state = "QUOTED" /\ op[p][x].pc = "building"
    \/ rec[x].state = "CREATED" /\ op[p][x].pc = "creating"

\* While the wallet is asked for a step, nothing of it is live, the record says
\* so, nobody else asks for it, and whoever else follows it has an old record.
PromptOK(x) ==
  \A p \in Pages, s \in StepIds : Asking(p, x, s) =>
    /\ Live(x, s) = {}
    /\ Status(x, s) \in {"sending", "submitted"}
    /\ s # "mint" => rec[x].state \in {"AWAITING_SIGNATURE", "EXPIRED", "FAILED"}
    /\ \A q \in Pages : q # p /\ op[q][x].step = s =>
         /\ op[q][x].pc # "asking"
         /\ op[q][x].pc \in {"sent", "waiting"} => ~Current(q, x)

\* The checks made before "sending" is saved still hold when it is.
BeforePromptOK(x) ==
  \A p \in Pages : Current(p, x) =>
    /\ op[p][x].pc = "preflight" => Status(x, op[p][x].step) \in {"none", "pending"}
    /\ op[p][x].pc = "claiming" => Status(x, "mint") \in {"none", "pending", "failed"}

\* A step that may be sent (again) has nothing live.
UnsentOK(x) ==
  \A s \in StepIds :
    Status(x, s) \in {"none", "pending"} \/ (s = "mint" /\ Status(x, s) = "failed")
      => Live(x, s) = {}

\* A claim that is followed is the only live one.
ClaimOK(x) ==
  \A p \in Pages :
    Current(p, x) /\ op[p][x].pc \in {"sent", "waiting"} /\ op[p][x].step = "mint"
      => Live(x, "mint") \subseteq {op[p][x].tx}

OneLive(x) == \A s \in StepIds : \A m, n \in Live(x, s) : m = n

SendOK(x) ==
  /\ FreshOK(x) /\ LoopOK(x) /\ PromptOK(x) /\ BeforePromptOK(x)
  /\ UnsentOK(x) /\ ClaimOK(x) /\ OneLive(x)

SendInv == TypeInv /\ \A x \in Execs : SendOK(x)

-----------------------------------------------------------------------------
(* What a step of a page's call leaves alone.                              *)

\* The calls of the other pages stay where they are, and are out of date as soon
\* as the record was written.
OthersKeep(p, x) ==
  \A q \in Pages : q # p =>
    /\ op'[q][x].pc = op[q][x].pc
    /\ op'[q][x].step = op[q][x].step
    /\ op'[q][x].tx = op[q][x].tx
    /\ ~op'[q][x].stale /\ op[q][x].pc # "idle" => ~op[q][x].stale /\ rec'[x] = rec[x]

LEMMA ContinueEffect ==
  ASSUME TypeInv, NEW p \in Pages, NEW x \in Execs, NEW o \in Op, Continue(p, x, o)
  PROVE  rec'[x] = rec[x] /\ op'[p][x] = o /\ OthersKeep(p, x)
<1>1. TypeOK
  BY DEF TypeInv
<1> QED BY <1>1, ContinueLemma DEF OthersKeep

LEMMA SaveEffect ==
  ASSUME TypeInv, NEW p \in Pages, NEW x \in Execs, NEW r \in Record, NEW o \in Op,
         Save(p, x, r, o)
  PROVE  rec'[x] = r /\ op'[p][x] = o /\ OthersKeep(p, x)
<1>1. TypeOK
  BY DEF TypeInv
<1> QED BY <1>1, SaveLemma DEF OthersKeep

LEMMA GoesKeeps ==
  ASSUME TypeInv, NEW p \in Pages, NEW x \in Execs, Goes(p, x)
  PROVE  /\ OthersKeep(p, x)
         /\ \A y \in Execs : y # x =>
              rec'[y] = rec[y] /\ \A q \in Pages : op'[q][y] = op[q][y]
<1>1. TypeOK
  BY DEF TypeInv
<1>2. PICK o \in Op : Continue(p, x, o) \/ \E r \in Record : Save(p, x, r, o)
  BY DEF Goes
<1>3. CASE Continue(p, x, o)
  BY <1>1, <1>3, ContinueEffect, ContinueLemma
<1>4. ASSUME NEW r \in Record, Save(p, x, r, o)
      PROVE  /\ OthersKeep(p, x)
             /\ \A y \in Execs : y # x =>
                  rec'[y] = rec[y] /\ \A q \in Pages : op'[q][y] = op[q][y]
  BY <1>1, <1>4, SaveEffect, SaveLemma
<1> QED BY <1>2, <1>3, <1>4

\* The other executions keep the invariant.
LEMMA OtherExecutions ==
  ASSUME SendInv, NEW p \in Pages, NEW x \in Execs, PageStep(p, x),
         NEW y \in Execs, y # x
  PROVE  SendOK(y)'
<1>1. TypeInv /\ SendOK(y)
  BY DEF SendInv
<1>2. rec'[y] = rec[y] /\ \A q \in Pages : op'[q][y] = op[q][y]
  BY <1>1, PageStepGoes, GoesKeeps
<1>3. chain'[y] = chain[y] /\ \A q \in Pages : y \in fresh'[q] <=> y \in fresh[q]
  <2>1. chain'[y] = chain[y]
    <3>1. CASE chain' = chain
      BY <3>1
    <3>2. CASE WalletSends(p, x) \/ WalletUnclear(p, x)
      BY <1>1, <3>2 DEF WalletSends, WalletUnclear, TypeInv, TypeOK
    <3> QED BY <3>1, <3>2, PageStepSettles
  <2>2. CASE fresh' = fresh
    BY <2>1, <2>2
  <2>3. CASE Create(p, x)
    BY <1>1, <2>1, <2>3 DEF Create, TypeInv, TypeOK
  <2> QED BY <2>1, <2>2, <2>3, PageStepFresh
<1>4. \A q \in Pages : (InLoop(q, y) <=> InLoop(q, y)') /\ (Current(q, y) <=> Current(q, y)')
  BY <1>2 DEF InLoop, Current
<1>5. \A s \in StepIds : Live(y, s)' = Live(y, s) /\ Status(y, s)' = Status(y, s)
                         /\ \A q \in Pages : Asking(q, y, s)' <=> Asking(q, y, s)
  BY <1>2, <1>3 DEF Live, Status, Asking
<1> USE <1>1, <1>2, <1>3, <1>4, <1>5
<1>6. FreshOK(y)' /\ LoopOK(y)'
  BY DEF SendOK, FreshOK, LoopOK
<1>7. PromptOK(y)'
  BY DEF SendOK, PromptOK
<1>8. BeforePromptOK(y)'
  <2>1. \A q \in Pages : op[q][y].step \in StepIds
    BY DEF TypeInv, TypeOK, Op
  <2>2. "mint" \in StepIds
    BY OpLemma
  <2> QED BY <2>1, <2>2 DEF SendOK, BeforePromptOK
<1>9. UnsentOK(y)' /\ ClaimOK(y)' /\ OneLive(y)'
  BY OpLemma DEF SendOK, UnsentOK, ClaimOK, OneLive
<1> QED BY <1>6, <1>7, <1>8, <1>9 DEF SendOK

-----------------------------------------------------------------------------
(* Steps that end at a place the invariant does not speak of.              *)

QuietPlaces == {"idle", "stepFailed", "confirming", "tracking", "arrived"}

\* The record's state stays, or ends unsigned, or moves beyond the signatures.
StateKept(p, x) ==
  \/ rec'[x].state = rec[x].state
  \/ rec'[x].state \in {"EXPIRED", "FAILED"}
  \/ /\ rec[x].state \notin {"AWAITING_SIGNATURE", "EXPIRED", "FAILED"}
     /\ rec'[x].state # "none"

LEMMA QuietStep ==
  ASSUME SendInv, NEW p \in Pages, NEW x \in Execs, OthersKeep(p, x),
         op'[p][x].pc \in QuietPlaces, rec'[x].steps = rec[x].steps,
         StateKept(p, x), fresh' = fresh, chain' = chain
  PROVE  SendOK(x)'
<1>1. SendOK(x) /\ TypeInv
  BY DEF SendInv
<1>2. \A s \in StepIds : Live(x, s)' = Live(x, s) /\ Status(x, s)' = Status(x, s)
  BY DEF Live, Status
<1>3. ~InLoop(p, x)' /\ \A s : ~Asking(p, x, s)'
  BY DEF QuietPlaces, InLoop, Asking
<1>4. \A q \in Pages : q # p => /\ InLoop(q, x)' <=> InLoop(q, x)
                                /\ \A s : Asking(q, x, s)' <=> Asking(q, x, s)
  BY DEF OthersKeep, InLoop, Asking
<1>5. rec[x].state # "none" => rec'[x].state # "none"
  BY DEF StateKept
<1>6. FreshOK(x)'
  BY <1>1, <1>3, <1>4, <1>5 DEF SendOK, FreshOK, OthersKeep, QuietPlaces
<1>7. LoopOK(x)'
  BY <1>1, <1>3, <1>4 DEF SendOK, LoopOK, OthersKeep, Current, InLoop
<1>8. PromptOK(x)'
  BY <1>1, <1>2, <1>3, <1>4 DEF SendOK, PromptOK, OthersKeep, QuietPlaces, StateKept, Current
<1>9. BeforePromptOK(x)'
  <2>1. "mint" \in StepIds /\ \A q \in Pages : op[q][x].step \in StepIds
    BY <1>1, OpLemma DEF TypeInv, TypeOK, Op
  <2> QED BY <1>1, <1>2, <2>1 DEF SendOK, BeforePromptOK, OthersKeep, QuietPlaces, Current
<1>10. UnsentOK(x)' /\ OneLive(x)'
  BY <1>1, <1>2 DEF SendOK, UnsentOK, OneLive
<1>11. ClaimOK(x)'
  BY <1>1, <1>2, OpLemma DEF SendOK, ClaimOK, OthersKeep, QuietPlaces, Current
<1> QED BY <1>6, <1>7, <1>8, <1>9, <1>10, <1>11 DEF SendOK

LEMMA SavedCall ==
  ASSUME TypeOK, NEW p \in Pages, NEW x \in Execs, NEW r, NEW o, Save(p, x, r, o)
  PROVE  rec'[x] = r /\ op'[p][x] = o
BY DEF TypeOK, Save

LEMMA ContinuedCall ==
  ASSUME TypeOK, NEW p \in Pages, NEW x \in Execs, NEW o, Continue(p, x, o)
  PROVE  rec'[x] = rec[x] /\ op'[p][x] = o
BY DEF TypeOK, Continue


LEMMA BeyondSignatures ==
  ASSUME NEW s \in ExecutionStates,
         NEXT(s) \cap {"DESTINATION_RECEIVED", "COMPLETED", "SETTLEMENT_PENDING", "REFUNDED"} # {}
  PROVE  s \notin {"AWAITING_SIGNATURE", "EXPIRED", "FAILED"}
BY DEF NEXT, ExecutionStates, Final

\* What a quiet step does.
Quiet(p, x) ==
  /\ op'[p][x].pc \in QuietPlaces
  /\ rec'[x].steps = rec[x].steps
  /\ StateKept(p, x)
  /\ fresh' = fresh /\ chain' = chain

LEMMA QuietContinue ==
  ASSUME TypeOK, NEW p \in Pages, NEW x \in Execs, NEW o, o.pc \in QuietPlaces,
         Continue(p, x, o), fresh' = fresh, chain' = chain
  PROVE  Quiet(p, x)
BY ContinuedCall DEF Quiet, StateKept

LEMMA QuietFlag ==
  ASSUME TypeOK, NEW p \in Pages, NEW x \in Execs,
         Save(p, x, Flagged(rec[x]), Idle), fresh' = fresh, chain' = chain
  PROVE  Quiet(p, x)
<1>1. rec'[x] = Flagged(rec[x]) /\ op'[p][x] = Idle
  BY SavedCall
<1>2. Flagged(rec[x]).steps = rec[x].steps /\ Flagged(rec[x]).state = rec[x].state
  BY DEF TypeOK, Record, Flagged
<1> QED BY <1>1, <1>2 DEF Quiet, StateKept, Idle, QuietPlaces

LEMMA QuietMove ==
  ASSUME TypeOK, NEW p \in Pages, NEW x \in Execs, NEW r \in Record, NEW to, NEW o,
         r = rec[x] \/ \E why : r = WithFailure(rec[x], why),
         Move(p, x, r, to, o), o.pc \in QuietPlaces, fresh' = fresh, chain' = chain,
         \/ to \in {"EXPIRED", "FAILED"}
         \/ rec[x].state \notin {"AWAITING_SIGNATURE", "EXPIRED", "FAILED"} /\ to # "none"
  PROVE  Quiet(p, x)
<1>1. rec'[x] = [r EXCEPT !.state = to] /\ op'[p][x] = o
  BY SavedCall DEF Move
<1>2. r.steps = rec[x].steps
  BY DEF TypeOK, Record, WithFailure
<1>3. [r EXCEPT !.state = to].steps = r.steps /\ [r EXCEPT !.state = to].state = to
  BY DEF Record
<1> QED BY <1>1, <1>2, <1>3 DEF Quiet, StateKept

LEMMA QuietFail ==
  ASSUME TypeOK, NEW p \in Pages, NEW x \in Execs, NEW why \in {"fundsSafe", "fundsAtRisk"},
         Fail(p, x, rec[x], why), fresh' = fresh, chain' = chain
  PROVE  Quiet(p, x)
<1>1. rec[x] \in Record
  BY DEF TypeOK
<1>2. WithFailure(rec[x], why) \in Record
  BY <1>1, RecordLemma
<1>3. Move(p, x, WithFailure(rec[x], why), "FAILED", Idle) /\ Idle.pc \in QuietPlaces
  BY DEF Fail, Idle, QuietPlaces
<1> QED BY <1>2, <1>3, QuietMove

QuietAction(p, x) ==
  \/ BuildRefused(p, x) \/ PreflightRefuses(p, x) \/ Advance(p, x) \/ TrackedOpen(p, x)
  \/ ClaimRefused(p, x) \/ Conflict(p, x) \/ SaveFails(p, x) \/ StartInterrupted(p, x)
  \/ ResumeLost(p, x) \/ ClaimInterrupted(p, x) \/ StartExpired(p, x) \/ TrackedCompleted(p, x)
  \/ Complete(p, x) \/ MoveToPending(p, x) \/ ResumeConfirmed(p, x) \/ RecordRefund(p, x)
  \/ BuildEmpty(p, x) \/ StepFailedBefore(p, x) \/ FailStep(p, x) \/ TrackedFailed(p, x)
  \/ Quote(p, x) \/ StartRetire(p, x) \/ BuildLapsed(p, x) \/ SettleBurn(p, x)

LEMMA QuietActions ==
  ASSUME SendInv, NEW p \in Pages, NEW x \in Execs, QuietAction(p, x)
  PROVE  Quiet(p, x)
<1>1. TypeOK /\ rec[x] \in Record
  BY DEF SendInv, TypeInv, TypeOK
<1>2. CASE BuildRefused(p, x) \/ PreflightRefuses(p, x) \/ Advance(p, x) \/
            TrackedOpen(p, x) \/ ClaimRefused(p, x) \/
            Conflict(p, x) \/ SaveFails(p, x)
  BY <1>1, <1>2, QuietContinue DEF Idle, At, QuietPlaces, BuildRefused, PreflightRefuses, Advance, TrackedOpen, ClaimRefused,
      Conflict, SaveFails
<1>3. CASE StartInterrupted(p, x) \/ ResumeLost(p, x) \/ ClaimInterrupted(p, x)
  BY <1>1, <1>3, QuietFlag DEF StartInterrupted, ResumeLost, ClaimInterrupted
<1>4. CASE StartExpired(p, x)
  BY <1>1, <1>4, QuietMove DEF Idle, QuietPlaces, StartExpired
<1>5. CASE TrackedCompleted(p, x) \/ Complete(p, x) \/ MoveToPending(p, x) \/
            ResumeConfirmed(p, x) \/ RecordRefund(p, x)
  <2>1. PICK to, o : /\ Move(p, x, rec[x], to, o) /\ o.pc \in QuietPlaces
                     /\ fresh' = fresh /\ chain' = chain
                     /\ to \in {"DESTINATION_RECEIVED", "COMPLETED", "SETTLEMENT_PENDING",
                               "REFUNDED"}
    BY <1>5 DEF Idle, At, QuietPlaces, TrackedCompleted, Complete, MoveToPending, ResumeConfirmed, RecordRefund
  <2>2. rec[x].state \notin {"AWAITING_SIGNATURE", "EXPIRED", "FAILED"}
    BY <1>1, <2>1, BeyondSignatures DEF Move, Allowed, Record
  <2> QED BY <1>1, <2>1, <2>2, QuietMove
<1>6. CASE BuildEmpty(p, x) \/ StepFailedBefore(p, x) \/ FailStep(p, x) \/
            TrackedFailed(p, x)
  BY <1>1, <1>6, QuietFail DEF BuildEmpty, StepFailedBefore, FailStep, TrackedFailed
<1>7. CASE Quote(p, x)
  <2>1. rec[x].state = "CREATED"
    BY <1>7 DEF Quote, Reached, SendInv, SendOK, LoopOK, InLoop, Current
  <2> QED BY <1>1, <1>7, <2>1, QuietMove DEF Quote, Idle, QuietPlaces
<1>8. CASE StartRetire(p, x)
  BY <1>1, <1>8, QuietMove, QuietFail DEF StartRetire, Idle, QuietPlaces
<1>9. CASE BuildLapsed(p, x)
  BY <1>1, <1>9, QuietContinue, QuietFail DEF BuildLapsed, Idle, QuietPlaces
<1>10. CASE SettleBurn(p, x)
  BY <1>1, <1>10, QuietContinue, QuietMove DEF SettleBurn, Idle, At, QuietPlaces
<1> QED BY <1>2, <1>3, <1>4, <1>5, <1>6, <1>7, <1>8, <1>9, <1>10 DEF QuietAction

-----------------------------------------------------------------------------
(* Steps that change neither the chains nor the accepted quotes: what they *)
(* must establish where the call itself goes, for the rest to follow.      *)

\* Nobody else asks the wallet for s.
Alone(p, x, s) == \A q \in Pages : q # p => ~Asking(q, x, s)

\* Every other call on x is over or out of date.
OthersOut(p, x) == \A q \in Pages : q # p => op'[q][x].pc = "idle" \/ op'[q][x].stale

RecordStepOK(p, x) ==
  /\ StateKept(p, x) \/ (x \in fresh[p] /\ rec'[x].state # "none")
  /\ \A s \in StepIds :
       \/ Status(x, s)' = Status(x, s)
       \/ Status(x, s)' \in {"sending", "submitted"}
       \/ Alone(p, x, s)
  /\ \A s \in StepIds :
       Status(x, s)' \in {"none", "pending"} \/ (s = "mint" /\ Status(x, s)' = "failed")
         => Live(x, s) = {}

LoopStepOK(p, x) ==
  /\ InLoop(p, x)' =>
       /\ x \in fresh[p]
       /\ Current(p, x)' =>
            \/ rec'[x].state = "AWAITING_SIGNATURE" /\ op'[p][x].pc # "creating"
            \/ rec'[x].state = "QUOTED" /\ op'[p][x].pc = "building"
  /\ op'[p][x].pc = "preflight" => op'[p][x].step # "mint"
  /\ op'[p][x].pc = "moving" => op'[p][x].step = Last

PromptStepOK(p, x) ==
  /\ \A s \in StepIds : Asking(p, x, s)' =>
       /\ Live(x, s) = {}
       /\ Status(x, s)' \in {"sending", "submitted"}
       /\ s # "mint" => rec'[x].state = "AWAITING_SIGNATURE"
       /\ Alone(p, x, s) /\ OthersOut(p, x)
  /\ Current(p, x)' /\ op'[p][x].pc \in {"sent", "waiting"} =>
       /\ Alone(p, x, op'[p][x].step)
       /\ op'[p][x].step = "mint" => Live(x, "mint") \subseteq {op'[p][x].tx}
  /\ Current(p, x)' =>
       /\ op'[p][x].pc = "preflight" => rec'[x].steps[op'[p][x].step].status \in {"none", "pending"}
       /\ op'[p][x].pc = "claiming" => Status(x, "mint")' \in {"none", "pending", "failed"}

LEMMA LocalStep ==
  ASSUME SendInv, NEW p \in Pages, NEW x \in Execs, OthersKeep(p, x),
         fresh' = fresh, chain' = chain,
         RecordStepOK(p, x), LoopStepOK(p, x), PromptStepOK(p, x)
  PROVE  SendOK(x)'
<1>1. SendOK(x) /\ TypeInv /\ "mint" \in StepIds
  BY OpLemma DEF SendInv
<1>2. \A s \in StepIds : Live(x, s)' = Live(x, s)
  BY DEF Live
<1>3. \A q \in Pages : q # p => /\ InLoop(q, x)' <=> InLoop(q, x)
                                /\ \A s : Asking(q, x, s)' <=> Asking(q, x, s)
  BY DEF OthersKeep, InLoop, Asking
<1>4. ASSUME NEW q \in Pages, q # p, Current(q, x)', op[q][x].pc # "idle"
      PROVE  /\ Current(q, x) /\ rec'[x] = rec[x]
             /\ \A s : Status(x, s)' = Status(x, s)
  BY <1>4 DEF OthersKeep, Current, Status
<1>5. FreshOK(x)'
  <2>1. rec[x].state # "none" => rec'[x].state # "none"
    BY DEF RecordStepOK, StateKept
  <2> QED BY <1>1, <1>3, <2>1 DEF SendOK, FreshOK, OthersKeep, LoopStepOK
<1>6. LoopOK(x)'
  <2> SUFFICES ASSUME NEW q \in Pages, q # p, Current(q, x)', InLoop(q, x)'
               PROVE  \/ rec'[x].state = "AWAITING_SIGNATURE" /\ op'[q][x].pc # "creating"
                      \/ rec'[x].state = "QUOTED" /\ op'[q][x].pc = "building"
                      \/ rec'[x].state = "CREATED" /\ op'[q][x].pc = "creating"
    BY DEF LoopOK, LoopStepOK
  <2>1. InLoop(q, x) /\ op[q][x].pc # "idle"
    BY <1>3 DEF InLoop
  <2> QED BY <1>1, <1>4, <2>1 DEF SendOK, LoopOK, OthersKeep
<1>7. PromptOK(x)'
  <2>1. ASSUME NEW s \in StepIds, Asking(p, x, s)'
        PROVE  /\ Live(x, s)' = {}
               /\ Status(x, s)' \in {"sending", "submitted"}
               /\ s # "mint" => rec'[x].state \in {"AWAITING_SIGNATURE", "EXPIRED", "FAILED"}
               /\ \A q \in Pages : q # p /\ op'[q][x].step = s =>
                    /\ op'[q][x].pc # "asking"
                    /\ op'[q][x].pc \in {"sent", "waiting"} => ~Current(q, x)'
    BY <1>2, <1>3, <2>1 DEF PromptStepOK, OthersOut, Alone, Asking, Current
  <2>2. ASSUME NEW q \in Pages, q # p, NEW s \in StepIds, Asking(q, x, s)'
        PROVE  /\ Live(x, s)' = {}
               /\ Status(x, s)' \in {"sending", "submitted"}
               /\ s # "mint" => rec'[x].state \in {"AWAITING_SIGNATURE", "EXPIRED", "FAILED"}
    <3>1. Asking(q, x, s)
      BY <1>3, <2>2
    <3>2. /\ Live(x, s) = {} /\ Status(x, s) \in {"sending", "submitted"}
          /\ s # "mint" => rec[x].state \in {"AWAITING_SIGNATURE", "EXPIRED", "FAILED"}
      BY <1>1, <3>1 DEF SendOK, PromptOK
    <3>3. ~Alone(p, x, s)
      BY <2>2, <3>1 DEF Alone
    <3>4. s # "mint" => x \notin fresh[p]
      BY <1>1, <2>2, <3>1 DEF SendOK, FreshOK, InLoop, Asking
    <3> QED BY <1>2, <3>2, <3>3, <3>4 DEF RecordStepOK, StateKept
  <2>3. ASSUME NEW q \in Pages, q # p, NEW s \in StepIds, Asking(q, x, s)',
               NEW r \in Pages, r # q, op'[r][x].step = s
        PROVE  /\ op'[r][x].pc # "asking"
               /\ op'[r][x].pc \in {"sent", "waiting"} => ~Current(r, x)'
    <3>1. Asking(q, x, s)
      BY <1>3, <2>3
    <3>2. CASE r = p
      BY <2>3, <3>1, <3>2 DEF PromptStepOK, Alone, Asking
    <3>3. CASE r # p
      BY <1>1, <1>4, <2>3, <3>1, <3>3 DEF SendOK, PromptOK, OthersKeep
    <3> QED BY <3>2, <3>3
  <2> QED BY <2>1, <2>2, <2>3 DEF PromptOK
<1>8. BeforePromptOK(x)'
  <2>1. ASSUME NEW q \in Pages, q # p, Current(q, x)'
        PROVE  /\ op'[q][x].pc = "preflight" => rec'[x].steps[op'[q][x].step].status \in {"none", "pending"}
               /\ op'[q][x].pc = "claiming" => Status(x, "mint")' \in {"none", "pending", "failed"}
    <3>1. op'[q][x].pc = op[q][x].pc /\ op'[q][x].step = op[q][x].step
      BY <2>1 DEF OthersKeep
    <3>2. op[q][x].pc = "idle" \/ (Current(q, x) /\ rec'[x] = rec[x])
      BY <1>4, <2>1
    <3> QED BY <1>1, <3>1, <3>2 DEF SendOK, BeforePromptOK, Status
  <2> QED BY <2>1 DEF BeforePromptOK, PromptStepOK, Status
<1>9. UnsentOK(x)' /\ OneLive(x)'
  BY <1>1, <1>2 DEF SendOK, UnsentOK, OneLive, RecordStepOK
<1>10. ClaimOK(x)'
  BY <1>1, <1>2, <1>4 DEF SendOK, ClaimOK, OthersKeep, PromptStepOK
<1> QED BY <1>5, <1>6, <1>7, <1>8, <1>9, <1>10 DEF SendOK

-----------------------------------------------------------------------------
(* The actions one by one.                                                 *)

LEMMA LastLemma == Last \in StepIds \ {"mint"} /\ First \in StepIds \ {"mint"}
BY StepsLemma

\* The saved statuses of a record with one step changed.
LEMMA WithStepLemma ==
  ASSUME NEW r \in Record, NEW s \in StepIds, NEW status, NEW n
  PROVE  /\ WithStep(r, s, status, n).state = r.state
         /\ WithStep(r, s, status, n).steps[s].status = status
         /\ \A t \in StepIds : t # s => WithStep(r, s, status, n).steps[t] = r.steps[t]
BY DEF Record, WithStep

LEMMA Facts ==
  ASSUME SendInv, NEW p \in Pages, NEW x \in Execs
  PROVE  /\ TypeOK /\ SendOK(x) /\ rec[x] \in Record /\ op[p][x] \in Op
         /\ op[p][x].step \in StepIds /\ op[p][x].tx \in TxNo
         /\ op[p][x].pc \in {"stepping", "settled"} => op[p][x].step # "mint"
BY DEF SendInv, TypeInv, TypeOK, Op, PlaceOK

\* A page in the loop is the only one that may ask for a source step.
LEMMA LoopAlone ==
  ASSUME SendInv, NEW p \in Pages, NEW x \in Execs, x \in fresh[p],
         NEW s \in StepIds, s # "mint"
  PROVE  Alone(p, x, s)
BY DEF SendInv, SendOK, FreshOK, Alone, Asking, InLoop

\* A current call that follows a step of x, or waits for the wallet, is the only
\* one that may have asked for that step.
LEMMA FollowerAlone ==
  ASSUME SendInv, NEW p \in Pages, NEW x \in Execs,
         \/ op[p][x].pc = "asking"
         \/ Current(p, x) /\ op[p][x].pc \in {"sent", "waiting"}
  PROVE  Alone(p, x, op[p][x].step)
<1>1. op[p][x].step \in StepIds /\ SendOK(x)
  BY Facts
<1> QED BY <1>1 DEF SendOK, PromptOK, Alone, Asking

LEMMA StartBuildOK ==
  ASSUME SendInv, NEW p \in Pages, NEW x \in Execs, StartBuild(p, x)
  PROVE  RecordStepOK(p, x) /\ LoopStepOK(p, x) /\ PromptStepOK(p, x)
<1>1. TypeOK /\ SendOK(x)
  BY Facts
<1>2. rec'[x] = rec[x] /\ op'[p][x] = At("building", First, 0)
  BY <1>1, ContinuedCall DEF StartBuild
<1>3. rec[x].state \in {"QUOTED", "AWAITING_SIGNATURE"} /\ x \in fresh[p]
  BY DEF StartBuild, CanBegin
<1>4. RecordStepOK(p, x)
  BY <1>1, <1>2 DEF RecordStepOK, StateKept, Status, SendOK, UnsentOK
<1>5. LoopStepOK(p, x) /\ PromptStepOK(p, x)
  BY <1>2, <1>3 DEF LoopStepOK, PromptStepOK, At, Asking
<1> QED BY <1>4, <1>5

LEMMA StepConfirmedBeforeOK ==
  ASSUME SendInv, NEW p \in Pages, NEW x \in Execs, StepConfirmedBefore(p, x)
  PROVE  RecordStepOK(p, x) /\ LoopStepOK(p, x) /\ PromptStepOK(p, x)
<1> DEFINE s == op[p][x].step
<1>1. TypeOK /\ SendOK(x) /\ s \in StepIds \ {"mint"}
  BY Facts DEF StepConfirmedBefore, Reached
<1>2. rec'[x] = rec[x] /\ op'[p][x] = AfterStep(s)
  BY <1>1, ContinuedCall DEF StepConfirmedBefore
<1>3. rec[x].state = "AWAITING_SIGNATURE" /\ x \in fresh[p]
  BY <1>1 DEF StepConfirmedBefore, Reached, SendOK, LoopOK, FreshOK, InLoop, Current
<1>4. RecordStepOK(p, x)
  BY <1>1, <1>2 DEF RecordStepOK, StateKept, Status, SendOK, UnsentOK
<1>5. AfterStep(s).pc \in {"idle", "stepping"}
  BY DEF AfterStep, Idle, At
<1>6. LoopStepOK(p, x) /\ PromptStepOK(p, x)
  BY <1>2, <1>3, <1>5 DEF LoopStepOK, PromptStepOK, Asking
<1> QED BY <1>4, <1>6

LEMMA StepSubmittedBeforeOK ==
  ASSUME SendInv, NEW p \in Pages, NEW x \in Execs, StepSubmittedBefore(p, x)
  PROVE  RecordStepOK(p, x) /\ LoopStepOK(p, x) /\ PromptStepOK(p, x)
<1> DEFINE s == op[p][x].step
<1>1. TypeOK /\ SendOK(x) /\ s \in StepIds \ {"mint"}
  BY Facts DEF StepSubmittedBefore, Reached
<1>2. rec'[x] = rec[x] /\ op'[p][x].pc = "waiting" /\ op'[p][x].step = s
  BY <1>1, ContinuedCall DEF StepSubmittedBefore, At
<1>3. rec[x].state = "AWAITING_SIGNATURE" /\ x \in fresh[p]
  BY <1>1 DEF StepSubmittedBefore, Reached, SendOK, LoopOK, FreshOK, InLoop, Current
<1>4. RecordStepOK(p, x)
  BY <1>1, <1>2 DEF RecordStepOK, StateKept, Status, SendOK, UnsentOK
<1>5. Alone(p, x, s)
  BY <1>1, <1>3, LoopAlone
<1>6. LoopStepOK(p, x) /\ PromptStepOK(p, x)
  BY <1>1, <1>2, <1>3, <1>5 DEF LoopStepOK, PromptStepOK, Asking
<1> QED BY <1>4, <1>6

LEMMA StepBeginsOK ==
  ASSUME SendInv, NEW p \in Pages, NEW x \in Execs, StepBegins(p, x)
  PROVE  RecordStepOK(p, x) /\ LoopStepOK(p, x) /\ PromptStepOK(p, x)
<1> DEFINE s == op[p][x].step
<1>1. TypeOK /\ SendOK(x) /\ s \in StepIds \ {"mint"}
  BY Facts DEF StepBegins, Reached
<1>2. rec'[x] = rec[x] /\ op'[p][x].pc = "preflight" /\ op'[p][x].step = s
      /\ Status(x, s) \in {"none", "pending"}
  BY <1>1, ContinuedCall DEF StepBegins, At
<1>3. rec[x].state = "AWAITING_SIGNATURE" /\ x \in fresh[p]
  BY <1>1 DEF StepBegins, Reached, SendOK, LoopOK, FreshOK, InLoop, Current
<1>4. RecordStepOK(p, x) /\ rec'[x].steps[s].status \in {"none", "pending"}
  BY <1>1, <1>2 DEF RecordStepOK, StateKept, Status, SendOK, UnsentOK
<1>5. LoopStepOK(p, x) /\ PromptStepOK(p, x)
  BY <1>1, <1>2, <1>3, <1>4 DEF LoopStepOK, PromptStepOK, Asking
<1> QED BY <1>4, <1>5

\* A wait that runs out flags the record; the loop goes on with the next step.
LEMMA TimeOutOK ==
  ASSUME SendInv, NEW p \in Pages, NEW x \in Execs, TimeOut(p, x)
  PROVE  RecordStepOK(p, x) /\ LoopStepOK(p, x) /\ PromptStepOK(p, x)
<1> DEFINE s == op[p][x].step
           o == IF s = "mint" THEN Idle ELSE AfterStep(s)
<1>1. /\ TypeOK /\ SendOK(x) /\ s \in StepIds
      /\ op[p][x].pc = "waiting" /\ Current(p, x)
  BY Facts DEF TimeOut, Reached, Current
<1>2. rec'[x] = Flagged(rec[x]) /\ op'[p][x] = o
  BY <1>1, SavedCall DEF TimeOut
<1>3. rec'[x].steps = rec[x].steps /\ rec'[x].state = rec[x].state
  BY <1>1, <1>2 DEF TypeOK, Record, Flagged
<1>4. RecordStepOK(p, x)
  BY <1>1, <1>3 DEF RecordStepOK, StateKept, Status, SendOK, UnsentOK
<1>5. CASE s \in {"mint", Last}
  <2>1. op'[p][x].pc = "idle"
    BY <1>2, <1>5 DEF AfterStep, Idle
  <2> QED BY <1>4, <2>1 DEF LoopStepOK, PromptStepOK, InLoop, Asking
<1>6. CASE s \notin {"mint", Last}
  <2>1. op'[p][x].pc = "stepping"
    BY <1>2, <1>6 DEF AfterStep, At
  <2>2. rec[x].state = "AWAITING_SIGNATURE" /\ x \in fresh[p]
    BY <1>1, <1>6 DEF SendOK, LoopOK, FreshOK, InLoop
  <2> QED BY <1>3, <1>4, <2>1, <2>2 DEF LoopStepOK, PromptStepOK, Asking
<1> QED BY <1>5, <1>6

LEMMA SettleEarlierOK ==
  ASSUME SendInv, NEW p \in Pages, NEW x \in Execs, SettleEarlier(p, x)
  PROVE  RecordStepOK(p, x) /\ LoopStepOK(p, x) /\ PromptStepOK(p, x)
<1> DEFINE s == op[p][x].step
<1>1. TypeOK /\ SendOK(x) /\ s \in StepIds \ {"mint", Last}
  BY Facts DEF SettleEarlier
<1>2. AfterStep(s) \in Op /\ AfterStep(s).pc = "stepping"
  BY <1>1, AfterStepLemma DEF AfterStep, At
<1>3. rec'[x] = rec[x] /\ op'[p][x] = [AfterStep(s) EXCEPT !.stale = op[p][x].stale]
  BY <1>1, ContinuedCall DEF SettleEarlier
<1>4. op'[p][x].pc = "stepping" /\ op'[p][x].stale = op[p][x].stale
  BY <1>2, <1>3 DEF Op
<1>5. x \in fresh[p] /\ (Current(p, x) => rec[x].state = "AWAITING_SIGNATURE")
  BY <1>1 DEF SettleEarlier, SendOK, LoopOK, FreshOK, InLoop
<1>6. RecordStepOK(p, x)
  BY <1>1, <1>3 DEF RecordStepOK, StateKept, Status, SendOK, UnsentOK
<1>7. LoopStepOK(p, x) /\ PromptStepOK(p, x)
  BY <1>3, <1>4, <1>5 DEF LoopStepOK, PromptStepOK, Asking, Current
<1> QED BY <1>6, <1>7

LEMMA ClaimOKStep ==
  ASSUME SendInv, NEW p \in Pages, NEW x \in Execs, Claim(p, x)
  PROVE  RecordStepOK(p, x) /\ LoopStepOK(p, x) /\ PromptStepOK(p, x)
<1>1. TypeOK /\ SendOK(x)
  BY Facts
<1>2. rec'[x] = rec[x] /\ op'[p][x].pc = "claiming"
      /\ Status(x, "mint") \in {"none", "pending", "failed"}
  BY <1>1, ContinuedCall DEF Claim, At
<1>3. RecordStepOK(p, x) /\ Status(x, "mint")' \in {"none", "pending", "failed"}
  BY <1>1, <1>2 DEF RecordStepOK, StateKept, Status, SendOK, UnsentOK
<1>4. LoopStepOK(p, x) /\ PromptStepOK(p, x)
  BY <1>2, <1>3 DEF LoopStepOK, PromptStepOK, Asking, InLoop
<1> QED BY <1>3, <1>4

LEMMA ResumeWaitingOK ==
  ASSUME SendInv, NEW p \in Pages, NEW x \in Execs, ResumeWaiting(p, x)
  PROVE  RecordStepOK(p, x) /\ LoopStepOK(p, x) /\ PromptStepOK(p, x)
<1>1. TypeOK /\ SendOK(x) /\ rec[x] \in Record /\ rec[x].state = "SOURCE_SUBMITTED"
  BY Facts DEF ResumeWaiting, CanResume
<1>2. Alone(p, x, Last)
  BY <1>1, LastLemma DEF SendOK, PromptOK, Alone
<1>3. CASE Continue(p, x, At("waiting", Last, rec[x].executionId))
  <2>1. rec'[x] = rec[x] /\ op'[p][x].pc = "waiting" /\ op'[p][x].step = Last
    BY <1>1, <1>3, ContinuedCall DEF At
  <2>2. RecordStepOK(p, x)
    BY <1>1, <2>1 DEF RecordStepOK, StateKept, Status, SendOK, UnsentOK
  <2>3. LoopStepOK(p, x) /\ PromptStepOK(p, x)
    BY <1>2, <2>1, LastLemma DEF LoopStepOK, PromptStepOK, Asking, InLoop
  <2> QED BY <2>2, <2>3
<1>4. CASE Move(p, x, rec[x], "SOURCE_CONFIRMED", At("confirming", Last, 0))
  <2>1. rec'[x] = [rec[x] EXCEPT !.state = "SOURCE_CONFIRMED"] /\ op'[p][x].pc = "confirming"
    BY <1>1, <1>4, SavedCall DEF Move, At
  <2>2. rec'[x].state = "SOURCE_CONFIRMED" /\ rec'[x].steps = rec[x].steps
    BY <1>1, <2>1 DEF Record
  <2>3. RecordStepOK(p, x)
    BY <1>1, <2>2 DEF RecordStepOK, StateKept, Status, SendOK, UnsentOK
  <2>4. LoopStepOK(p, x) /\ PromptStepOK(p, x)
    BY <2>1 DEF LoopStepOK, PromptStepOK, Asking, InLoop
  <2> QED BY <2>3, <2>4
<1> QED BY <1>3, <1>4 DEF ResumeWaiting

LEMMA SavedOthersOut ==
  ASSUME TypeOK, NEW p \in Pages, NEW x \in Execs, NEW r, NEW o, Save(p, x, r, o)
  PROVE  OthersOut(p, x)
<1> SUFFICES ASSUME NEW q \in Pages, q # p
             PROVE  op'[q][x].pc = "idle" \/ op'[q][x].stale
  BY DEF OthersOut
<1>1. op'[q][x] = IF op[q][x].pc = "idle" THEN op[q][x]
                                          ELSE [op[q][x] EXCEPT !.stale = TRUE]
  BY DEF Save, TypeOK
<1>2. op[q][x] \in Op
  BY DEF TypeOK
<1> QED BY <1>1, <1>2 DEF Op

\* The record after one step of it was saved.
StepSaved(p, x, s, status) ==
  /\ rec'[x].state = rec[x].state
  /\ rec'[x].steps[s].status = status
  /\ \A t \in StepIds : t # s => rec'[x].steps[t].status = rec[x].steps[t].status
  /\ OthersOut(p, x)

LEMMA SavedStep ==
  ASSUME SendInv, NEW p \in Pages, NEW x \in Execs, NEW s \in StepIds,
         NEW status, NEW n, NEW r, r = WithStep(rec[x], s, status, n), NEW o, Save(p, x, r, o)
  PROVE  StepSaved(p, x, s, status) /\ op'[p][x] = o
<1>1. TypeOK /\ rec[x] \in Record
  BY Facts
<1>2. rec'[x] = WithStep(rec[x], s, status, n) /\ op'[p][x] = o /\ OthersOut(p, x)
  BY <1>1, SavedCall, SavedOthersOut
<1> QED BY <1>1, <1>2, WithStepLemma DEF StepSaved

LEMMA BuildOK ==
  ASSUME SendInv, NEW p \in Pages, NEW x \in Execs, Build(p, x)
  PROVE  RecordStepOK(p, x) /\ LoopStepOK(p, x) /\ PromptStepOK(p, x)
<1>1. TypeOK /\ SendOK(x) /\ rec[x] \in Record
  BY Facts
<1>2. x \in fresh[p] /\ rec[x].state \in {"QUOTED", "AWAITING_SIGNATURE"}
  BY <1>1 DEF Build, Reached, SendOK, LoopOK, FreshOK, InLoop, Current
<1>3. /\ rec'[x].state = "AWAITING_SIGNATURE" /\ rec'[x].steps = rec[x].steps
      /\ op'[p][x].pc = "stepping"
  <2>1. CASE rec[x].state = "QUOTED"
    <3>1. Move(p, x, rec[x], "AWAITING_SIGNATURE", At("stepping", First, 0))
      BY <2>1 DEF Build
    <3>2. rec'[x] = [rec[x] EXCEPT !.state = "AWAITING_SIGNATURE"] /\ op'[p][x].pc = "stepping"
      BY <1>1, <3>1, SavedCall DEF Move, At
    <3> QED BY <1>1, <3>2 DEF Record
  <2>2. CASE rec[x].state # "QUOTED"
    BY <1>1, <1>2, <2>2, ContinuedCall DEF Build, At
  <2> QED BY <2>1, <2>2
<1>4. RecordStepOK(p, x)
  BY <1>1, <1>2, <1>3 DEF RecordStepOK, Status, SendOK, UnsentOK
<1>5. LoopStepOK(p, x) /\ PromptStepOK(p, x)
  BY <1>2, <1>3 DEF LoopStepOK, PromptStepOK, Asking
<1> QED BY <1>4, <1>5

LEMMA StepPrepaidOK ==
  ASSUME SendInv, NEW p \in Pages, NEW x \in Execs, StepPrepaid(p, x)
  PROVE  RecordStepOK(p, x) /\ LoopStepOK(p, x) /\ PromptStepOK(p, x)
<1>0. PICK s \in StepIds : s = op[p][x].step
  BY Facts
<1>1. TypeOK /\ SendOK(x) /\ s \in StepIds \ {"mint"}
  BY <1>0, Facts DEF StepPrepaid, Reached
<1>2. rec[x].state = "AWAITING_SIGNATURE" /\ x \in fresh[p]
  BY <1>0, <1>1 DEF StepPrepaid, Reached, SendOK, LoopOK, FreshOK, InLoop, Current
<1>3. Save(p, x, WithStep(rec[x], s, "confirmed", 0), AfterStep(s))
  BY <1>0 DEF StepPrepaid
<1>4. /\ StepSaved(p, x, s, "confirmed")
      /\ op'[p][x] = AfterStep(s)
  BY <1>1, <1>3, SavedStep
<1>5. Alone(p, x, s)
  BY <1>1, <1>2, LoopAlone
<1>6. RecordStepOK(p, x)
  BY <1>1, <1>4, <1>5 DEF RecordStepOK, StepSaved, StateKept, Status, SendOK, UnsentOK
<1>7. AfterStep(s).pc \in {"idle", "stepping"}
  BY DEF AfterStep, Idle, At
<1>8. LoopStepOK(p, x) /\ PromptStepOK(p, x)
  BY <1>2, <1>4, <1>7 DEF LoopStepOK, PromptStepOK, StepSaved, Status, Asking
<1> QED BY <1>6, <1>8

LEMMA MarkSendingOK ==
  ASSUME SendInv, NEW p \in Pages, NEW x \in Execs, MarkSending(p, x)
  PROVE  RecordStepOK(p, x) /\ LoopStepOK(p, x) /\ PromptStepOK(p, x)
<1>0. PICK s \in StepIds : s = op[p][x].step
  BY Facts
<1>1. TypeOK /\ SendOK(x) /\ s \in StepIds \ {"mint"}
  BY <1>0, Facts DEF MarkSending, Reached, SendOK, FreshOK
<1>2. /\ rec[x].state = "AWAITING_SIGNATURE" /\ x \in fresh[p]
      /\ Status(x, s) \in {"none", "pending"}
  BY <1>0, <1>1 DEF MarkSending, Reached, SendOK, LoopOK, FreshOK, BeforePromptOK, InLoop, Current
<1>3. Save(p, x, WithStep(rec[x], s, "sending", 0), At("asking", s, 0))
  BY <1>0 DEF MarkSending
<1>4. /\ StepSaved(p, x, s, "sending")
      /\ op'[p][x].pc = "asking" /\ op'[p][x].step = s
  BY <1>1, <1>3, SavedStep DEF At
<1>5. Alone(p, x, s) /\ Live(x, s) = {}
  BY <1>1, <1>2, LoopAlone DEF SendOK, UnsentOK
<1>6. RecordStepOK(p, x)
  BY <1>1, <1>4 DEF RecordStepOK, StepSaved, StateKept, Status, SendOK, UnsentOK
<1>7. LoopStepOK(p, x) /\ PromptStepOK(p, x)
  BY <1>2, <1>4, <1>5 DEF LoopStepOK, PromptStepOK, StepSaved, Status, Asking
<1> QED BY <1>6, <1>7

LEMMA WalletRefusesOK ==
  ASSUME SendInv, NEW p \in Pages, NEW x \in Execs, WalletRefuses(p, x)
  PROVE  RecordStepOK(p, x) /\ LoopStepOK(p, x) /\ PromptStepOK(p, x)
<1>0. PICK s \in StepIds : s = op[p][x].step
  BY Facts
<1>1. TypeOK /\ SendOK(x) /\ s \in StepIds /\ Asking(p, x, s)
  BY <1>0, Facts DEF WalletRefuses, Asking
<1>2. Alone(p, x, s) /\ Live(x, s) = {}
  BY <1>1, FollowerAlone DEF SendOK, PromptOK, Asking
<1>3. CASE Continue(p, x, Idle)
  <2>1. rec'[x] = rec[x] /\ op'[p][x].pc = "idle"
    BY <1>1, <1>3, ContinuedCall DEF Idle
  <2>2. RecordStepOK(p, x)
    BY <1>1, <2>1 DEF RecordStepOK, StateKept, Status, SendOK, UnsentOK
  <2> QED BY <2>1, <2>2 DEF LoopStepOK, PromptStepOK, StepSaved, Status, Asking, InLoop
<1>4. ASSUME ~op[p][x].stale, NEW o, Save(p, x, WithStep(rec[x], s, "pending", 0), o),
             o = Idle \/ (o = At("declined", s, 0) /\ s # "mint")
      PROVE  RecordStepOK(p, x) /\ LoopStepOK(p, x) /\ PromptStepOK(p, x)
  <2>1. /\ StepSaved(p, x, s, "pending")
        /\ op'[p][x] = o
    BY <1>1, <1>4, SavedStep
  <2>2. RecordStepOK(p, x)
    BY <1>1, <1>2, <2>1 DEF RecordStepOK, StepSaved, StateKept, Status, SendOK, UnsentOK
  <2>3. s # "mint" => rec[x].state = "AWAITING_SIGNATURE" /\ x \in fresh[p]
    BY <1>1, <1>4 DEF SendOK, LoopOK, FreshOK, InLoop, Current, Asking
  <2> QED BY <1>4, <2>1, <2>2, <2>3 DEF LoopStepOK, PromptStepOK, StepSaved, Status, Asking, InLoop, Idle, At
<1> QED BY <1>0, <1>3, <1>4 DEF WalletRefuses

LEMMA BackToQuotedOK ==
  ASSUME SendInv, NEW p \in Pages, NEW x \in Execs, BackToQuoted(p, x)
  PROVE  RecordStepOK(p, x) /\ LoopStepOK(p, x) /\ PromptStepOK(p, x)
<1>1. TypeOK /\ SendOK(x) /\ rec[x] \in Record
  BY Facts
<1>2. x \in fresh[p]
  BY <1>1 DEF BackToQuoted, Reached, SendOK, FreshOK, InLoop
<1>3. rec'[x] = [rec[x] EXCEPT !.state = "QUOTED"] /\ op'[p][x].pc = "idle"
  BY <1>1, SavedCall DEF BackToQuoted, Move, Idle
<1>4. rec'[x].state = "QUOTED" /\ rec'[x].steps = rec[x].steps
  BY <1>1, <1>3 DEF Record
<1>5. RecordStepOK(p, x)
  BY <1>1, <1>2, <1>4 DEF RecordStepOK, Status, SendOK, UnsentOK
<1> QED BY <1>3, <1>5 DEF LoopStepOK, PromptStepOK, StepSaved, Status, Asking, InLoop

LEMMA SaveSubmittedOK ==
  ASSUME SendInv, NEW p \in Pages, NEW x \in Execs, SaveSubmitted(p, x)
  PROVE  RecordStepOK(p, x) /\ LoopStepOK(p, x) /\ PromptStepOK(p, x)
<1>0. PICK s \in StepIds : s = op[p][x].step
  BY Facts
<1>1. TypeOK /\ SendOK(x) /\ op[p][x].pc = "sent" /\ Current(p, x)
  BY Facts DEF SaveSubmitted, Reached, Current
<1>2. PICK n \in TxNo : n = op[p][x].tx
  BY Facts
<1>3. Save(p, x, WithStep(rec[x], s, "submitted", n),
           At(IF s = Last THEN "moving" ELSE "waiting", s, n))
  BY <1>0, <1>2 DEF SaveSubmitted
<1>4. /\ StepSaved(p, x, s, "submitted")
      /\ op'[p][x] = At(IF s = Last THEN "moving" ELSE "waiting", s, n)
  BY <1>1, <1>3, SavedStep
<1>5. Alone(p, x, s)
  BY <1>0, <1>1, FollowerAlone
<1>6. RecordStepOK(p, x)
  BY <1>1, <1>4 DEF RecordStepOK, StepSaved, StateKept, Status, SendOK, UnsentOK
<1>7. s # "mint" => rec[x].state = "AWAITING_SIGNATURE" /\ x \in fresh[p]
  BY <1>0, <1>1 DEF SendOK, LoopOK, FreshOK, InLoop, Current
<1>8. s = "mint" => Live(x, "mint") \subseteq {n}
  BY <1>0, <1>1, <1>2 DEF SendOK, ClaimOK
<1>9. LoopStepOK(p, x)
  BY <1>4, <1>7, LastLemma DEF LoopStepOK, StepSaved, InLoop, At
<1>10. PromptStepOK(p, x)
  BY <1>4, <1>5, <1>8 DEF PromptStepOK, Asking, At
<1> QED BY <1>6, <1>9, <1>10

LEMMA MoveToSubmittedOK ==
  ASSUME SendInv, NEW p \in Pages, NEW x \in Execs, MoveToSubmitted(p, x)
  PROVE  RecordStepOK(p, x) /\ LoopStepOK(p, x) /\ PromptStepOK(p, x)
<1>1. TypeOK /\ SendOK(x) /\ rec[x] \in Record /\ op[p][x].tx \in TxNo
  BY Facts
<1>2. op[p][x].step = Last /\ x \in fresh[p]
  BY <1>1 DEF MoveToSubmitted, Reached, SendOK, FreshOK, InLoop
<1>3. PICK n \in TxNo : n = op[p][x].tx
  BY <1>1
<1>4. /\ rec'[x] = [[rec[x] EXCEPT !.executionId = n] EXCEPT !.state = "SOURCE_SUBMITTED"]
      /\ op'[p][x] = At("waiting", Last, n)
  BY <1>1, <1>2, <1>3, SavedCall DEF MoveToSubmitted, Move
<1>5. rec'[x].state = "SOURCE_SUBMITTED" /\ rec'[x].steps = rec[x].steps
  BY <1>1, <1>4 DEF Record
<1>6. Alone(p, x, Last)
  BY <1>2, LoopAlone, LastLemma
<1>7. RecordStepOK(p, x)
  BY <1>1, <1>2, <1>5 DEF RecordStepOK, Status, SendOK, UnsentOK
<1>8. LoopStepOK(p, x) /\ PromptStepOK(p, x)
  BY <1>4, <1>6, LastLemma DEF LoopStepOK, PromptStepOK, Asking, InLoop, At
<1> QED BY <1>7, <1>8

LEMMA SeeConfirmedOK ==
  ASSUME SendInv, NEW p \in Pages, NEW x \in Execs, SeeConfirmed(p, x)
  PROVE  RecordStepOK(p, x) /\ LoopStepOK(p, x) /\ PromptStepOK(p, x)
<1>0. PICK s \in StepIds : s = op[p][x].step
  BY Facts
<1>1. TypeOK /\ SendOK(x) /\ op[p][x].pc = "waiting" /\ Current(p, x)
  BY Facts DEF SeeConfirmed, Reached, Current
<1>2. PICK n \in TxNo : n = op[p][x].tx
  BY Facts
<1>3. Save(p, x, WithStep(rec[x], s, "confirmed", n),
           IF s = "mint" THEN Idle ELSE At("settled", s, n))
  BY <1>0, <1>2 DEF SeeConfirmed
<1>4. /\ StepSaved(p, x, s, "confirmed")
      /\ op'[p][x] = IF s = "mint" THEN Idle ELSE At("settled", s, n)
  BY <1>1, <1>3, SavedStep
<1>5. Alone(p, x, s)
  BY <1>0, <1>1, FollowerAlone
<1>6. RecordStepOK(p, x)
  BY <1>1, <1>4, <1>5 DEF RecordStepOK, StepSaved, StateKept, Status, SendOK, UnsentOK
<1>7. s \notin {"mint", Last} => rec[x].state = "AWAITING_SIGNATURE" /\ x \in fresh[p]
  BY <1>0, <1>1 DEF SendOK, LoopOK, FreshOK, InLoop, Current
<1>8. LoopStepOK(p, x) /\ PromptStepOK(p, x)
  BY <1>4, <1>7 DEF LoopStepOK, PromptStepOK, StepSaved, Asking, InLoop, At, Idle
<1> QED BY <1>6, <1>8

LEMMA SeeFailedOK ==
  ASSUME SendInv, NEW p \in Pages, NEW x \in Execs, SeeFailed(p, x)
  PROVE  RecordStepOK(p, x) /\ LoopStepOK(p, x) /\ PromptStepOK(p, x)
<1>0. PICK s \in StepIds : s = op[p][x].step
  BY Facts
<1>1. TypeOK /\ SendOK(x) /\ op[p][x].pc = "waiting" /\ Current(p, x)
  BY Facts DEF SeeFailed, Reached, Current
<1>2. PICK n \in TxNo : n = op[p][x].tx
  BY Facts
<1>3. Save(p, x, WithStep(rec[x], s, "failed", n),
           IF s = "mint" THEN Idle ELSE At("stepFailed", s, n))
  BY <1>0, <1>2 DEF SeeFailed
<1>4. /\ StepSaved(p, x, s, "failed")
      /\ op'[p][x] = IF s = "mint" THEN Idle ELSE At("stepFailed", s, n)
  BY <1>1, <1>3, SavedStep
<1>5. Alone(p, x, s)
  BY <1>0, <1>1, FollowerAlone
<1>6. s = "mint" => Live(x, s) = {}
  BY <1>0, <1>1, <1>2 DEF SeeFailed, SendOK, ClaimOK, Live
<1>7. RecordStepOK(p, x)
  BY <1>1, <1>4, <1>5, <1>6 DEF RecordStepOK, StepSaved, StateKept, Status, SendOK, UnsentOK
<1>8. LoopStepOK(p, x) /\ PromptStepOK(p, x)
  BY <1>4 DEF LoopStepOK, PromptStepOK, Asking, InLoop, At, Idle
<1> QED BY <1>7, <1>8

LEMMA ClaimBuiltOK ==
  ASSUME SendInv, NEW p \in Pages, NEW x \in Execs, ClaimBuilt(p, x)
  PROVE  RecordStepOK(p, x) /\ LoopStepOK(p, x) /\ PromptStepOK(p, x)
<1>1. TypeOK /\ SendOK(x) /\ "mint" \in StepIds
  BY Facts, OpLemma
<1>2. Status(x, "mint") \in {"none", "pending", "failed"}
  BY <1>1 DEF ClaimBuilt, Reached, SendOK, BeforePromptOK, Current
<1>3. Live(x, "mint") = {} /\ Alone(p, x, "mint")
  BY <1>1, <1>2 DEF SendOK, UnsentOK, PromptOK, Alone
<1>4. Save(p, x, WithStep(rec[x], "mint", "sending", 0), At("asking", "mint", 0))
  BY DEF ClaimBuilt
<1>5. StepSaved(p, x, "mint", "sending") /\ op'[p][x] = At("asking", "mint", 0)
  BY <1>1, <1>4, SavedStep
<1>6. RecordStepOK(p, x)
  BY <1>1, <1>5 DEF RecordStepOK, StepSaved, StateKept, Status, SendOK, UnsentOK
<1>7. LoopStepOK(p, x) /\ PromptStepOK(p, x)
  BY <1>3, <1>5 DEF LoopStepOK, PromptStepOK, StepSaved, Status, Asking, InLoop, At
<1> QED BY <1>6, <1>7

LEMMA AnswerOK ==
  ASSUME SendInv, NEW p \in Pages, NEW x \in Execs, Answer(p, x)
  PROVE  RecordStepOK(p, x) /\ LoopStepOK(p, x) /\ PromptStepOK(p, x)
<1>1. TypeOK /\ SendOK(x) /\ rec[x] \in Record
  BY Facts
<1>2. PICK s \in StepIds, status \in {"submitted", "pending"}, n \in TxNo :
        /\ Save(p, x, Answered(rec[x], s, status, n), Idle)
        /\ status = "pending" => Live(x, s) = {} /\ ~PromptOpen(x, s)
  BY BoundsAssumption DEF Answer, ResolveSent, ResolveNotSent, TxNo
<1>3. rec'[x] = Answered(rec[x], s, status, n) /\ op'[p][x].pc = "idle"
  BY <1>1, <1>2, SavedCall DEF Idle
<1>4. /\ rec'[x].state = rec[x].state
      /\ rec'[x].steps[s].status = status
      /\ \A t \in StepIds : t # s => rec'[x].steps[t] = rec[x].steps[t]
  BY <1>1, <1>3 DEF Answered, WithStep, Record
<1>5. status = "pending" => Alone(p, x, s)
  BY <1>2 DEF PromptOpen, Alone, Asking
<1>6. RecordStepOK(p, x)
  BY <1>1, <1>2, <1>4, <1>5 DEF RecordStepOK, StateKept, Status, SendOK, UnsentOK
<1>7. LoopStepOK(p, x) /\ PromptStepOK(p, x)
  BY <1>3 DEF LoopStepOK, PromptStepOK, Asking, InLoop
<1> QED BY <1>6, <1>7

-----------------------------------------------------------------------------
(* The steps that send, accept a quote, or are nobody's call.              *)

LEMMA SentStep ==
  ASSUME SendInv, NEW p \in Pages, NEW x \in Execs, NEW s \in StepIds,
         NEW n \in 1..MaxSends, Asking(p, x, s), OthersKeep(p, x),
         chain' = [chain EXCEPT ![x][s][n] = "inflight"], fresh' = fresh,
         rec'[x].steps = rec[x].steps, rec'[x].state = rec[x].state,
         \/ op'[p][x].pc = "idle"
         \/ /\ op'[p][x].pc = "sent" /\ op'[p][x].step = s /\ op'[p][x].tx = n
            /\ op'[p][x].stale = op[p][x].stale
  PROVE  SendOK(x)'
<1>1. TypeOK /\ SendOK(x) /\ "mint" \in StepIds
  BY Facts, OpLemma
<1>2. Live(x, s) = {} /\ Alone(p, x, s)
  BY <1>1, FollowerAlone DEF SendOK, PromptOK, Asking
<1>3. Live(x, s)' = {n} /\ \A t \in StepIds : t # s => Live(x, t)' = Live(x, t)
  <2>1. chain'[x] = [chain[x] EXCEPT ![s][n] = "inflight"]
    BY <1>1 DEF TypeOK
  <2>2. chain[x] \in [StepIds -> [1..MaxSends -> TxStatuses]]
    BY <1>1 DEF TypeOK
  <2>3. \A t \in StepIds : t # s => chain'[x][t] = chain[x][t]
    BY <2>1, <2>2
  <2>4. chain'[x][s] = [chain[x][s] EXCEPT ![n] = "inflight"]
    BY <2>1, <2>2
  <2>5. \A m \in 1..MaxSends :
          chain'[x][s][m] = IF m = n THEN "inflight" ELSE chain[x][s][m]
    <3>1. chain[x][s] \in [1..MaxSends -> TxStatuses]
      BY <2>2
    <3> QED BY <2>4, <3>1
  <2> QED BY <1>2, <2>3, <2>5 DEF Live
<1>4. \A t : Status(x, t)' = Status(x, t)
  BY DEF Status
<1>5. \A q \in Pages : q # p => /\ InLoop(q, x)' <=> InLoop(q, x)
                                /\ \A t : Asking(q, x, t)' <=> Asking(q, x, t)
  BY DEF OthersKeep, InLoop, Asking
<1>6. /\ InLoop(p, x)' => InLoop(p, x) /\ op'[p][x].stale = op[p][x].stale
      /\ op'[p][x].pc \notin {"asking", "preflight", "moving", "claiming", "creating", "building"}
  BY DEF InLoop, Asking
<1>7. FreshOK(x)'
  BY <1>1, <1>5, <1>6 DEF SendOK, FreshOK, OthersKeep
<1>8. LoopOK(x)'
  <2>1. op[p][x].pc \notin {"building", "creating"}
    BY DEF Asking
  <2>2. \A q \in Pages : q # p /\ InLoop(q, x) => op[q][x].pc # "idle"
    BY DEF InLoop
  <2> QED BY <1>1, <1>5, <1>6, <2>1, <2>2 DEF SendOK, LoopOK, OthersKeep, Current
<1>9. PromptOK(x)'
  <2> SUFFICES ASSUME NEW q \in Pages, NEW t \in StepIds, Asking(q, x, t)'
               PROVE  /\ Live(x, t)' = {}
                      /\ Status(x, t)' \in {"sending", "submitted"}
                      /\ t # "mint" => rec'[x].state \in {"AWAITING_SIGNATURE", "EXPIRED", "FAILED"}
                      /\ \A r \in Pages : r # q /\ op'[r][x].step = t =>
                           /\ op'[r][x].pc # "asking"
                           /\ op'[r][x].pc \in {"sent", "waiting"} => ~Current(r, x)'
    BY DEF PromptOK
  <2>1. q # p /\ Asking(q, x, t)
    BY <1>5, <1>6 DEF Asking
  <2>2. t # s
    BY <1>2, <2>1 DEF Alone
  <2>3. /\ Live(x, t)' = {}
        /\ Status(x, t)' \in {"sending", "submitted"}
        /\ t # "mint" => rec'[x].state \in {"AWAITING_SIGNATURE", "EXPIRED", "FAILED"}
    BY <1>1, <1>3, <1>4, <2>1, <2>2 DEF SendOK, PromptOK
  <2>4. ASSUME NEW r \in Pages, r # q, op'[r][x].step = t
        PROVE  /\ op'[r][x].pc # "asking"
               /\ op'[r][x].pc \in {"sent", "waiting"} => ~Current(r, x)'
    <3>1. CASE r = p
      BY <1>6, <2>2, <2>4, <3>1
    <3>2. CASE r # p
      BY <1>1, <2>1, <2>4, <3>2 DEF SendOK, PromptOK, OthersKeep, Current
    <3> QED BY <3>1, <3>2
  <2> QED BY <2>3, <2>4
<1>10. BeforePromptOK(x)'
  <2>1. \A q \in Pages : op[q][x].step \in StepIds
    BY Facts
  <2> QED BY <1>1, <1>4, <1>6, <2>1 DEF SendOK, BeforePromptOK, OthersKeep, Current
<1>11. UnsentOK(x)'
  <2>1. Status(x, s) \in {"sending", "submitted"}
    BY <1>1 DEF SendOK, PromptOK
  <2> QED BY <1>1, <1>3, <1>4, <2>1 DEF SendOK, UnsentOK
<1>12. ClaimOK(x)'
  <2> SUFFICES ASSUME NEW q \in Pages, Current(q, x)', op'[q][x].pc \in {"sent", "waiting"},
                      op'[q][x].step = "mint"
               PROVE  Live(x, "mint")' \subseteq {op'[q][x].tx}
    BY DEF ClaimOK
  <2>1. CASE q = p
    BY <1>3, <2>1
  <2>2. CASE q # p
    <3>1. /\ op[q][x].pc \in {"sent", "waiting"} /\ op[q][x].step = "mint"
          /\ op[q][x].tx = op'[q][x].tx /\ Current(q, x)
      BY <2>2 DEF OthersKeep, Current
    <3>2. s # "mint"
      BY <1>1, <2>2, <3>1 DEF SendOK, PromptOK
    <3> QED BY <1>1, <1>3, <3>1, <3>2 DEF SendOK, ClaimOK
  <2> QED BY <2>1, <2>2
<1>13. OneLive(x)'
  BY <1>1, <1>3 DEF SendOK, OneLive
<1> QED BY <1>7, <1>8, <1>9, <1>10, <1>11, <1>12, <1>13 DEF SendOK

\* A step that sends nothing new, and leaves each call of x where it is or ends
\* it together with its quote: crashes, clocks, and the chains.
LEMMA RestStep ==
  ASSUME SendInv, NEW x \in Execs, rec'[x] = rec[x],
         \A s \in StepIds : Live(x, s)' \subseteq Live(x, s),
         \A p \in Pages :
           \/ op'[p][x] = op[p][x] /\ (x \in fresh'[p] <=> x \in fresh[p])
           \/ op'[p][x] = Idle /\ x \notin fresh'[p]
  PROVE  SendOK(x)'
<1>1. TypeOK /\ SendOK(x) /\ "mint" \in StepIds
  BY Facts, OpLemma DEF SendInv, TypeInv
<1>2. \A t : Status(x, t)' = Status(x, t)
  BY DEF Status
<1>3. Idle.pc = "idle"
  BY DEF Idle
<1>4. FreshOK(x)'
  BY <1>1, <1>3 DEF SendOK, FreshOK, InLoop
<1>5. LoopOK(x)'
  BY <1>1, <1>3 DEF SendOK, LoopOK, InLoop, Current
<1>6. PromptOK(x)'
  BY <1>1, <1>2, <1>3 DEF SendOK, PromptOK, Asking, Current
<1>7. BeforePromptOK(x)'
  BY <1>1, <1>2, <1>3 DEF SendOK, BeforePromptOK, Status, Current
<1>8. UnsentOK(x)' /\ OneLive(x)'
  BY <1>1, <1>2 DEF SendOK, UnsentOK, OneLive
<1>9. ClaimOK(x)'
  BY <1>1, <1>3 DEF SendOK, ClaimOK, Current
<1> QED BY <1>4, <1>5, <1>6, <1>7, <1>8, <1>9 DEF SendOK

LEMMA CreateOK ==
  ASSUME SendInv, NEW p \in Pages, NEW x \in Execs, Create(p, x)
  PROVE  SendOK(x)'
<1>1. TypeOK /\ SendOK(x) /\ rec[x] \in Record /\ "mint" \in StepIds
  BY Facts, OpLemma
<1>2. rec[x].state = "none" /\ fresh' = [fresh EXCEPT ![p] = @ \cup {x}] /\ chain' = chain
  BY DEF Create
<1>3. /\ rec'[x] = [rec[x] EXCEPT !.state = "CREATED"]
      /\ op'[p][x] = At("creating", First, 0) /\ OthersOut(p, x)
  BY <1>1, SavedCall, SavedOthersOut DEF Create
<1>4. /\ rec'[x].state = "CREATED" /\ rec'[x].steps = rec[x].steps
      /\ op'[p][x].pc = "creating"
  BY <1>1, <1>3 DEF Record, At
<1>5. OthersKeep(p, x)
  BY PageStepGoes, GoesKeeps DEF SendInv, PageStep
<1>6. \A q \in Pages : x \notin fresh[q] /\ (x \in fresh'[q] <=> q = p)
  BY <1>1, <1>2 DEF SendOK, FreshOK, TypeOK
<1>7. \A q \in Pages : q # p => /\ ~InLoop(q, x)' /\ ~InLoop(q, x)
                                /\ \A t : Asking(q, x, t)' <=> Asking(q, x, t)
  BY <1>1, <1>5, <1>6 DEF OthersKeep, InLoop, Asking, SendOK, FreshOK
<1>8. \A t : Status(x, t)' = Status(x, t) /\ Live(x, t)' = Live(x, t)
  BY <1>2, <1>4 DEF Status, Live
<1>9. FreshOK(x)'
  BY <1>1, <1>4, <1>5, <1>6, <1>7 DEF SendOK, FreshOK, OthersKeep
<1>10. LoopOK(x)'
  BY <1>4, <1>7 DEF LoopOK
<1>11. PromptOK(x)'
  BY <1>1, <1>2, <1>4, <1>5, <1>7, <1>8 DEF SendOK, PromptOK, Asking, OthersKeep, Current
<1>12. BeforePromptOK(x)'
  BY <1>1, <1>3, <1>4, <1>5 DEF SendOK, BeforePromptOK, OthersOut, OthersKeep, Current
<1>13. UnsentOK(x)' /\ OneLive(x)'
  BY <1>1, <1>8 DEF SendOK, UnsentOK, OneLive
<1>14. ClaimOK(x)'
  BY <1>1, <1>4, <1>5, <1>8 DEF SendOK, ClaimOK, OthersKeep, Current
<1> QED BY <1>9, <1>10, <1>11, <1>12, <1>13, <1>14 DEF SendOK

LEMMA WalletSendsOK ==
  ASSUME SendInv, NEW p \in Pages, NEW x \in Execs, WalletSends(p, x)
  PROVE  SendOK(x)'
<1>0. PICK s \in StepIds : s = op[p][x].step
  BY Facts
<1>1. TypeOK /\ op[p][x] \in Op /\ Asking(p, x, s) /\ fresh' = fresh
  BY <1>0, Facts DEF WalletSends, Asking
<1>2. PICK n \in 1..MaxSends :
        /\ chain' = [chain EXCEPT ![x][s][n] = "inflight"]
        /\ Continue(p, x, [op[p][x] EXCEPT !.pc = "sent", !.tx = n])
  BY <1>0 DEF WalletSends
<1>3. rec'[x] = rec[x] /\ op'[p][x] = [op[p][x] EXCEPT !.pc = "sent", !.tx = n]
  BY <1>1, <1>2, ContinuedCall
<1>4. /\ op'[p][x].pc = "sent" /\ op'[p][x].step = s /\ op'[p][x].tx = n
      /\ op'[p][x].stale = op[p][x].stale
  BY <1>0, <1>1, <1>3 DEF Op
<1>5. OthersKeep(p, x)
  BY PageStepGoes, GoesKeeps DEF SendInv, PageStep, Resumes
<1> QED BY <1>1, <1>2, <1>3, <1>4, <1>5, SentStep

LEMMA WalletUnclearOK ==
  ASSUME SendInv, NEW p \in Pages, NEW x \in Execs, WalletUnclear(p, x)
  PROVE  SendOK(x)'
<1>0. PICK s \in StepIds : s = op[p][x].step
  BY Facts
<1>1. TypeOK /\ rec[x] \in Record /\ Asking(p, x, s) /\ fresh' = fresh
  BY <1>0, Facts DEF WalletUnclear, Asking
<1>2. \/ Continue(p, x, Idle)
      \/ Save(p, x, Flagged(rec[x]), Idle)
  BY DEF WalletUnclear
<1>3. /\ rec'[x] = rec[x] \/ rec'[x] = Flagged(rec[x])
      /\ op'[p][x] = Idle
  BY <1>1, <1>2, ContinuedCall, SavedCall
<1>4. rec'[x].steps = rec[x].steps /\ rec'[x].state = rec[x].state /\ op'[p][x].pc = "idle"
  BY <1>1, <1>3 DEF Flagged, Record, Idle
<1>5. OthersKeep(p, x)
  BY PageStepGoes, GoesKeeps DEF SendInv, PageStep, Resumes
<1>6. CASE chain' = chain
  <2>1. op'[p][x].pc \in QuietPlaces /\ StateKept(p, x)
    BY <1>4 DEF QuietPlaces, StateKept
  <2> QED BY <1>1, <1>4, <1>5, <1>6, <2>1, QuietStep
<1>7. ASSUME NEW n \in 1..MaxSends, chain' = [chain EXCEPT ![x][s][n] = "inflight"]
      PROVE  SendOK(x)'
  BY <1>1, <1>4, <1>5, <1>7, SentStep
<1> QED BY <1>0, <1>6, <1>7 DEF WalletUnclear

-----------------------------------------------------------------------------
(* The invariant is inductive.                                             *)

LoopAction(p, x) ==
  \/ StartBuild(p, x) \/ Build(p, x) \/ StepConfirmedBefore(p, x)
  \/ StepSubmittedBefore(p, x) \/ StepPrepaid(p, x) \/ StepBegins(p, x)
  \/ MarkSending(p, x) \/ WalletRefuses(p, x) \/ BackToQuoted(p, x)
  \/ SaveSubmitted(p, x) \/ MoveToSubmitted(p, x) \/ SeeConfirmed(p, x)
  \/ SeeFailed(p, x) \/ TimeOut(p, x) \/ SettleEarlier(p, x) \/ ResumeWaiting(p, x)
  \/ Claim(p, x) \/ ClaimBuilt(p, x) \/ Answer(p, x)

LEMMA PageActions ==
  ASSUME NEW p \in Pages, NEW x \in Execs, PageStep(p, x)
  PROVE  \/ QuietAction(p, x) \/ LoopAction(p, x) \/ Create(p, x)
         \/ WalletSends(p, x) \/ WalletUnclear(p, x)
BY DEF PageStep, StartCall, ClaimCall, Resumes, QuietAction, LoopAction

LEMMA LoopActionsKeep ==
  ASSUME NEW p \in Pages, NEW x \in Execs, LoopAction(p, x)
  PROVE  fresh' = fresh /\ chain' = chain
BY DEF LoopAction, StartBuild, Build, StepConfirmedBefore, StepSubmittedBefore, StepPrepaid,
   StepBegins, MarkSending, WalletRefuses, BackToQuoted, SaveSubmitted, MoveToSubmitted,
   SeeConfirmed, SeeFailed, TimeOut, SettleEarlier, ResumeWaiting, Claim, ClaimBuilt, Answer,
   ResolveSent, ResolveNotSent

LEMMA PageSendStep ==
  ASSUME SendInv, NEW p \in Pages, NEW x \in Execs, PageStep(p, x)
  PROVE  SendOK(x)'
<1>1. OthersKeep(p, x)
  BY PageStepGoes, GoesKeeps DEF SendInv
<1>2. CASE QuietAction(p, x)
  BY <1>1, <1>2, QuietActions, QuietStep DEF Quiet
<1>3. CASE LoopAction(p, x)
  <2>1. fresh' = fresh /\ chain' = chain
    BY <1>3, LoopActionsKeep
  <2>2. RecordStepOK(p, x) /\ LoopStepOK(p, x) /\ PromptStepOK(p, x)
    BY <1>3, StartBuildOK, BuildOK, StepConfirmedBeforeOK, StepSubmittedBeforeOK,
       StepPrepaidOK, StepBeginsOK, MarkSendingOK, WalletRefusesOK, BackToQuotedOK,
       SaveSubmittedOK, MoveToSubmittedOK, SeeConfirmedOK, SeeFailedOK, TimeOutOK, SettleEarlierOK,
       ResumeWaitingOK, ClaimOKStep, ClaimBuiltOK, AnswerOK DEF LoopAction
  <2> QED BY <1>1, <2>1, <2>2, LocalStep
<1> QED BY <1>2, <1>3, PageActions, CreateOK, WalletSendsOK, WalletUnclearOK

LEMMA EnvironmentSend ==
  ASSUME SendInv, Environment, NEW x \in Execs
  PROVE  SendOK(x)'
<1>1. TypeOK
  BY DEF SendInv, TypeInv
<1>2. ASSUME NEW p \in Pages, Crash(p) PROVE SendOK(x)'
  <2>1. /\ rec' = rec /\ chain' = chain
        /\ op' = [op EXCEPT ![p] = [y \in Execs |-> Idle]]
        /\ fresh' = [fresh EXCEPT ![p] = {}]
    BY <1>2 DEF Crash
  <2>2. \A q \in Pages :
          \/ op'[q][x] = op[q][x] /\ (x \in fresh'[q] <=> x \in fresh[q])
          \/ op'[q][x] = Idle /\ x \notin fresh'[q]
    BY <1>1, <2>1 DEF TypeOK
  <2>3. \A s \in StepIds : Live(x, s)' \subseteq Live(x, s)
    BY <2>1 DEF Live
  <2> QED BY <2>1, <2>2, <2>3, RestStep
<1>3. ASSUME UNCHANGED <<rec, op, fresh, chain>> PROVE SendOK(x)'
  <2>1. \A s \in StepIds : Live(x, s)' \subseteq Live(x, s)
    BY <1>3 DEF Live
  <2> QED BY <1>3, <2>1, RestStep
<1>4. ASSUME NEW y \in Execs, NEW t \in StepIds, NEW n \in 1..MaxSends, Lands(y, t, n)
      PROVE  SendOK(x)'
  <2>1. UNCHANGED <<rec, op, fresh>> /\ chain[y][t][n] = "inflight"
    BY <1>4 DEF Lands
  <2>2. PICK outcome \in TxStatuses : chain' = [chain EXCEPT ![y][t][n] = outcome]
    BY <1>4 DEF Lands, TxStatuses
  <2>3. \A s \in StepIds, m \in 1..MaxSends :
          chain'[x][s][m] = chain[x][s][m] \/ chain[x][s][m] = "inflight"
    BY <1>1, <2>1, <2>2 DEF TypeOK
  <2>4. \A s \in StepIds : Live(x, s)' \subseteq Live(x, s)
    BY <2>3 DEF Live
  <2> QED BY <2>1, <2>4, RestStep
<1> QED BY <1>2, <1>3, <1>4 DEF Environment, LedgerLapses, QuoteLapses, SettlementEnds

LEMMA SendStep == SendInv /\ [Next]_vars => SendInv'
<1> SUFFICES ASSUME SendInv, [Next]_vars PROVE SendInv'
  OBVIOUS
<1>1. TypeInv'
  BY TypeStep DEF SendInv
<1>2. ASSUME NEW x \in Execs PROVE SendOK(x)'
  <2>1. ASSUME NEW p \in Pages, NEW y \in Execs, PageStep(p, y) PROVE SendOK(x)'
    BY <1>2, <2>1, PageSendStep, OtherExecutions
  <2>2. CASE Environment
    BY <1>2, <2>2, EnvironmentSend
  <2>3. CASE UNCHANGED vars
    <3>1. \A s \in StepIds : Live(x, s)' \subseteq Live(x, s)
      BY <2>3 DEF vars, Live
    <3> QED BY <1>2, <2>3, <3>1, RestStep DEF vars
  <2> QED BY <2>1, <2>2, <2>3 DEF Next, PageStep
<1> QED BY <1>1, <1>2 DEF SendInv

LEMMA SendInit == Init => SendInv
<1> SUFFICES ASSUME Init, NEW x \in Execs PROVE SendOK(x)
  BY TypeInit DEF SendInv
<1>1. \A p \in Pages : op[p][x] = Idle /\ fresh[p] = {}
  BY DEF Init
<1>2. \A s \in StepIds : Live(x, s) = {}
  BY DEF Init, Live
<1>3. FreshOK(x) /\ LoopOK(x) /\ PromptOK(x) /\ BeforePromptOK(x) /\ ClaimOK(x)
  BY <1>1 DEF Idle, FreshOK, LoopOK, PromptOK, BeforePromptOK, ClaimOK, InLoop, Asking
<1>4. UnsentOK(x) /\ OneLive(x)
  BY <1>2 DEF UnsentOK, OneLive
<1> QED BY <1>3, <1>4 DEF SendOK

\* For any number of tabs, executions, steps, resends and crashes, no step of an
\* execution is ever on its way or done twice (orchestrator.ts: the saved
\* `sending` mark, the lock of `exclusive` and the store's version check).
THEOREM NoSecondSendAlways == Spec => []NoSecondSend
<1>1. Spec => []SendInv
  BY SendInit, SendStep, PTL DEF Spec
<1>2. SendInv => NoSecondSend
  BY DEF SendInv, SendOK, OneLive, NoSecondSend
<1> QED BY <1>1, <1>2, PTL

-----------------------------------------------------------------------------
(* An expired record is left alone.                                        *)

\* Nothing of an expired execution was sent, and no call on it can save any more.
LapsedOK(x) ==
  rec[x].state = "EXPIRED" =>
    /\ ~hasCommitted(rec[x])
    /\ \A p \in Pages : op[p][x].pc = "idle" \/ op[p][x].stale

\* Every call is refused by the state, by the version check or by the question
\* it would answer.
LEMMA LapsedStays ==
  ASSUME SendInv, NEW p \in Pages, NEW x \in Execs, LapsedOK(x), rec[x].state = "EXPIRED",
         PageStep(p, x)
  PROVE  rec'[x] = rec[x] /\ (op'[p][x].pc = "idle" \/ op'[p][x].stale)
<1>1. TypeOK /\ op[p][x].step \in StepIds
  BY DEF SendInv, TypeInv, TypeOK, Op
<1>2. \A s \in StepIds : Status(x, s) \in {"none", "pending"}
  BY DEF LapsedOK, hasCommitted, Status
<1>3. op[p][x].pc # "asking"
  BY <1>1, <1>2 DEF SendInv, SendOK, PromptOK, Asking
<1>4. op[p][x].pc = "idle" \/ op[p][x].stale
  BY DEF LapsedOK
<1>5. ~Create(p, x) /\ ~StartCall(p, x)
  BY DEF Create, StartCall, StartInterrupted, StartRetire, StartExpired, StartBuild,
     ResumeLost, ResumeWaiting, ResumeConfirmed, CanBegin, CanResume
<1>6. ~Advance(p, x) /\ ~ClaimCall(p, x) /\ ~Answer(p, x) /\ ~RecordRefund(p, x)
  BY <1>2 DEF Advance, ClaimCall, ClaimInterrupted, Claim, CanClaim, CanResume, Answer,
     ResolveSent, ResolveNotSent, Asked, RecordRefund, Move, Allowed, Final
<1>7. CASE Resumes(p, x)
  <2>1. SettleEarlier(p, x) \/ SettleBurn(p, x) \/ Conflict(p, x) \/ SaveFails(p, x)
    BY <1>3, <1>4, <1>7 DEF Resumes, Reached, Quote, BuildLapsed, BuildRefused, BuildEmpty, Build,
       StepFailedBefore, StepConfirmedBefore, StepSubmittedBefore, StepPrepaid, StepBegins,
       PreflightRefuses, MarkSending, WalletSends, WalletRefuses, WalletUnclear, BackToQuoted,
       SaveSubmitted, MoveToSubmitted, SeeConfirmed, SeeFailed, FailStep, TimeOut, MoveToPending,
       TrackedOpen, TrackedCompleted, Complete, TrackedFailed, ClaimRefused, ClaimBuilt
  <2>2. CASE SettleEarlier(p, x)
    <3>1. op[p][x].stale
      BY <1>4, <2>2 DEF SettleEarlier
    <3>2. op'[p][x] = [AfterStep(op[p][x].step) EXCEPT !.stale = op[p][x].stale] /\ rec'[x] = rec[x]
      BY <1>1, <2>2, ContinuedCall DEF SettleEarlier
    <3> QED BY <3>1, <3>2 DEF AfterStep, Idle, At
  <2>3. CASE SettleBurn(p, x)
    <3>1. Continue(p, x, Idle)
      BY <2>3 DEF SettleBurn
    <3> QED BY <1>1, <3>1, ContinuedCall DEF Idle
  <2>4. CASE Conflict(p, x) \/ SaveFails(p, x)
    BY <1>1, <2>4, ContinuedCall DEF Conflict, SaveFails, Idle
  <2> QED BY <2>1, <2>2, <2>3, <2>4
<1> QED BY <1>5, <1>6, <1>7 DEF PageStep

\* A record expires by a move that ends its call.
LEMMA Lapses ==
  ASSUME SendInv, NEW p \in Pages, NEW x \in Execs, PageStep(p, x),
         rec[x].state # "EXPIRED", rec'[x].state = "EXPIRED"
  PROVE  Move(p, x, rec[x], "EXPIRED", Idle)
<1>1. TypeOK /\ rec[x] \in Record /\ op[p][x].step \in StepIds /\ op[p][x].tx \in TxNo
      /\ "mint" \in StepIds /\ 0 \in TxNo /\ \A n \in 1..MaxSends : n \in TxNo
  <2>1. \A n \in 1..MaxSends : n \in TxNo
    BY BoundsAssumption DEF TxNo
  <2> QED BY <2>1, OpLemma DEF SendInv, TypeInv, TypeOK, Op
<1>2. rec'[x] # rec[x] /\ rec' # rec
  OBVIOUS
<1>3. ASSUME NEW s \in StepIds, NEW status \in StepStatuses, NEW n \in TxNo
      PROVE  /\ rec'[x] # WithStep(rec[x], s, status, n) /\ rec'[x] # Answered(rec[x], s, status, n)
             /\ rec'[x] # Flagged(rec[x])
  BY <1>1, KeepLemma
<1>4. ASSUME NEW r, NEW to, NEW o, Move(p, x, r, to, o), to # "EXPIRED",
             \/ r = rec[x]
             \/ \E why : r = WithFailure(rec[x], why)
             \/ \E n : r = [rec[x] EXCEPT !.executionId = n]
      PROVE  FALSE
  <2>1. rec'[x] = [r EXCEPT !.state = to]
    BY <1>1, <1>4, SavedRecord DEF Move
  <2> QED BY <1>1, <1>4, <2>1, KeepLemma
<1>5. {"pending", "sending", "submitted", "confirmed", "failed"} \subseteq StepStatuses
  BY DEF StepStatuses
<1>6. ~Create(p, x)
  <2>1. Create(p, x) => rec'[x] = [rec[x] EXCEPT !.state = "CREATED"]
    BY <1>1, SavedRecord DEF Create
  <2>2. [rec[x] EXCEPT !.state = "CREATED"].state = "CREATED"
    BY <1>1 DEF Record
  <2> QED BY <2>1, <2>2
<1>7. CASE StartCall(p, x) \/ Advance(p, x) \/ ClaimCall(p, x) \/ RecordRefund(p, x)
  <2>1. StartRetire(p, x) \/ StartExpired(p, x)
    <3>1. ~StartBuild(p, x) /\ ~Advance(p, x) /\ ~Claim(p, x)
      BY <1>2 DEF StartBuild, Advance, Claim, Continue
    <3>2. ~StartInterrupted(p, x) /\ ~ResumeLost(p, x) /\ ~ClaimInterrupted(p, x)
      <4>1. rec'[x] # Flagged(rec[x])
        BY <1>1, KeepLemma
      <4> QED BY <1>1, <4>1, SavedRecord DEF StartInterrupted, ResumeLost, ClaimInterrupted
    <3>3. ~ResumeConfirmed(p, x) /\ ~RecordRefund(p, x)
      BY <1>4 DEF ResumeConfirmed, RecordRefund
    <3>4. ~ResumeWaiting(p, x)
      BY <1>2, <1>4 DEF ResumeWaiting, Continue
    <3> QED BY <1>7, <3>1, <3>2, <3>3, <3>4 DEF StartCall, ClaimCall
  <2> QED BY <1>4, <2>1 DEF StartRetire, StartExpired, Fail
<1>8. ~Answer(p, x)
  BY <1>1, <1>3, <1>5, SavedRecord DEF Answer, ResolveSent, ResolveNotSent
<1>9. ASSUME Resumes(p, x) PROVE FALSE
  <2>1. CASE BuildRefused(p, x) \/ StepConfirmedBefore(p, x) \/ StepSubmittedBefore(p, x) \/
          StepBegins(p, x) \/ PreflightRefuses(p, x) \/ WalletSends(p, x) \/ SettleEarlier(p, x) \/
          TrackedOpen(p, x) \/ ClaimRefused(p, x) \/ Conflict(p, x) \/ SaveFails(p, x)
    BY <1>2, <2>1 DEF Continue, BuildRefused, StepConfirmedBefore, StepSubmittedBefore, StepBegins,
       PreflightRefuses, WalletSends, SettleEarlier, TrackedOpen, ClaimRefused, Conflict, SaveFails
  <2>2. CASE StepPrepaid(p, x) \/ MarkSending(p, x) \/ SaveSubmitted(p, x) \/ SeeConfirmed(p, x) \/
          SeeFailed(p, x) \/ ClaimBuilt(p, x)
    BY <1>1, <1>3, <1>5, <2>2, SavedRecord DEF StepPrepaid, MarkSending, SaveSubmitted,
       SeeConfirmed, SeeFailed, ClaimBuilt
  <2>3. CASE TimeOut(p, x) \/ WalletRefuses(p, x) \/ WalletUnclear(p, x)
    BY <1>1, <1>2, <1>3, <1>5, <2>3, SavedRecord DEF TimeOut, WalletRefuses, WalletUnclear, Continue
  <2>4. CASE Quote(p, x) \/ BackToQuoted(p, x) \/ MoveToSubmitted(p, x) \/ MoveToPending(p, x) \/
          TrackedCompleted(p, x) \/ Complete(p, x)
    BY <1>4, <2>4 DEF Quote, BackToQuoted, MoveToSubmitted, MoveToPending, TrackedCompleted, Complete
  <2>5. CASE BuildEmpty(p, x) \/ StepFailedBefore(p, x) \/ FailStep(p, x) \/ TrackedFailed(p, x)
    BY <1>4, <2>5 DEF Fail, BuildEmpty, StepFailedBefore, FailStep, TrackedFailed
  <2>6. CASE BuildLapsed(p, x) \/ Build(p, x) \/ SettleBurn(p, x)
    BY <1>2, <1>4, <2>6 DEF Fail, Continue, BuildLapsed, Build, SettleBurn
  <2> QED BY <1>9, <2>1, <2>2, <2>3, <2>4, <2>5, <2>6 DEF Resumes
<1> QED BY <1>6, <1>7, <1>8, <1>9 DEF PageStep

LEMMA LapsedStep ==
  ASSUME SendInv, \A x \in Execs : LapsedOK(x), [Next]_vars, NEW x \in Execs
  PROVE  LapsedOK(x)'
<1>1. TypeOK
  BY DEF SendInv, TypeInv
<1>2. ASSUME NEW p \in Pages, PageStep(p, x), rec'[x].state = "EXPIRED"
      PROVE  /\ ~hasCommitted(rec'[x])
             /\ \A q \in Pages : op'[q][x].pc = "idle" \/ op'[q][x].stale
  <2>1. CASE rec[x].state = "EXPIRED"
    <3>1. rec'[x] = rec[x] /\ (op'[p][x].pc = "idle" \/ op'[p][x].stale)
      BY <1>2, <2>1, LapsedStays
    <3>2. OthersKeep(p, x)
      BY <1>2, PageStepGoes, GoesKeeps DEF SendInv
    <3> QED BY <2>1, <3>1, <3>2 DEF LapsedOK, OthersKeep
  <2>2. CASE rec[x].state # "EXPIRED"
    <3>1. Allowed(rec[x], "EXPIRED") /\ Save(p, x, [rec[x] EXCEPT !.state = "EXPIRED"], Idle)
      BY <1>2, <2>2, Lapses DEF Move
    <3>2. ~hasCommitted(rec[x]) /\ rec[x] \in Record /\ [rec[x] EXCEPT !.state = "EXPIRED"] \in Record
      BY <1>1, <3>1, RecordLemma DEF Allowed, TypeOK, ExecutionStates, Final
    <3>3. /\ rec'[x] = [rec[x] EXCEPT !.state = "EXPIRED"] /\ op'[p][x] = Idle
          /\ \A q \in Pages : q # p => op'[q][x].pc = "idle" \/ op'[q][x].stale
      BY <1>1, <3>1, <3>2, OpLemma, SaveLemma
    <3>4. rec'[x].steps = rec[x].steps
      BY <3>2, <3>3 DEF Record
    <3> QED BY <3>2, <3>3, <3>4 DEF hasCommitted, Idle
  <2> QED BY <2>1, <2>2
<1>3. ASSUME NEW p \in Pages, NEW y \in Execs, y # x, PageStep(p, y)
      PROVE  rec'[x] = rec[x] /\ \A q \in Pages : op'[q][x] = op[q][x]
  BY <1>3, PageStepGoes, GoesKeeps DEF SendInv
<1>4. CASE Environment \/ UNCHANGED vars
  <2>1. rec' = rec /\ (op' = op \/ \E p \in Pages : op' = [op EXCEPT ![p] = [y \in Execs |-> Idle]])
    BY <1>4 DEF Environment, Crash, LedgerLapses, QuoteLapses, SettlementEnds, Lands, vars
  <2>2. \A q \in Pages : op'[q][x] = op[q][x] \/ op'[q][x] = Idle
    BY <1>1, <2>1 DEF TypeOK
  <2> QED BY <2>1, <2>2 DEF LapsedOK, Idle
<1>5. ASSUME NEW p \in Pages, NEW y \in Execs, PageStep(p, y) PROVE LapsedOK(x)'
  <2>1. CASE y = x
    BY <1>2, <1>5, <2>1 DEF LapsedOK, hasCommitted
  <2>2. CASE y # x
    BY <1>3, <1>5, <2>2 DEF LapsedOK
  <2> QED BY <2>1, <2>2
<1> QED BY <1>4, <1>5 DEF Next, PageStep

\* An execution expires only if nothing of it is on a chain or on its way there,
\* and nothing of it goes out afterwards (states.ts: "A quote cannot expire after a
\* transaction was sent").
THEOREM ExpiredSentNothingAlways == Spec => []ExpiredSentNothing
<1> DEFINE Inv == SendInv /\ \A x \in Execs : LapsedOK(x)
<1>1. Init => Inv
  BY SendInit DEF Init, NoRecord, LapsedOK
<1>2. Inv /\ [Next]_vars => Inv'
  BY SendStep, LapsedStep
<1>3. Inv => ExpiredSentNothing
  BY DEF SendInv, SendOK, UnsentOK, LapsedOK, hasCommitted, Status, ExpiredSentNothing
<1>4. Spec => []Inv
  BY <1>1, <1>2, PTL DEF Spec
<1> QED BY <1>3, <1>4, PTL

-----------------------------------------------------------------------------
(* Part 3: what records and calls say of the transactions is true, and no  *)
(* step is skipped.                                                        *)
(*                                                                         *)
(* A saved step names a transaction that went out and claims no more of it *)
(* than the chain does; the burn a record names is the only one that can   *)
(* still count; whoever is past a step finds every earlier one sent or     *)
(* paid.  All three are needed at once: a call resumes from the record,    *)
(* and the record is what calls and answers saved.                         *)

-----------------------------------------------------------------------------
(* What records and calls know of the transactions.                        *)

\* The transactions of a step are numbered in the order they were sent in.
InOrder(x) ==
  \A s \in StepIds, m, n \in 1..MaxSends :
    m < n /\ chain[x][s][n] # "unsent" => chain[x][s][m] # "unsent"

\* What may be saved of step s: a transaction that went out, as the chain has it, or
\* none; a confirmed step without one is a fee paid by an earlier attempt.
StepTrue(x, s, status, n) ==
  IF n = 0
    THEN status \in {"none", "pending", "sending"} \/ (s = "fee" /\ status = "confirmed")
    ELSE /\ status \in {"submitted", "confirmed", "failed"}
         /\ chain[x][s][n] # "unsent"
         /\ status # "submitted" => chain[x][s][n] = status

SavedTrue(x) ==
  \A s \in StepIds : StepTrue(x, s, rec[x].steps[s].status, rec[x].steps[s].tx)

\* A call that follows a transaction follows one that went out, and knows its end.
CallTrue(p, x) ==
  LET o == op[p][x] IN
  o.pc \in {"sent", "moving", "waiting", "settled", "stepFailed"} =>
    /\ o.tx # 0
    /\ chain[x][o.step][o.tx] # "unsent"
    /\ o.pc = "settled" => chain[x][o.step][o.tx] = "confirmed"
    /\ o.pc = "stepFailed" => chain[x][o.step][o.tx] = "failed"

BurnConfirmedStates ==
  {"SOURCE_CONFIRMED", "SETTLEMENT_PENDING", "DESTINATION_RECEIVED", "COMPLETED", "REFUNDED"}
BurnStates == {"SOURCE_SUBMITTED"} \cup BurnConfirmedStates

\* The n-th burn is the last that went out, and no other is on its way or done.
OnlyBurn(x, n) ==
  /\ chain[x][Last][n] # "unsent"
  /\ \A m \in 1..MaxSends : m > n => chain[x][Last][m] = "unsent"
  /\ Live(x, Last) \subseteq {n}

\* The burn a record names is the only one, and as the record's state says.
NamedTrue(x) ==
  LET r == rec[x]
      e == rec[x].executionId IN
  /\ e # 0 =>
       /\ r.state \in BurnStates \cup {"FAILED"}
       /\ OnlyBurn(x, e)
       /\ r.steps[Last].tx \in {0, e}
  /\ r.state \in BurnStates => e # 0
  /\ r.state \in BurnConfirmedStates => chain[x][Last][e] = "confirmed"
  /\ r.failure = "fundsSafe" /\ e # 0 => chain[x][Last][e] = "failed"
  /\ r.failure # "none" => r.state = "FAILED"
  /\ r.state # "DESTINATION_EXECUTED"

\* No burn is asked for once one is named, and a call with the current record
\* follows the one that is.
BurnCall(p, x) ==
  LET o == op[p][x]
      e == rec[x].executionId IN
  /\ o.pc \in {"sent", "moving"} /\ o.step = Last => OnlyBurn(x, o.tx)
  /\ o.pc \in {"asking", "sent", "moving"} /\ o.step = Last => e = 0
  /\ Current(p, x) =>
       /\ o.pc = "moving" => rec[x].steps[Last].tx = o.tx
       /\ o.pc = "waiting" /\ o.step = Last /\ e # 0 => o.tx = e
       /\ o.pc = "settled" /\ o.step = Last => Status(x, Last) = "confirmed"
       /\ o.pc = "stepFailed" /\ e # 0 => o.step = Last /\ o.tx = e
       /\ o.pc = "tracking" => rec[x].state = "SETTLEMENT_PENDING"

\* A step went out, or was paid by an earlier attempt.
Done(x, s) == chain[x][s][1] # "unsent" \/ Status(x, s) = "confirmed"

Before(s) ==
  {SourceSteps[i] : i \in {j \in 1..Len(SourceSteps) :
                             \E k \in 1..Len(SourceSteps) : j < k /\ SourceSteps[k] = s}}

\* The loop has come to a step only past all the ones before it.
Passed(p, x) ==
  LET o == op[p][x] IN
  /\ o.step # "mint"
  /\ \/ o.pc \in {"stepping", "preflight", "asking", "sent"}
     \/ o.pc \in {"waiting", "settled"} /\ o.step # Last
  => \A s \in Before(o.step) : Done(x, s)

SentPassed(x) ==
  \A t \in StepIds : chain[x][t][1] # "unsent" => \A s \in Before(t) : Done(x, s)

\* Nothing arrives or comes back that was not burned, and nothing does both.
FundsOK(x) ==
  /\ Minted(x) \/ settle[x] # "open" => Burned(x)
  /\ settle[x] = "returned" => ~Minted(x)

TraceOK(x) ==
  /\ InOrder(x) /\ SavedTrue(x) /\ NamedTrue(x) /\ SentPassed(x) /\ FundsOK(x)
  /\ \A p \in Pages : CallTrue(p, x) /\ BurnCall(p, x) /\ Passed(p, x)

-----------------------------------------------------------------------------
(* The order of the steps.                                                 *)

LEMMA BeforeLemma ==
  /\ Before(First) = {} /\ Before("mint") = {}
  /\ \A s \in StepIds : Before(s) \subseteq StepIds
  /\ \A s \in StepIds \ {"mint"} : s # Last => Before(NextStep(s)) \subseteq Before(s) \cup {s}
<1>1. SourceSteps \in [1..Len(SourceSteps) -> {"approve", "fee", "burn"}] /\ Len(SourceSteps) \in Nat \ {0}
  BY SourceStepsAssumption
<1>2. \A i, j \in 1..Len(SourceSteps) : SourceSteps[i] = SourceSteps[j] => i = j
  BY SourceStepsAssumption
<1>3. Before(First) = {}
  <2> SUFFICES ASSUME NEW j \in 1..Len(SourceSteps), NEW k \in 1..Len(SourceSteps),
                      j < k, SourceSteps[k] = SourceSteps[1]
               PROVE  FALSE
    BY DEF Before, First
  <2>1. k = 1
    BY <1>1, <1>2
  <2> QED BY <2>1
<1>4. Before("mint") = {}
  BY <1>1 DEF Before
<1>5. \A s \in StepIds : Before(s) \subseteq StepIds
  BY DEF Before, StepIds
<1>6. ASSUME NEW s \in StepIds \ {"mint"}, s # Last, NEW t \in Before(NextStep(s))
      PROVE  t \in Before(s) \cup {s}
  <2> DEFINE i == CHOOSE i \in 1..Len(SourceSteps) : SourceSteps[i] = s
  <2>1. i \in 1..Len(SourceSteps) /\ SourceSteps[i] = s
    BY DEF StepIds
  <2>2. i # Len(SourceSteps) /\ NextStep(s) = SourceSteps[i + 1]
    BY <1>6, <2>1 DEF Last, NextStep
  <2>3. PICK j \in 1..Len(SourceSteps), k \in 1..Len(SourceSteps) :
          t = SourceSteps[j] /\ j < k /\ SourceSteps[k] = SourceSteps[i + 1]
    BY <1>6, <2>2 DEF Before
  <2>4. k = i + 1
    BY <1>1, <1>2, <2>1, <2>2, <2>3
  <2>5. j = i \/ j < i
    BY <2>1, <2>3, <2>4
  <2> QED BY <2>1, <2>3, <2>5 DEF Before
<1> QED BY <1>3, <1>4, <1>5, <1>6

\* What the loop has passed when it goes on to the next step.
LEMMA AfterStepPassed ==
  ASSUME NEW p \in Pages, NEW x \in Execs, NEW s \in StepIds \ {"mint"},
         \A t \in Before(s) \cup {s} : Done(x, t)',
         op'[p][x].pc = AfterStep(s).pc, op'[p][x].step = AfterStep(s).step
  PROVE  Passed(p, x)'
<1>1. CASE s = Last
  BY <1>1 DEF AfterStep, Idle, Passed
<1>2. CASE s # Last
  <2>1. op'[p][x].step = NextStep(s)
    BY <1>2 DEF AfterStep, At
  <2>2. \A t \in Before(NextStep(s)) : Done(x, t)'
    BY <1>2, BeforeLemma
  <2> QED BY <2>1, <2>2 DEF Passed
<1> QED BY <1>1, <1>2

LEMMA SentFirst ==
  ASSUME NEW x \in Execs, InOrder(x), NEW s \in StepIds, NEW n \in 1..MaxSends,
         chain[x][s][n] # "unsent"
  PROVE  chain[x][s][1] # "unsent"
BY BoundsAssumption DEF InOrder

-----------------------------------------------------------------------------
(* What a step of a page's call leaves to be shown, as long as it sends    *)
(* nothing.                                                                *)

\* A failure or a refund is told only for a reason.
Honest(x) ==
  /\ rec'[x].state = "FAILED" /\ rec[x].state # "FAILED" =>
       /\ rec'[x].executionId = rec[x].executionId
       /\ \/ rec'[x].failure = "fundsSafe"
          \/ /\ rec'[x].failure = "fundsAtRisk"
             /\ rec[x].state = "SETTLEMENT_PENDING" /\ settle[x] = "returned"
  /\ rec'[x].state = "REFUNDED" /\ rec[x].state # "REFUNDED" => settle[x] = "returned"

RecordLocal(x) ==
  /\ SavedTrue(x)' /\ NamedTrue(x)' /\ Honest(x)
  /\ \A s \in StepIds : Done(x, s) => Done(x, s)'

CallLocal(p, x) ==
  /\ CallTrue(p, x)' /\ BurnCall(p, x)' /\ Passed(p, x)'
  /\ rec'[x].executionId # rec[x].executionId =>
       \A q \in Pages : q # p => ~InLoop(q, x)

\* The calls of the other pages keep what they know.
LEMMA OthersTrace ==
  ASSUME SendInv, NEW p \in Pages, NEW x \in Execs, TraceOK(x), OthersKeep(p, x),
         chain' = chain, RecordLocal(x), CallLocal(p, x), NEW q \in Pages, q # p
  PROVE  CallTrue(q, x)' /\ BurnCall(q, x)' /\ Passed(q, x)'
<1>1. /\ op'[q][x].pc = op[q][x].pc /\ op'[q][x].step = op[q][x].step
      /\ op'[q][x].tx = op[q][x].tx
      /\ Current(q, x)' /\ op[q][x].pc # "idle" => Current(q, x) /\ rec'[x] = rec[x]
  BY DEF OthersKeep, Current
<1>2. CallTrue(q, x) /\ BurnCall(q, x) /\ Passed(q, x)
  BY DEF TraceOK
<1>3. CallTrue(q, x)'
  BY <1>1, <1>2 DEF CallTrue
<1>4. OnlyBurn(x, op[q][x].tx) => OnlyBurn(x, op[q][x].tx)'
  BY <1>1 DEF OnlyBurn, Live
<1>5. op[q][x].pc \in {"asking", "sent", "moving"} /\ op[q][x].step = Last => InLoop(q, x)
  <2>1. Last # "mint"
    BY LastLemma
  <2> QED BY <2>1 DEF InLoop
<1>6. op'[q][x].pc \in {"asking", "sent", "moving"} /\ op'[q][x].step = Last => rec'[x].executionId = 0
  BY <1>1, <1>2, <1>5 DEF BurnCall, CallLocal
<1>7. BurnCall(q, x)'
  BY <1>1, <1>2, <1>4, <1>6 DEF BurnCall, Status
<1>8. Passed(q, x)'
  <2>1. op[q][x].step \in StepIds
    BY Facts
  <2>2. Before(op[q][x].step) \subseteq StepIds
    BY <2>1, BeforeLemma
  <2> QED BY <1>1, <1>2, <2>2 DEF Passed, RecordLocal
<1> QED BY <1>3, <1>7, <1>8

LEMMA TraceLocal ==
  ASSUME SendInv, NEW p \in Pages, NEW x \in Execs, TraceOK(x), OthersKeep(p, x),
         chain' = chain, settle' = settle, RecordLocal(x), CallLocal(p, x)
  PROVE  TraceOK(x)'
<1>1. InOrder(x)' /\ FundsOK(x)'
  BY DEF TraceOK, InOrder, FundsOK, Minted, Burned
<1>2. SentPassed(x)'
  BY BeforeLemma DEF TraceOK, SentPassed, RecordLocal
<1>3. \A q \in Pages : CallTrue(q, x)' /\ BurnCall(q, x)' /\ Passed(q, x)'
  BY OthersTrace DEF CallLocal
<1> QED BY <1>1, <1>2, <1>3 DEF TraceOK, RecordLocal

\* The record keeps all that is spoken of here.
Kept(x) ==
  /\ rec'[x].steps = rec[x].steps /\ rec'[x].executionId = rec[x].executionId
  /\ rec'[x].state = rec[x].state /\ rec'[x].failure = rec[x].failure

LEMMA KeptLocal ==
  ASSUME NEW x \in Execs, TraceOK(x), chain' = chain, Kept(x)
  PROVE  RecordLocal(x)
<1>1. SavedTrue(x)' /\ Honest(x)
  BY DEF TraceOK, Kept, SavedTrue, StepTrue, Honest
<1>2. NamedTrue(x)'
  BY DEF TraceOK, Kept, NamedTrue, OnlyBurn, Live
<1> QED BY <1>1, <1>2 DEF RecordLocal, Done, Status, Kept

LEMMA FlaggedKept ==
  ASSUME NEW x \in Execs, rec[x] \in Record, rec'[x] = Flagged(rec[x])
  PROVE  Kept(x)
BY DEF Record, Flagged, Kept

\* A call that ends, or goes where nothing is followed.
FreePlaces == {"idle", "creating", "building", "declined", "confirming", "arrived", "claiming"}

LEMMA FreeLocal ==
  ASSUME NEW p \in Pages, NEW x \in Execs, op'[p][x].pc \in FreePlaces,
         rec'[x].executionId = rec[x].executionId
  PROVE  CallLocal(p, x)
BY DEF FreePlaces, CallLocal, CallTrue, BurnCall, Passed

-----------------------------------------------------------------------------
(* The record moves.                                                       *)

LEMMA NextStates ==
  ASSUME NEW s \in ExecutionStates, NEW to \in NEXT(s)
  PROVE  /\ s \notin Final /\ s # "none"
         /\ to = "DESTINATION_EXECUTED" => s = "DESTINATION_RECEIVED"
         /\ to = "SOURCE_CONFIRMED" => s = "SOURCE_SUBMITTED"
         /\ to = "SOURCE_SUBMITTED" => s = "AWAITING_SIGNATURE"
         /\ to \in BurnConfirmedStates \ {"SOURCE_CONFIRMED"} =>
              s \in BurnConfirmedStates \cup {"DESTINATION_EXECUTED"}
         /\ to \in {"QUOTED", "AWAITING_SIGNATURE", "EXPIRED"} => s \notin BurnStates
         /\ to = "REFUNDED" => s = "SETTLEMENT_PENDING"
         /\ to = "DESTINATION_RECEIVED" => s = "SETTLEMENT_PENDING"
BY DEF NEXT, ExecutionStates, Final, BurnConfirmedStates, BurnStates

Moved(x, to) ==
  /\ rec'[x].state = to /\ rec'[x].steps = rec[x].steps
  /\ rec'[x].executionId = rec[x].executionId /\ rec'[x].failure = rec[x].failure

LEMMA MoveEffect ==
  ASSUME TypeOK, NEW p \in Pages, NEW x \in Execs, NEW to, NEW o, Move(p, x, rec[x], to, o)
  PROVE  Moved(x, to) /\ op'[p][x] = o
<1>1. rec[x] \in Record
  BY DEF TypeOK
<1>2. rec'[x] = [rec[x] EXCEPT !.state = to] /\ op'[p][x] = o
  BY SavedCall DEF Move
<1>3. /\ rec'[x].state = to /\ rec'[x].steps = rec[x].steps
      /\ rec'[x].executionId = rec[x].executionId /\ rec'[x].failure = rec[x].failure
  BY <1>1, <1>2 DEF Record
<1> QED BY <1>2, <1>3 DEF Moved

LEMMA MoveLocal ==
  ASSUME TypeOK, NEW p \in Pages, NEW x \in Execs, TraceOK(x), chain' = chain,
         NEW to, NEW o, Move(p, x, rec[x], to, o),
         to \in {"QUOTED", "AWAITING_SIGNATURE", "EXPIRED"} \cup BurnConfirmedStates,
         to = "SOURCE_CONFIRMED" => chain[x][Last][rec[x].executionId] = "confirmed",
         to = "REFUNDED" => settle[x] = "returned"
  PROVE  RecordLocal(x)
<1>1. rec[x] \in Record /\ rec[x].state \in ExecutionStates
  BY DEF TypeOK, Record
<1>2. to \in NEXT(rec[x].state)
  BY DEF Move, Allowed
<1>0. Moved(x, to)
  BY MoveEffect
<1>3. /\ rec'[x].state = to /\ rec'[x].steps = rec[x].steps
      /\ rec'[x].executionId = rec[x].executionId /\ rec'[x].failure = rec[x].failure
  BY <1>0 DEF Moved
<1>4. SavedTrue(x)' /\ \A s \in StepIds : Done(x, s) => Done(x, s)'
  BY <1>3 DEF TraceOK, SavedTrue, StepTrue, Done, Status
<1>5. Honest(x)
  BY <1>3 DEF Honest, BurnConfirmedStates
<1>6. NamedTrue(x)'
  <2> DEFINE e == rec[x].executionId
             s == rec[x].state
  <2>1. NamedTrue(x)
    BY DEF TraceOK
  <2>2. s \notin Final /\ s # "DESTINATION_EXECUTED" /\ rec[x].failure = "none"
    BY <1>1, <1>2, <2>1, NextStates DEF NamedTrue, Final
  <2>3. to \in BurnConfirmedStates => s \in BurnStates /\ chain[x][Last][e] = "confirmed"
    BY <1>1, <1>2, <2>1, <2>2, NextStates DEF NamedTrue, BurnStates
  <2>4. e # 0 => to \in BurnStates
    BY <1>1, <1>2, <2>1, <2>2, NextStates DEF NamedTrue, BurnStates, Final
  <2>5. e # 0 => OnlyBurn(x, e) /\ rec[x].steps[Last].tx \in {0, e}
    BY <2>1 DEF NamedTrue
  <2>6. OnlyBurn(x, e) => OnlyBurn(x, e)'
    BY <1>3 DEF OnlyBurn, Live
  <2>7. to \in BurnStates => e # 0
    BY <2>1, <2>3 DEF NamedTrue, BurnStates, BurnConfirmedStates
  <2>8. to # "DESTINATION_EXECUTED"
    BY DEF BurnConfirmedStates
  <2> QED BY <1>3, <2>2, <2>3, <2>4, <2>5, <2>6, <2>7, <2>8 DEF NamedTrue
<1> QED BY <1>2, <1>3, <1>4, <1>5, <1>6 DEF RecordLocal

LEMMA FailLocal ==
  ASSUME TypeOK, NEW p \in Pages, NEW x \in Execs, TraceOK(x), chain' = chain,
         NEW why, Fail(p, x, rec[x], why),
         \/ /\ why = "fundsSafe"
            /\ rec[x].executionId # 0 => chain[x][Last][rec[x].executionId] = "failed"
         \/ /\ why = "fundsAtRisk"
            /\ rec[x].state = "SETTLEMENT_PENDING" /\ settle[x] = "returned"
  PROVE  RecordLocal(x) /\ CallLocal(p, x)
<1>1. rec[x] \in Record
  BY DEF TypeOK
<1>2. rec'[x] = [WithFailure(rec[x], why) EXCEPT !.state = "FAILED"] /\ op'[p][x] = Idle
  BY SavedCall DEF Fail, Move
<1>3. /\ rec'[x].state = "FAILED" /\ rec'[x].steps = rec[x].steps
      /\ rec'[x].executionId = rec[x].executionId /\ rec'[x].failure = why
  BY <1>1, <1>2 DEF Record, WithFailure
<1>4. SavedTrue(x)' /\ \A s \in StepIds : Done(x, s) => Done(x, s)'
  BY <1>3 DEF TraceOK, SavedTrue, StepTrue, Done, Status
<1>5. Honest(x)
  BY <1>3 DEF Honest
<1>6. NamedTrue(x)'
  <2>1. NamedTrue(x)
    BY DEF TraceOK
  <2>2. OnlyBurn(x, rec[x].executionId) => OnlyBurn(x, rec[x].executionId)'
    BY <1>3 DEF OnlyBurn, Live
  <2> QED BY <1>3, <2>1, <2>2 DEF NamedTrue, BurnStates, BurnConfirmedStates
<1>7. CallLocal(p, x)
  <2>1. op'[p][x].pc \in FreePlaces
    BY <1>2 DEF Idle, FreePlaces
  <2> QED BY <1>3, <2>1, FreeLocal
<1> QED BY <1>4, <1>5, <1>6, <1>7 DEF RecordLocal

-----------------------------------------------------------------------------
(* One step of the record is saved, or answered for.                       *)

StepWritten(x, s, status, n) ==
  /\ rec'[x].steps = [rec[x].steps EXCEPT ![s] = [status |-> status, tx |-> n]]
  /\ rec'[x].executionId = rec[x].executionId
  /\ rec'[x].state = rec[x].state /\ rec'[x].failure = rec[x].failure

LEMMA WrittenLemma ==
  ASSUME NEW x \in Execs, rec[x] \in Record, NEW s \in StepIds, NEW status, NEW n,
         rec'[x] = WithStep(rec[x], s, status, n) \/ rec'[x] = Answered(rec[x], s, status, n)
  PROVE  StepWritten(x, s, status, n)
BY DEF Record, WithStep, Answered, StepWritten

LEMMA WrittenLocal ==
  ASSUME NEW x \in Execs, rec[x] \in Record, TraceOK(x), chain' = chain,
         NEW s \in StepIds, NEW status, NEW n, StepWritten(x, s, status, n),
         StepTrue(x, s, status, n),
         s = Last /\ rec[x].executionId # 0 => n \in {0, rec[x].executionId},
         status = "confirmed" \/ Status(x, s) # "confirmed" \/ chain[x][s][1] # "unsent"
  PROVE  RecordLocal(x)
<1>1. /\ rec'[x].steps[s].status = status /\ rec'[x].steps[s].tx = n
      /\ \A t \in StepIds : t # s => rec'[x].steps[t] = rec[x].steps[t]
  BY DEF StepWritten, Record
<1>2. SavedTrue(x)'
  BY <1>1 DEF TraceOK, SavedTrue, StepTrue
<1>3. Honest(x)
  BY DEF StepWritten, Honest
<1>4. \A t \in StepIds : Done(x, t) => Done(x, t)'
  BY <1>1 DEF Done, Status
<1>5. NamedTrue(x)'
  <2>1. NamedTrue(x)
    BY DEF TraceOK
  <2>2. OnlyBurn(x, rec[x].executionId) => OnlyBurn(x, rec[x].executionId)'
    BY DEF StepWritten, OnlyBurn, Live
  <2>3. rec[x].executionId # 0 => rec'[x].steps[Last].tx \in {0, rec[x].executionId}
    BY <1>1, <2>1, LastLemma DEF NamedTrue
  <2> QED BY <2>1, <2>2, <2>3 DEF NamedTrue, StepWritten
<1> QED BY <1>2, <1>3, <1>4, <1>5 DEF RecordLocal

\* What the place of a call and the current record tell.
LEMMA TraceFacts ==
  ASSUME SendInv, NEW p \in Pages, NEW x \in Execs, TraceOK(x)
  PROVE  /\ CallTrue(p, x) /\ BurnCall(p, x) /\ Passed(p, x) /\ NamedTrue(x)
         /\ \A s \in StepIds : StepTrue(x, s, rec[x].steps[s].status, rec[x].steps[s].tx)
         /\ rec[x].state \notin BurnStates \cup {"FAILED"} => rec[x].executionId = 0
         /\ op[p][x].pc \in {"sent", "moving", "waiting", "settled", "stepFailed"} =>
              op[p][x].tx \in 1..MaxSends /\ chain[x][op[p][x].step][1] # "unsent"
         /\ Last # "mint" /\ Last # "fee"
<1>1. CallTrue(p, x) /\ BurnCall(p, x) /\ Passed(p, x) /\ NamedTrue(x) /\ InOrder(x) /\ SavedTrue(x)
  BY DEF TraceOK
<1>2. op[p][x].step \in StepIds /\ op[p][x].tx \in TxNo
  BY Facts
<1>3. ASSUME op[p][x].pc \in {"sent", "moving", "waiting", "settled", "stepFailed"}
      PROVE  op[p][x].tx \in 1..MaxSends /\ chain[x][op[p][x].step][1] # "unsent"
  <2>1. op[p][x].tx \in 1..MaxSends /\ chain[x][op[p][x].step][op[p][x].tx] # "unsent"
    BY <1>1, <1>2, <1>3, BoundsAssumption DEF CallTrue, TxNo
  <2> QED BY <1>1, <1>2, <2>1, SentFirst
<1>4. Last # "mint" /\ Last # "fee"
  BY SourceStepsAssumption
<1> QED BY <1>1, <1>3, <1>4 DEF NamedTrue, SavedTrue

\* A call in the loop with the current record has one that names no burn yet.
LEMMA LoopUnnamed ==
  ASSUME SendInv, NEW p \in Pages, NEW x \in Execs, TraceOK(x), Current(p, x), InLoop(p, x)
  PROVE  /\ rec[x].executionId = 0
         /\ rec[x].state \in {"CREATED", "QUOTED", "AWAITING_SIGNATURE"}
<1>1. rec[x].state \in {"CREATED", "QUOTED", "AWAITING_SIGNATURE"}
  BY DEF SendInv, SendOK, LoopOK
<1> QED BY <1>1, TraceFacts DEF BurnStates, BurnConfirmedStates

-----------------------------------------------------------------------------
(* The actions that keep what the record says.                             *)

KeptAction(p, x) ==
  \/ StartInterrupted(p, x) \/ StartBuild(p, x) \/ BuildRefused(p, x) \/ PreflightRefuses(p, x)
  \/ Advance(p, x) \/ TrackedOpen(p, x) \/ ClaimRefused(p, x) \/ Conflict(p, x)
  \/ SaveFails(p, x) \/ ResumeLost(p, x) \/ ClaimInterrupted(p, x) \/ Claim(p, x)
  \/ StepConfirmedBefore(p, x) \/ StepSubmittedBefore(p, x) \/ StepBegins(p, x)
  \/ TimeOut(p, x) \/ SettleEarlier(p, x)

LEMMA KeptActions ==
  ASSUME SendInv, NEW p \in Pages, NEW x \in Execs, KeptAction(p, x)
  PROVE  Kept(x) /\ chain' = chain
<1>1. TypeOK /\ rec[x] \in Record
  BY Facts
<1>2. rec'[x] = rec[x] \/ rec'[x] = Flagged(rec[x])
  BY <1>1, SavedCall DEF KeptAction, Continue, StartInterrupted, StartBuild, BuildRefused,
     PreflightRefuses, Advance, TrackedOpen, ClaimRefused, Conflict, SaveFails, ResumeLost,
     ClaimInterrupted, Claim, StepConfirmedBefore, StepSubmittedBefore, StepBegins, TimeOut,
     SettleEarlier
<1>3. Kept(x)
  BY <1>1, <1>2, FlaggedKept DEF Kept
<1>4. chain' = chain
  BY DEF KeptAction, StartInterrupted, StartBuild, BuildRefused,
     PreflightRefuses, Advance, TrackedOpen, ClaimRefused, Conflict, SaveFails, ResumeLost,
     ClaimInterrupted, Claim, StepConfirmedBefore, StepSubmittedBefore, StepBegins, TimeOut,
     SettleEarlier
<1> QED BY <1>3, <1>4

\* The loop goes on: what it passed is done.
LEMMA GoesOn ==
  ASSUME SendInv, NEW p \in Pages, NEW x \in Execs, TraceOK(x),
         op'[p][x].pc = AfterStep(op[p][x].step).pc, op'[p][x].step = AfterStep(op[p][x].step).step,
         op[p][x].step # "mint",
         \A t \in Before(op[p][x].step) \cup {op[p][x].step} : Done(x, t)',
         rec'[x].executionId = rec[x].executionId
  PROVE  CallLocal(p, x)
<1>1. op[p][x].step \in StepIds
  BY Facts
<1>2. Passed(p, x)'
  BY <1>1, AfterStepPassed
<1>3. op'[p][x].pc \in {"idle", "stepping"}
  BY DEF AfterStep, Idle, At
<1> QED BY <1>2, <1>3 DEF CallLocal, CallTrue, BurnCall

LEMMA KeptTrace ==
  ASSUME SendInv, NEW p \in Pages, NEW x \in Execs, TraceOK(x), KeptAction(p, x)
  PROVE  RecordLocal(x) /\ CallLocal(p, x)
<1> DEFINE s == op[p][x].step
<1>1. TypeOK /\ rec[x] \in Record /\ s \in StepIds
      /\ (op[p][x].pc \in {"stepping", "settled"} => s # "mint")
  BY Facts
<1>2. Kept(x) /\ chain' = chain /\ rec'[x].executionId = rec[x].executionId
  BY KeptActions DEF Kept
<1>3. RecordLocal(x)
  BY <1>2, KeptLocal
<1>4. CASE \/ StartInterrupted(p, x) \/ StartBuild(p, x) \/ BuildRefused(p, x)
           \/ PreflightRefuses(p, x) \/ TrackedOpen(p, x) \/ ClaimRefused(p, x) \/ Conflict(p, x)
           \/ SaveFails(p, x) \/ ResumeLost(p, x) \/ ClaimInterrupted(p, x) \/ Claim(p, x)
  <2>1. op'[p][x].pc \in FreePlaces
    BY <1>1, <1>4, SavedCall, ContinuedCall DEF Idle, At, FreePlaces, StartInterrupted, StartBuild,
       BuildRefused, PreflightRefuses, TrackedOpen, ClaimRefused, Conflict, SaveFails, ResumeLost,
       ClaimInterrupted, Claim
  <2> QED BY <1>2, <1>3, <2>1, FreeLocal
<1>5. CASE Advance(p, x)
  <2>1. op'[p][x] = At("tracking", "mint", 0) /\ rec'[x].state = "SETTLEMENT_PENDING"
    BY <1>1, <1>2, <1>5, ContinuedCall DEF Advance, Kept
  <2> QED BY <1>2, <1>3, <2>1 DEF At, CallLocal, CallTrue, BurnCall, Passed
<1>6. \A t \in Before(s) : t \in StepIds
  BY <1>1, BeforeLemma
<1>7. Passed(p, x) /\ \A t \in StepIds : Done(x, t) => Done(x, t)'
  BY <1>3, TraceFacts DEF RecordLocal
<1>8. CASE StepConfirmedBefore(p, x)
  <2>1. op'[p][x] = AfterStep(s) /\ op[p][x].pc = "stepping" /\ Done(x, s)
    BY <1>1, <1>8, ContinuedCall DEF StepConfirmedBefore, Reached, Done
  <2>2. \A t \in Before(s) \cup {s} : Done(x, t)'
    BY <1>1, <1>6, <1>7, <2>1 DEF Passed
  <2> QED BY <1>1, <1>2, <1>3, <2>1, <2>2, GoesOn
<1>9. CASE StepBegins(p, x)
  <2>1. op'[p][x] = At("preflight", s, 0) /\ op[p][x].pc = "stepping"
    BY <1>1, <1>9, ContinuedCall DEF StepBegins, Reached
  <2>2. Passed(p, x)'
    BY <1>1, <1>6, <1>7, <2>1 DEF Passed, At
  <2> QED BY <1>2, <1>3, <2>1, <2>2 DEF At, CallLocal, CallTrue, BurnCall
<1>10. CASE StepSubmittedBefore(p, x)
  <2>1. /\ op'[p][x] = At("waiting", s, rec[x].steps[s].tx)
        /\ op[p][x].pc = "stepping" /\ rec[x].steps[s].status = "submitted" /\ Current(p, x)
    BY <1>1, <1>10, ContinuedCall DEF StepSubmittedBefore, Reached, Status, Current
  <2>2. rec[x].steps[s].tx # 0 /\ chain[x][s][rec[x].steps[s].tx] # "unsent"
    BY <1>1, <2>1, TraceFacts DEF StepTrue
  <2>3. rec[x].executionId = 0
    BY <2>1, LoopUnnamed DEF InLoop
  <2>0. /\ op'[p][x].pc = "waiting" /\ op'[p][x].step = s
        /\ op'[p][x].tx = rec[x].steps[s].tx
    BY <2>1 DEF At
  <2>4. CallTrue(p, x)'
    BY <1>2, <2>0, <2>2 DEF CallTrue
  <2>5. BurnCall(p, x)'
    BY <1>2, <2>0, <2>3 DEF BurnCall
  <2>6. Passed(p, x)'
    BY <1>1, <1>6, <1>7, <2>1 DEF Passed, At
  <2> QED BY <1>2, <1>3, <2>4, <2>5, <2>6 DEF CallLocal
<1>11. CASE TimeOut(p, x)
  <2>1. op'[p][x] = (IF s = "mint" THEN Idle ELSE AfterStep(s)) /\ op[p][x].pc = "waiting"
    BY <1>1, <1>11, SavedCall DEF TimeOut, Reached
  <2>2. CASE s = "mint" \/ s = Last
    <3>1. op'[p][x].pc \in FreePlaces
      BY <2>1, <2>2 DEF AfterStep, Idle, FreePlaces
    <3> QED BY <1>2, <1>3, <3>1, FreeLocal
  <2>3. CASE s # "mint" /\ s # Last
    <3>1. Done(x, s)
      BY <2>1, TraceFacts DEF Done
    <3>2. \A t \in Before(s) \cup {s} : Done(x, t)'
      BY <1>1, <1>6, <1>7, <2>1, <2>3, <3>1 DEF Passed
    <3> QED BY <1>2, <1>3, <2>1, <2>3, <3>2, GoesOn
  <2> QED BY <2>2, <2>3
<1>12. CASE SettleEarlier(p, x)
  <2>1. /\ op'[p][x] = [AfterStep(s) EXCEPT !.stale = op[p][x].stale]
        /\ op[p][x].pc = "settled" /\ s # Last /\ s # "mint"
    BY <1>1, <1>12, ContinuedCall DEF SettleEarlier
  <2>2. op'[p][x].pc = AfterStep(s).pc /\ op'[p][x].step = AfterStep(s).step
    BY <2>1 DEF AfterStep, Idle, At
  <2>3. Done(x, s)
    BY <2>1, TraceFacts DEF Done
  <2>4. \A t \in Before(s) \cup {s} : Done(x, t)'
    BY <1>1, <1>6, <1>7, <2>1, <2>3 DEF Passed
  <2> QED BY <1>2, <1>3, <2>1, <2>2, <2>4, GoesOn
<1> QED BY <1>4, <1>5, <1>8, <1>9, <1>10, <1>11, <1>12 DEF KeptAction

-----------------------------------------------------------------------------
(* The actions that save a step of the record.                             *)

LEMMA PrepaidTrace ==
  ASSUME SendInv, NEW p \in Pages, NEW x \in Execs, TraceOK(x), StepPrepaid(p, x)
  PROVE  RecordLocal(x) /\ CallLocal(p, x)
<1> DEFINE s == op[p][x].step
<1>1. TypeOK /\ rec[x] \in Record /\ s \in StepIds /\ s # "mint" /\ chain' = chain
  BY Facts DEF StepPrepaid, Reached
<1>2. /\ rec'[x] = WithStep(rec[x], s, "confirmed", 0) /\ op'[p][x] = AfterStep(s)
      /\ op[p][x].pc = "stepping" /\ s = "fee" /\ s # Last
  BY <1>1, SavedCall, TraceFacts DEF StepPrepaid, Reached
<1>3. StepWritten(x, s, "confirmed", 0)
  BY <1>1, <1>2, WrittenLemma
<1>4. StepTrue(x, s, "confirmed", 0)
  BY <1>2 DEF StepTrue
<1>5. RecordLocal(x)
  BY <1>1, <1>2, <1>3, <1>4, WrittenLocal
<1>6. \A t \in StepIds : t = s => Done(x, t)'
  BY <1>1, <1>3 DEF StepWritten, Done, Status, Record
<1>7. \A t \in Before(s) \cup {s} : Done(x, t)'
  BY <1>1, <1>2, <1>5, <1>6, TraceFacts, BeforeLemma DEF Passed, RecordLocal
<1>8. CallLocal(p, x)
  BY <1>1, <1>2, <1>3, <1>7, GoesOn DEF StepWritten
<1> QED BY <1>5, <1>8

LEMMA MarkSendingTrace ==
  ASSUME SendInv, NEW p \in Pages, NEW x \in Execs, TraceOK(x), MarkSending(p, x)
  PROVE  RecordLocal(x) /\ CallLocal(p, x)
<1> DEFINE s == op[p][x].step
<1>1. TypeOK /\ rec[x] \in Record /\ s \in StepIds /\ chain' = chain /\ SendOK(x)
  BY Facts DEF MarkSending
<1>2. /\ rec'[x] = WithStep(rec[x], s, "sending", 0) /\ op'[p][x] = At("asking", s, 0)
      /\ op[p][x].pc = "preflight" /\ Current(p, x)
  BY <1>1, SavedCall DEF MarkSending, Reached, Current
<1>3. StepWritten(x, s, "sending", 0) /\ StepTrue(x, s, "sending", 0)
  BY <1>1, <1>2, WrittenLemma DEF StepTrue
<1>4. Status(x, s) # "confirmed"
  BY <1>1, <1>2 DEF SendOK, BeforePromptOK
<1>5. RecordLocal(x)
  BY <1>1, <1>3, <1>4, WrittenLocal
<1>6. rec'[x].executionId = 0 /\ rec[x].executionId = 0
  BY <1>2, <1>3, LoopUnnamed DEF InLoop, StepWritten
<1>7. op'[p][x].pc = "asking" /\ op'[p][x].step = s
  BY <1>2 DEF At
<1>8. Passed(p, x)'
  BY <1>1, <1>2, <1>5, <1>7, TraceFacts, BeforeLemma DEF Passed, RecordLocal
<1>9. CallTrue(p, x)' /\ BurnCall(p, x)'
  BY <1>6, <1>7 DEF CallTrue, BurnCall
<1> QED BY <1>5, <1>6, <1>8, <1>9 DEF CallLocal

LEMMA ClaimBuiltTrace ==
  ASSUME SendInv, NEW p \in Pages, NEW x \in Execs, TraceOK(x), ClaimBuilt(p, x)
  PROVE  RecordLocal(x) /\ CallLocal(p, x)
<1>1. TypeOK /\ rec[x] \in Record /\ "mint" \in StepIds /\ chain' = chain /\ SendOK(x)
  BY Facts, OpLemma DEF ClaimBuilt
<1>2. /\ rec'[x] = WithStep(rec[x], "mint", "sending", 0) /\ op'[p][x] = At("asking", "mint", 0)
      /\ op[p][x].pc = "claiming" /\ Current(p, x)
  BY <1>1, SavedCall DEF ClaimBuilt, Reached, Current
<1>3. StepWritten(x, "mint", "sending", 0) /\ StepTrue(x, "mint", "sending", 0)
  BY <1>1, <1>2, WrittenLemma DEF StepTrue
<1>4. Status(x, "mint") # "confirmed" /\ Last # "mint"
  BY <1>1, <1>2, TraceFacts DEF SendOK, BeforePromptOK
<1>5. RecordLocal(x)
  BY <1>1, <1>3, <1>4, WrittenLocal
<1>6. op'[p][x].pc = "asking" /\ op'[p][x].step = "mint"
  BY <1>2 DEF At
<1>7. CallTrue(p, x)' /\ BurnCall(p, x)' /\ Passed(p, x)'
  BY <1>4, <1>6 DEF CallTrue, BurnCall, Passed
<1> QED BY <1>3, <1>5, <1>7 DEF CallLocal, StepWritten

LEMMA WalletRefusesTrace ==
  ASSUME SendInv, NEW p \in Pages, NEW x \in Execs, TraceOK(x), WalletRefuses(p, x)
  PROVE  RecordLocal(x) /\ CallLocal(p, x)
<1> DEFINE s == op[p][x].step
<1>1. TypeOK /\ rec[x] \in Record /\ s \in StepIds /\ chain' = chain /\ SendOK(x)
  BY Facts DEF WalletRefuses
<1>2. op'[p][x].pc \in FreePlaces
  BY <1>1, SavedCall, ContinuedCall DEF WalletRefuses, Idle, At, FreePlaces
<1>3. CASE rec'[x] = rec[x]
  BY <1>1, <1>2, <1>3, KeptLocal, FreeLocal DEF Kept
<1>4. CASE rec'[x] = WithStep(rec[x], s, "pending", 0)
  <2>1. StepWritten(x, s, "pending", 0) /\ StepTrue(x, s, "pending", 0)
    BY <1>1, <1>4, WrittenLemma DEF StepTrue
  <2>2. Status(x, s) # "confirmed"
    BY <1>1 DEF WalletRefuses, SendOK, PromptOK, Asking
  <2> QED BY <1>1, <1>2, <2>1, <2>2, WrittenLocal, FreeLocal DEF StepWritten
<1>5. rec'[x] = rec[x] \/ rec'[x] = WithStep(rec[x], s, "pending", 0)
  BY <1>1, SavedCall, ContinuedCall DEF WalletRefuses
<1> QED BY <1>3, <1>4, <1>5

LEMMA SaveSubmittedTrace ==
  ASSUME SendInv, NEW p \in Pages, NEW x \in Execs, TraceOK(x), SaveSubmitted(p, x)
  PROVE  RecordLocal(x) /\ CallLocal(p, x)
<1> DEFINE s == op[p][x].step
           n == op[p][x].tx
<1>1. TypeOK /\ rec[x] \in Record /\ s \in StepIds /\ chain' = chain
  BY Facts DEF SaveSubmitted
<1>2. /\ rec'[x] = WithStep(rec[x], s, "submitted", n)
      /\ op'[p][x] = At(IF s = Last THEN "moving" ELSE "waiting", s, n)
      /\ op[p][x].pc = "sent"
  BY <1>1, SavedCall DEF SaveSubmitted, Reached
<1>3. n # 0 /\ chain[x][s][n] # "unsent" /\ chain[x][s][1] # "unsent" /\ n \in 1..MaxSends
  BY <1>2, TraceFacts, BoundsAssumption DEF CallTrue
<1>4. StepWritten(x, s, "submitted", n) /\ StepTrue(x, s, "submitted", n)
  BY <1>1, <1>2, <1>3, WrittenLemma DEF StepTrue
<1>5. s = Last => rec[x].executionId = 0 /\ OnlyBurn(x, n)
  BY <1>2, TraceFacts DEF BurnCall
<1>6. RecordLocal(x)
  BY <1>1, <1>3, <1>4, <1>5, WrittenLocal
<1>7. /\ op'[p][x].pc = (IF s = Last THEN "moving" ELSE "waiting")
      /\ op'[p][x].step = s /\ op'[p][x].tx = n
  BY <1>2 DEF At
<1>8. CallTrue(p, x)'
  BY <1>1, <1>3, <1>7 DEF CallTrue
<1>9. BurnCall(p, x)'
  <2>1. CASE s # Last
    BY <1>7, <2>1 DEF BurnCall
  <2>2. CASE s = Last
    <3>1. OnlyBurn(x, n)'
      BY <1>1, <1>5, <2>2, <1>7 DEF OnlyBurn, Live
    <3>2. rec'[x].executionId = 0 /\ rec'[x].steps[Last].tx = n
      BY <1>1, <1>4, <1>5, <2>2 DEF StepWritten, Record
    <3> QED BY <1>7, <2>2, <3>1, <3>2 DEF BurnCall
  <2> QED BY <2>1, <2>2
<1>10. Passed(p, x)'
  BY <1>1, <1>2, <1>6, <1>7, TraceFacts, BeforeLemma DEF Passed, RecordLocal
<1> QED BY <1>4, <1>6, <1>8, <1>9, <1>10 DEF CallLocal, StepWritten

LEMMA SeenTrace ==
  ASSUME SendInv, NEW p \in Pages, NEW x \in Execs, TraceOK(x),
         SeeConfirmed(p, x) \/ SeeFailed(p, x)
  PROVE  RecordLocal(x) /\ CallLocal(p, x)
<1> DEFINE s == op[p][x].step
           n == op[p][x].tx
           e == rec[x].executionId
<1>1. TypeOK /\ rec[x] \in Record /\ s \in StepIds /\ chain' = chain
  BY Facts DEF SeeConfirmed, SeeFailed
<1>2. PICK status \in {"confirmed", "failed"} :
        /\ rec'[x] = WithStep(rec[x], s, status, n)
        /\ op'[p][x] = (IF s = "mint" THEN Idle
                        ELSE At(IF status = "confirmed" THEN "settled" ELSE "stepFailed", s, n))
        /\ op[p][x].pc = "waiting" /\ Current(p, x)
        /\ chain[x][s][n] = status
  <2>1. CASE SeeConfirmed(p, x)
    BY <1>1, <2>1, SavedCall DEF SeeConfirmed, Reached, Current
  <2>2. CASE SeeFailed(p, x)
    BY <1>1, <2>2, SavedCall DEF SeeFailed, Reached, Current
  <2> QED BY <2>1, <2>2
<1>3. n # 0 /\ chain[x][s][1] # "unsent"
  BY <1>2, TraceFacts, BoundsAssumption
<1>4. StepWritten(x, s, status, n) /\ StepTrue(x, s, status, n)
  BY <1>1, <1>2, <1>3, WrittenLemma DEF StepTrue
<1>5. e # 0 => s \in {Last, "mint"} /\ (s = Last => n = e)
  BY <1>2, LoopUnnamed, TraceFacts DEF InLoop, BurnCall
<1>6. RecordLocal(x)
  BY <1>1, <1>3, <1>4, <1>5, WrittenLocal
<1>7. rec'[x].executionId = e
  BY <1>4 DEF StepWritten
<1>8. CASE s = "mint"
  <2>1. op'[p][x].pc \in FreePlaces
    BY <1>2, <1>8 DEF Idle, FreePlaces
  <2> QED BY <1>6, <1>7, <2>1, FreeLocal
<1>9. CASE s # "mint"
  <2>1. /\ op'[p][x].pc = (IF status = "confirmed" THEN "settled" ELSE "stepFailed")
        /\ op'[p][x].step = s /\ op'[p][x].tx = n
    BY <1>2, <1>9 DEF At
  <2>2. CallTrue(p, x)'
    BY <1>1, <1>2, <1>3, <2>1 DEF CallTrue
  <2>3. rec'[x].steps[s].status = status
    BY <1>1, <1>4 DEF StepWritten, Status, Record
  <2>4. BurnCall(p, x)'
    BY <1>5, <1>7, <1>9, <2>1, <2>3 DEF BurnCall, Status
  <2>5. Passed(p, x)'
    BY <1>1, <1>2, <1>6, <2>1, TraceFacts, BeforeLemma DEF Passed, RecordLocal
  <2> QED BY <1>6, <1>7, <2>2, <2>4, <2>5 DEF CallLocal
<1> QED BY <1>8, <1>9

LEMMA AnswerTrace ==
  ASSUME SendInv, NEW p \in Pages, NEW x \in Execs, TraceOK(x), Answer(p, x)
  PROVE  RecordLocal(x) /\ CallLocal(p, x)
<1>1. TypeOK /\ rec[x] \in Record
  BY Facts
<1>2. PICK s \in StepIds : ResolveSent(p, x, s) \/ ResolveNotSent(p, x, s)
  BY DEF Answer
<1>3. /\ chain' = chain /\ op'[p][x] = Idle /\ Status(x, s) # "confirmed"
      /\ \/ /\ rec'[x] = Answered(rec[x], s, "pending", 0)
         \/ \E n \in 1..MaxSends : /\ rec'[x] = Answered(rec[x], s, "submitted", n)
                                   /\ Latest(x, s, n)
  BY <1>1, <1>2, SavedCall DEF ResolveSent, ResolveNotSent, Asked
<1>4. op'[p][x].pc \in FreePlaces
  BY <1>3 DEF Idle, FreePlaces
<1>5. CASE rec'[x] = Answered(rec[x], s, "pending", 0)
  <2>1. StepWritten(x, s, "pending", 0) /\ StepTrue(x, s, "pending", 0)
    BY <1>1, <1>5, WrittenLemma DEF StepTrue
  <2> QED BY <1>1, <1>3, <1>4, <2>1, WrittenLocal, FreeLocal DEF StepWritten
<1>6. ASSUME NEW n \in 1..MaxSends, rec'[x] = Answered(rec[x], s, "submitted", n), Latest(x, s, n)
      PROVE  RecordLocal(x) /\ CallLocal(p, x)
  <2>1. n # 0 /\ chain[x][s][n] # "unsent"
    BY <1>6, BoundsAssumption DEF Latest
  <2>2. StepWritten(x, s, "submitted", n) /\ StepTrue(x, s, "submitted", n)
    BY <1>1, <1>6, <2>1, WrittenLemma DEF StepTrue
  <2>3. ASSUME s = Last, rec[x].executionId # 0 PROVE n = rec[x].executionId
    <3>1. OnlyBurn(x, rec[x].executionId) /\ rec[x].executionId \in 1..MaxSends
      BY <1>1, <2>3, TraceFacts, BoundsAssumption DEF NamedTrue, Record, TxNo
    <3> QED BY <1>6, <2>1, <2>3, <3>1, BoundsAssumption DEF OnlyBurn, Latest
  <2> QED BY <1>1, <1>3, <1>4, <2>2, <2>3, WrittenLocal, FreeLocal DEF StepWritten
<1> QED BY <1>3, <1>5, <1>6

-----------------------------------------------------------------------------
(* The actions that move the record.                                       *)

LEMMA CreateTrace ==
  ASSUME SendInv, NEW p \in Pages, NEW x \in Execs, TraceOK(x), Create(p, x)
  PROVE  RecordLocal(x) /\ CallLocal(p, x)
<1>1. TypeOK /\ rec[x] \in Record /\ chain' = chain /\ rec[x].state = "none"
  BY Facts DEF Create
<1>2. rec'[x] = [rec[x] EXCEPT !.state = "CREATED"] /\ op'[p][x] = At("creating", First, 0)
  BY <1>1, SavedCall DEF Create
<1>3. /\ rec'[x].state = "CREATED" /\ rec'[x].steps = rec[x].steps
      /\ rec'[x].executionId = rec[x].executionId /\ rec'[x].failure = rec[x].failure
  BY <1>1, <1>2 DEF Record
<1>4. rec[x].executionId = 0 /\ rec[x].failure = "none"
  BY <1>1, TraceFacts DEF NamedTrue, BurnStates, BurnConfirmedStates
<1>5. SavedTrue(x)' /\ \A s \in StepIds : Done(x, s) => Done(x, s)'
  BY <1>1, <1>3 DEF TraceOK, SavedTrue, StepTrue, Done, Status
<1>6. NamedTrue(x)' /\ Honest(x)
  BY <1>3, <1>4 DEF NamedTrue, Honest, BurnStates, BurnConfirmedStates
<1>7. op'[p][x].pc \in FreePlaces
  BY <1>2 DEF At, FreePlaces
<1> QED BY <1>3, <1>5, <1>6, <1>7, FreeLocal DEF RecordLocal

\* The burn is named: nobody else can still be about to send one.
LEMMA NamedTrace ==
  ASSUME SendInv, NEW p \in Pages, NEW x \in Execs, TraceOK(x), MoveToSubmitted(p, x)
  PROVE  RecordLocal(x) /\ CallLocal(p, x)
<1> DEFINE s == op[p][x].step
           n == op[p][x].tx
<1>1. /\ TypeOK /\ rec[x] \in Record /\ SendOK(x) /\ chain' = chain
      /\ op[p][x].pc = "moving" /\ Current(p, x) /\ InLoop(p, x) /\ s = Last
  BY Facts DEF MoveToSubmitted, Reached, Current, InLoop, SendOK, FreshOK
<1>2. /\ rec'[x] = [[rec[x] EXCEPT !.executionId = n] EXCEPT !.state = "SOURCE_SUBMITTED"]
      /\ op'[p][x] = At("waiting", s, n)
  BY <1>1, SavedCall DEF MoveToSubmitted, Move
<1>3. /\ rec'[x].state = "SOURCE_SUBMITTED" /\ rec'[x].steps = rec[x].steps
      /\ rec'[x].executionId = n /\ rec'[x].failure = rec[x].failure
  BY <1>1, <1>2 DEF Record
<1>4. /\ n # 0 /\ chain[x][s][n] # "unsent" /\ OnlyBurn(x, n)
      /\ rec[x].executionId = 0 /\ rec[x].steps[Last].tx = n
  BY <1>1, TraceFacts DEF CallTrue, BurnCall
<1>5. rec[x].failure = "none"
  BY <1>1, LoopUnnamed, TraceFacts DEF NamedTrue, Record
<1>6. SavedTrue(x)' /\ \A t \in StepIds : Done(x, t) => Done(x, t)'
  BY <1>1, <1>3 DEF TraceOK, SavedTrue, StepTrue, Done, Status
<1>7. NamedTrue(x)' /\ Honest(x)
  <2>1. rec'[x].executionId = n => OnlyBurn(x, rec[x].executionId)'
    BY <1>1, <1>3, <1>4 DEF OnlyBurn, Live
  <2> QED BY <1>3, <1>4, <1>5, <2>1 DEF NamedTrue, Honest, BurnStates, BurnConfirmedStates
<1>8. op'[p][x].pc = "waiting" /\ op'[p][x].step = Last /\ op'[p][x].tx = n
  BY <1>1, <1>2 DEF At
<1>9. CallTrue(p, x)' /\ BurnCall(p, x)' /\ Passed(p, x)'
  BY <1>1, <1>3, <1>4, <1>8 DEF CallTrue, BurnCall, Passed
<1>10. \A q \in Pages : q # p => ~InLoop(q, x)
  BY <1>1 DEF SendOK, FreshOK
<1> QED BY <1>6, <1>7, <1>9, <1>10 DEF RecordLocal, CallLocal

FailAction(p, x) ==
  \/ BuildEmpty(p, x) \/ StepFailedBefore(p, x) \/ FailStep(p, x) \/ TrackedFailed(p, x)
  \/ StartRetire(p, x) /\ hasCommitted(rec[x])
  \/ BuildLapsed(p, x) /\ hasCommitted(rec[x])

LEMMA FailTrace ==
  ASSUME SendInv, NEW p \in Pages, NEW x \in Execs, TraceOK(x), FailAction(p, x)
  PROVE  RecordLocal(x) /\ CallLocal(p, x)
<1> DEFINE e == rec[x].executionId
<1>1. TypeOK
  BY Facts
<1>2. chain' = chain
  BY DEF FailAction, BuildEmpty, StepFailedBefore, FailStep, TrackedFailed, StartRetire, BuildLapsed
<1>3. CASE BuildEmpty(p, x) \/ StepFailedBefore(p, x) \/ (BuildLapsed(p, x) /\ hasCommitted(rec[x]))
  <2>1. Current(p, x) /\ InLoop(p, x) /\ Fail(p, x, rec[x], "fundsSafe")
    BY <1>3 DEF BuildEmpty, StepFailedBefore, BuildLapsed, Reached, Current, InLoop
  <2> QED BY <1>1, <1>2, <2>1, LoopUnnamed, FailLocal
<1>4. CASE FailStep(p, x)
  <2>1. op[p][x].pc = "stepFailed" /\ Current(p, x) /\ Fail(p, x, rec[x], "fundsSafe")
    BY <1>4 DEF FailStep, Reached, Current
  <2>2. e # 0 => chain[x][Last][e] = "failed"
    BY <2>1, TraceFacts DEF CallTrue, BurnCall
  <2> QED BY <1>1, <1>2, <2>1, <2>2, FailLocal
<1>5. CASE TrackedFailed(p, x)
  <2>1. /\ op[p][x].pc = "tracking" /\ Current(p, x) /\ Fail(p, x, rec[x], "fundsAtRisk")
        /\ settle[x] = "returned"
    BY <1>5 DEF TrackedFailed, Reached, Current
  <2>2. rec[x].state = "SETTLEMENT_PENDING"
    BY <2>1, TraceFacts DEF BurnCall
  <2> QED BY <1>1, <1>2, <2>1, <2>2, FailLocal
<1>6. CASE StartRetire(p, x) /\ hasCommitted(rec[x])
  <2>1. Fail(p, x, rec[x], "fundsSafe") /\ rec[x].state \in {"QUOTED", "AWAITING_SIGNATURE"}
    BY <1>6 DEF StartRetire, CanBegin
  <2>2. e = 0
    BY <2>1, TraceFacts DEF BurnStates, BurnConfirmedStates
  <2> QED BY <1>1, <1>2, <2>1, <2>2, FailLocal
<1> QED BY <1>3, <1>4, <1>5, <1>6 DEF FailAction

MoveAction(p, x) ==
  \/ Quote(p, x) \/ StartExpired(p, x) \/ Build(p, x) \/ BackToQuoted(p, x) \/ SettleBurn(p, x)
  \/ MoveToPending(p, x) \/ ResumeWaiting(p, x) \/ ResumeConfirmed(p, x)
  \/ TrackedCompleted(p, x) \/ Complete(p, x) \/ RecordRefund(p, x)
  \/ StartRetire(p, x) /\ ~hasCommitted(rec[x])
  \/ BuildLapsed(p, x) /\ ~hasCommitted(rec[x])

\* A record whose burn step is confirmed names a burn the chain confirmed.
LEMMA ConfirmedBurn ==
  ASSUME SendInv, NEW p \in Pages, NEW x \in Execs, TraceOK(x),
         Status(x, Last) = "confirmed", rec[x].state = "SOURCE_SUBMITTED"
  PROVE  chain[x][Last][rec[x].executionId] = "confirmed"
<1>1. rec[x].executionId # 0 /\ rec[x].steps[Last].tx \in {0, rec[x].executionId}
  BY TraceFacts DEF NamedTrue, BurnStates
<1>2. StepTrue(x, Last, "confirmed", rec[x].steps[Last].tx) /\ Last # "fee"
  BY TraceFacts, LastLemma DEF Status
<1> QED BY <1>1, <1>2 DEF StepTrue

LEMMA MoveTrace ==
  ASSUME SendInv, NEW p \in Pages, NEW x \in Execs, TraceOK(x), MoveAction(p, x)
  PROVE  RecordLocal(x) /\ CallLocal(p, x)
<1>1. TypeOK
  BY Facts
<1>2. chain' = chain
  BY DEF MoveAction, Quote, StartExpired, Build, BackToQuoted, SettleBurn, MoveToPending,
     ResumeWaiting, ResumeConfirmed, TrackedCompleted, Complete, RecordRefund, StartRetire, BuildLapsed
<1>3. ASSUME NEW to, NEW o, Move(p, x, rec[x], to, o), o.pc \in FreePlaces,
             to \in {"QUOTED", "AWAITING_SIGNATURE", "EXPIRED"} \cup BurnConfirmedStates,
             to = "SOURCE_CONFIRMED" => chain[x][Last][rec[x].executionId] = "confirmed",
             to = "REFUNDED" => settle[x] = "returned"
      PROVE  RecordLocal(x) /\ CallLocal(p, x)
  <2>1. RecordLocal(x)
    BY <1>1, <1>2, <1>3, MoveLocal
  <2>2. Moved(x, to)
    BY <1>1, <1>3, MoveEffect
  <2>3. op'[p][x] = o
    BY <1>1, <1>3, MoveEffect
  <2> QED BY <1>3, <2>1, <2>2, <2>3, FreeLocal DEF Moved
<1>4. ASSUME NEW o, Continue(p, x, o), o.pc \in FreePlaces
      PROVE  RecordLocal(x) /\ CallLocal(p, x)
  <2>1. rec'[x] = rec[x] /\ op'[p][x] = o
    BY <1>1, <1>4, ContinuedCall
  <2> QED BY <1>2, <1>4, <2>1, KeptLocal, FreeLocal DEF Kept
<1>5. CASE \/ Quote(p, x) \/ StartExpired(p, x) \/ BackToQuoted(p, x) \/ MoveToPending(p, x)
           \/ ResumeConfirmed(p, x) \/ TrackedCompleted(p, x) \/ Complete(p, x) \/ RecordRefund(p, x)
           \/ StartRetire(p, x) /\ ~hasCommitted(rec[x])
  <2>1. PICK to, o :
          /\ Move(p, x, rec[x], to, o) /\ o \in {Idle, At("arrived", "mint", 0)}
          /\ to \in {"QUOTED", "EXPIRED", "SETTLEMENT_PENDING", "DESTINATION_RECEIVED", "COMPLETED",
                    "REFUNDED"}
          /\ to = "REFUNDED" => settle[x] = "returned"
    BY <1>5 DEF Quote, StartExpired, BackToQuoted, MoveToPending, ResumeConfirmed, TrackedCompleted,
       Complete, RecordRefund, StartRetire
  <2>2. o.pc \in FreePlaces
    BY <2>1 DEF Idle, At, FreePlaces
  <2> QED BY <1>3, <2>1, <2>2 DEF BurnConfirmedStates
<1>6. CASE BuildLapsed(p, x) /\ ~hasCommitted(rec[x])
  BY <1>4, <1>6 DEF BuildLapsed, Idle, FreePlaces
<1>7. CASE SettleBurn(p, x)
  <2>1. CASE Continue(p, x, Idle)
    BY <1>4, <2>1 DEF Idle, FreePlaces
  <2>2. CASE ~Continue(p, x, Idle)
    <3>1. /\ op[p][x].pc = "settled" /\ op[p][x].step = Last /\ Current(p, x)
          /\ rec[x].state = "SOURCE_SUBMITTED"
          /\ Move(p, x, rec[x], "SOURCE_CONFIRMED", At("confirming", op[p][x].step, 0))
      BY <1>7, <2>2 DEF SettleBurn, Current
    <3>2. chain[x][Last][rec[x].executionId] = "confirmed"
      BY <3>1, TraceFacts, ConfirmedBurn DEF BurnCall
    <3> QED BY <1>3, <3>1, <3>2 DEF At, FreePlaces, BurnConfirmedStates
  <2> QED BY <2>1, <2>2
<1>8. CASE ResumeWaiting(p, x)
  <2>1. rec[x].state = "SOURCE_SUBMITTED" /\ rec[x].executionId # 0
    BY <1>8 DEF ResumeWaiting, CanResume, NamesItsBurn
  <2>2. CASE Status(x, Last) = "confirmed"
    BY <1>3, <1>8, <2>1, <2>2, ConfirmedBurn DEF ResumeWaiting, At, FreePlaces, BurnConfirmedStates
  <2>3. CASE Status(x, Last) # "confirmed"
    <3>1. rec'[x] = rec[x] /\ op'[p][x] = At("waiting", Last, rec[x].executionId)
      BY <1>1, <1>8, <2>3, ContinuedCall DEF ResumeWaiting
    <3>2. op'[p][x].pc = "waiting" /\ op'[p][x].step = Last /\ op'[p][x].tx = rec[x].executionId
      BY <3>1 DEF At
    <3>3. chain[x][Last][rec[x].executionId] # "unsent"
      BY <2>1, TraceFacts DEF NamedTrue, OnlyBurn
    <3>4. CallTrue(p, x)' /\ BurnCall(p, x)' /\ Passed(p, x)'
      BY <1>2, <2>1, <3>1, <3>2, <3>3 DEF CallTrue, BurnCall, Passed
    <3> QED BY <1>2, <3>1, <3>4, KeptLocal DEF Kept, CallLocal
  <2> QED BY <2>2, <2>3
<1>9. CASE Build(p, x)
  <2> DEFINE o == At("stepping", First, 0)
  <2>1. CASE Move(p, x, rec[x], "AWAITING_SIGNATURE", o)
    <3>0. /\ "AWAITING_SIGNATURE" \in {"QUOTED", "AWAITING_SIGNATURE", "EXPIRED"} \cup BurnConfirmedStates
          /\ "AWAITING_SIGNATURE" \notin {"SOURCE_CONFIRMED", "REFUNDED"}
      OBVIOUS
    <3>1. RecordLocal(x)
      BY <1>1, <1>2, <2>1, <3>0, MoveLocal
    <3>2. op'[p][x] = o
      BY <1>1, <2>1, MoveEffect
    <3>3. Moved(x, "AWAITING_SIGNATURE")
      BY <1>1, <2>1, MoveEffect
    <3>4. CallTrue(p, x)' /\ BurnCall(p, x)' /\ Passed(p, x)'
      BY <3>2, BeforeLemma DEF At, CallTrue, BurnCall, Passed
    <3> QED BY <3>1, <3>3, <3>4 DEF CallLocal, Moved
  <2>2. CASE Continue(p, x, o)
    <3>1. rec'[x] = rec[x] /\ op'[p][x] = o
      BY <1>1, <2>2, ContinuedCall
    <3>2. CallTrue(p, x)' /\ BurnCall(p, x)' /\ Passed(p, x)'
      BY <3>1, BeforeLemma DEF At, CallTrue, BurnCall, Passed
    <3> QED BY <1>2, <3>1, <3>2, KeptLocal DEF Kept, CallLocal
  <2> QED BY <1>9, <2>1, <2>2 DEF Build
<1> QED BY <1>5, <1>6, <1>7, <1>8, <1>9 DEF MoveAction

\* Every step of a page's call that sends nothing.
LEMMA PageTrace ==
  ASSUME SendInv, NEW p \in Pages, NEW x \in Execs, TraceOK(x), PageStep(p, x),
         ~WalletSends(p, x), ~WalletUnclear(p, x)
  PROVE  RecordLocal(x) /\ CallLocal(p, x)
<1>1. \/ KeptAction(p, x) \/ MoveAction(p, x) \/ FailAction(p, x) \/ Create(p, x)
      \/ MoveToSubmitted(p, x) \/ StepPrepaid(p, x) \/ MarkSending(p, x) \/ ClaimBuilt(p, x)
      \/ WalletRefuses(p, x) \/ SaveSubmitted(p, x) \/ SeeConfirmed(p, x) \/ SeeFailed(p, x)
      \/ Answer(p, x)
  BY DEF PageStep, StartCall, ClaimCall, Resumes, KeptAction, MoveAction, FailAction
<1> QED BY <1>1, KeptTrace, MoveTrace, FailTrace, CreateTrace, NamedTrace, PrepaidTrace,
      MarkSendingTrace, ClaimBuiltTrace, WalletRefusesTrace, SaveSubmittedTrace, SeenTrace, AnswerTrace

-----------------------------------------------------------------------------
(* A transaction goes out.                                                 *)

LEMMA SentTrace ==
  ASSUME SendInv, NEW p \in Pages, NEW x \in Execs, TraceOK(x), OthersKeep(p, x), Kept(x),
         op[p][x].pc = "asking", settle' = settle,
         NEW s \in StepIds, s = op[p][x].step, NEW n \in 1..MaxSends, CanSend(x, s, n),
         chain' = [chain EXCEPT ![x][s][n] = "inflight"],
         \/ op'[p][x].pc = "idle"
         \/ op'[p][x].pc = "sent" /\ op'[p][x].step = s /\ op'[p][x].tx = n
  PROVE  TraceOK(x)'
<1>1. /\ SendOK(x) /\ NamedTrue(x) /\ InOrder(x) /\ FundsOK(x) /\ SentPassed(x)
      /\ \A q \in Pages : CallTrue(q, x) /\ BurnCall(q, x) /\ Passed(q, x)
      /\ TypeOK /\ SavedTrue(x) /\ MaxSends \in Nat \ {0}
  BY BoundsAssumption DEF TraceOK, SendInv, TypeInv
<1>2. /\ chain'[x][s][n] = "inflight" /\ chain[x][s][n] = "unsent"
      /\ \A t \in StepIds, m \in 1..MaxSends : t # s \/ m # n => chain'[x][t][m] = chain[x][t][m]
  BY <1>1 DEF TypeOK, CanSend
<1>3. \A t \in StepIds, m \in 1..MaxSends : chain[x][t][m] # "unsent" => chain'[x][t][m] = chain[x][t][m]
  BY <1>2
<1>4. \A t \in StepIds : Done(x, t) => Done(x, t)'
  BY <1>1, <1>3 DEF Done, Kept, Status
<1>5. InOrder(x)'
  <2> SUFFICES ASSUME NEW t \in StepIds, NEW l \in 1..MaxSends, NEW m \in 1..MaxSends,
                      l < m, chain'[x][t][m] # "unsent"
               PROVE  chain'[x][t][l] # "unsent"
    BY DEF InOrder
  <2>1. CASE t = s /\ m = n
    <3>1. l \in 1..(n - 1)
      BY <2>1
    <3>2. chain[x][s][l] # "unsent"
      BY <3>1 DEF CanSend
    <3> QED BY <1>3, <2>1, <3>2
  <2>2. CASE t # s \/ m # n
    <3>1. chain[x][t][m] # "unsent"
      BY <1>2, <2>2
    <3>2. chain[x][t][l] # "unsent"
      BY <1>1, <3>1 DEF InOrder
    <3> QED BY <1>3, <3>2
  <2> QED BY <2>1, <2>2
<1>6. SavedTrue(x)'
  <2>1. \A t \in StepIds : rec[x].steps[t].tx \in 0..MaxSends
    BY <1>1 DEF TypeOK, Record, TxNo
  <2>2. ASSUME NEW t \in StepIds, rec[x].steps[t].tx # 0
        PROVE  chain'[x][t][rec[x].steps[t].tx] = chain[x][t][rec[x].steps[t].tx]
    <3>1. rec[x].steps[t].tx \in 1..MaxSends /\ chain[x][t][rec[x].steps[t].tx] # "unsent"
      BY <1>1, <2>1, <2>2 DEF SavedTrue, StepTrue
    <3> QED BY <1>3, <3>1
  <2>3. rec'[x].steps = rec[x].steps
    BY DEF Kept
  <2>4. ASSUME NEW t \in StepIds
        PROVE  IF rec'[x].steps[t].tx = 0
                 THEN \/ rec'[x].steps[t].status \in {"none", "pending", "sending"}
                      \/ t = "fee" /\ rec'[x].steps[t].status = "confirmed"
                 ELSE /\ rec'[x].steps[t].status \in {"submitted", "confirmed", "failed"}
                      /\ chain'[x][t][rec'[x].steps[t].tx] # "unsent"
                      /\ rec'[x].steps[t].status # "submitted" =>
                           chain'[x][t][rec'[x].steps[t].tx] = rec'[x].steps[t].status
    <3>1. StepTrue(x, t, rec[x].steps[t].status, rec[x].steps[t].tx)
      BY <1>1 DEF SavedTrue
    <3> QED BY <2>2, <2>3, <3>1 DEF StepTrue
  <2> QED BY <2>4 DEF SavedTrue, StepTrue
<1>7. SentPassed(x)'
  <2> SUFFICES ASSUME NEW t \in StepIds, chain'[x][t][1] # "unsent", NEW b \in Before(t)
               PROVE  Done(x, b)'
    BY DEF SentPassed
  <2>1. b \in StepIds
    BY BeforeLemma
  <2>2. CASE chain[x][t][1] # "unsent"
    BY <1>1, <1>4, <2>1, <2>2 DEF SentPassed
  <2>3. CASE chain[x][t][1] = "unsent"
    <3>1. t = s
      BY <1>1, <1>2, <2>3
    <3> QED BY <1>1, <1>4, <2>1, <3>1, BeforeLemma DEF Passed
  <2> QED BY <2>2, <2>3
<1>8. FundsOK(x)'
  <2>1. Minted(x)' <=> Minted(x)
    BY <1>2, OpLemma DEF Minted
  <2>2. Burned(x)' <=> Burned(x)
    <3>1. "burn" \in StepIds
      BY LastLemma, SourceStepsAssumption
    <3> QED BY <1>2, <3>1 DEF Burned
  <2> QED BY <1>1, <2>1, <2>2 DEF FundsOK
<1>9. s = Last => /\ rec[x].executionId = 0 /\ InLoop(p, x)
                  /\ \A q \in Pages : q # p => ~InLoop(q, x)
  BY <1>1, LastLemma DEF BurnCall, InLoop, SendOK, FreshOK
<1>10. s # Last => chain'[x][Last] = chain[x][Last]
  BY <1>1, LastLemma DEF TypeOK
<1>11. NamedTrue(x)'
  <2>1. ASSUME rec[x].executionId # 0 PROVE chain'[x][Last] = chain[x][Last]
    BY <1>9, <1>10, <2>1
  <2>2. rec[x].executionId # 0 => OnlyBurn(x, rec[x].executionId)'
    BY <1>1, <2>1 DEF NamedTrue, OnlyBurn, Live, Kept
  <2>3. rec'[x].executionId = rec[x].executionId
    BY DEF Kept
  <2> QED BY <1>1, <2>1, <2>2, <2>3 DEF NamedTrue, Kept, BurnStates
<1>12. ASSUME NEW q \in Pages, q # p
       PROVE  CallTrue(q, x)' /\ BurnCall(q, x)' /\ Passed(q, x)'
  <2>1. /\ op'[q][x].pc = op[q][x].pc /\ op'[q][x].step = op[q][x].step
        /\ op'[q][x].tx = op[q][x].tx /\ op[q][x].step \in StepIds /\ op[q][x].tx \in TxNo
        /\ Current(q, x)' /\ op[q][x].pc # "idle" => Current(q, x) /\ rec'[x] = rec[x]
    BY <1>12, Facts DEF OthersKeep, Current
  <2>2. CallTrue(q, x)'
    <3>1. op[q][x].pc \in {"sent", "moving", "waiting", "settled", "stepFailed"} =>
            chain'[x][op[q][x].step][op[q][x].tx] = chain[x][op[q][x].step][op[q][x].tx]
      BY <1>1, <1>3, <2>1, TraceFacts DEF CallTrue
    <3> QED BY <1>1, <2>1, <3>1 DEF CallTrue
  <2>3. BurnCall(q, x)'
    <3>1. ASSUME op[q][x].pc \in {"sent", "moving"}, op[q][x].step = Last
          PROVE  OnlyBurn(x, op[q][x].tx)'
      <4>1. s # Last
        BY <1>9, <1>12, <3>1, LastLemma DEF InLoop
      <4> QED BY <1>1, <1>10, <2>1, <3>1, <4>1 DEF BurnCall, OnlyBurn, Live
    <3>2. rec'[x].executionId = rec[x].executionId
      BY DEF Kept
    <3> QED BY <1>1, <2>1, <3>1, <3>2 DEF BurnCall, Status
  <2>4. Passed(q, x)'
    BY <1>1, <1>4, <2>1, BeforeLemma DEF Passed
  <2> QED BY <2>2, <2>3, <2>4
<1>13. CASE op'[p][x].pc = "idle"
  <2>1. CallTrue(p, x)' /\ BurnCall(p, x)' /\ Passed(p, x)'
    BY <1>13 DEF CallTrue, BurnCall, Passed
  <2> QED BY <1>5, <1>6, <1>7, <1>8, <1>11, <1>12, <2>1 DEF TraceOK
<1>14. CASE op'[p][x].pc = "sent" /\ op'[p][x].step = s /\ op'[p][x].tx = n
  <2>1. CallTrue(p, x)'
    BY <1>1, <1>2, <1>14 DEF CallTrue
  <2>2. Passed(p, x)'
    BY <1>1, <1>4, <1>14, BeforeLemma DEF Passed
  <2>3. s = Last => OnlyBurn(x, n)'
    <3> SUFFICES ASSUME s = Last PROVE OnlyBurn(x, n)'
      OBVIOUS
    <3>1. ASSUME NEW m \in 1..MaxSends, m > n PROVE chain'[x][s][m] = "unsent"
      <4>1. chain[x][s][m] = "unsent"
        BY <1>1, <1>2, <3>1 DEF InOrder
      <4> QED BY <1>2, <3>1, <4>1
    <3>2. Live(x, s) = {}
      BY <1>1 DEF SendOK, PromptOK, Asking
    <3>3. Live(x, s)' \subseteq {n}
      BY <1>2, <3>2 DEF Live
    <3> QED BY <1>2, <3>1, <3>3 DEF OnlyBurn
  <2>4. BurnCall(p, x)'
    BY <1>9, <1>14, <2>3 DEF BurnCall, Kept
  <2> QED BY <1>5, <1>6, <1>7, <1>8, <1>11, <1>12, <2>1, <2>2, <2>4 DEF TraceOK
<1> QED BY <1>13, <1>14

\* The wallet sent the step it was asked for, or the call ended without a word.
LEMMA WalletTrace ==
  ASSUME SendInv, NEW p \in Pages, NEW x \in Execs, TraceOK(x),
         WalletSends(p, x) \/ WalletUnclear(p, x)
  PROVE  TraceOK(x)' /\ Kept(x)
<1>1. TypeOK /\ rec[x] \in Record /\ op[p][x] \in Op /\ op[p][x].step \in StepIds
  BY Facts
<1>2. OthersKeep(p, x) /\ settle' = settle /\ op[p][x].pc = "asking"
  <2>1. PageStep(p, x)
    BY DEF PageStep, Resumes
  <2>2. Goes(p, x)
    BY <2>1, PageStepGoes DEF SendInv
  <2> QED BY <2>2, GoesKeeps DEF SendInv, WalletSends, WalletUnclear
<1>3. rec'[x] = rec[x] \/ rec'[x] = Flagged(rec[x])
  BY <1>1, SavedCall DEF WalletSends, WalletUnclear, Continue
<1>4. Kept(x)
  BY <1>1, <1>3, FlaggedKept DEF Kept
<1>5. CASE WalletSends(p, x)
  <2>1. PICK n \in 1..MaxSends :
          /\ CanSend(x, op[p][x].step, n)
          /\ chain' = [chain EXCEPT ![x][op[p][x].step][n] = "inflight"]
          /\ Continue(p, x, [op[p][x] EXCEPT !.pc = "sent", !.tx = n])
    BY <1>5 DEF WalletSends
  <2>2. op'[p][x] = [op[p][x] EXCEPT !.pc = "sent", !.tx = n]
    BY <1>1, <2>1, ContinuedCall
  <2>3. op'[p][x].pc = "sent" /\ op'[p][x].step = op[p][x].step /\ op'[p][x].tx = n
    BY <1>1, <2>2 DEF Op
  <2> QED BY <1>1, <1>2, <1>4, <2>1, <2>3, SentTrace
<1>6. CASE WalletUnclear(p, x)
  <2>1. op'[p][x] = Idle
    <3>1. Continue(p, x, Idle) \/ Save(p, x, Flagged(rec[x]), Idle)
      BY <1>6 DEF WalletUnclear
    <3> QED BY <1>1, <3>1, SavedCall, ContinuedCall
  <2>2. op'[p][x].pc = "idle"
    BY <2>1 DEF Idle
  <2>3. CASE chain' = chain
    <3>1. RecordLocal(x)
      BY <1>4, <2>3, KeptLocal
    <3>2. op'[p][x].pc \in FreePlaces /\ rec'[x].executionId = rec[x].executionId
      BY <1>4, <2>2 DEF FreePlaces, Kept
    <3>3. CallLocal(p, x)
      BY <3>2, FreeLocal
    <3> QED BY <1>2, <1>4, <2>3, <3>1, <3>3, TraceLocal
  <2>4. CASE chain' # chain
    <3>1. PICK n \in 1..MaxSends :
            /\ CanSend(x, op[p][x].step, n)
            /\ chain' = [chain EXCEPT ![x][op[p][x].step][n] = "inflight"]
      BY <1>6, <2>4 DEF WalletUnclear
    <3> QED BY <1>1, <1>2, <1>4, <2>2, <3>1, SentTrace
  <2> QED BY <2>3, <2>4
<1> QED BY <1>5, <1>6

-----------------------------------------------------------------------------
(* The invariant is kept.                                                  *)

\* Nothing is sent or saved: calls may be lost and transactions may end.
LEMMA RestTrace ==
  ASSUME SendInv, NEW x \in Execs, TraceOK(x), rec'[x] = rec[x],
         \A q \in Pages : op'[q][x] = op[q][x] \/ op'[q][x] = Idle,
         \A s \in StepIds, m \in 1..MaxSends :
           /\ chain'[x][s][m] = "unsent" <=> chain[x][s][m] = "unsent"
           /\ chain[x][s][m] \in {"confirmed", "failed"} => chain'[x][s][m] = chain[x][s][m],
         \A s \in StepIds : Live(x, s)' \subseteq Live(x, s),
         FundsOK(x)'
  PROVE  TraceOK(x)'
<1>1. InOrder(x) /\ SavedTrue(x) /\ NamedTrue(x) /\ SentPassed(x) /\ 1 \in 1..MaxSends
  BY BoundsAssumption DEF TraceOK
<1>2. Last \in StepIds /\ rec[x].executionId \in 0..MaxSends
      /\ \A t \in StepIds : rec[x].steps[t].tx \in 0..MaxSends
  BY LastLemma DEF SendInv, TypeInv, TypeOK, Record, TxNo
<1>3. InOrder(x)'
  BY <1>1 DEF InOrder
<1>4. SavedTrue(x)'
  <2> SUFFICES ASSUME NEW t \in StepIds
               PROVE  IF rec[x].steps[t].tx = 0
                        THEN \/ rec[x].steps[t].status \in {"none", "pending", "sending"}
                             \/ t = "fee" /\ rec[x].steps[t].status = "confirmed"
                        ELSE /\ rec[x].steps[t].status \in {"submitted", "confirmed", "failed"}
                             /\ chain'[x][t][rec[x].steps[t].tx] # "unsent"
                             /\ rec[x].steps[t].status # "submitted" =>
                                  chain'[x][t][rec[x].steps[t].tx] = rec[x].steps[t].status
    BY DEF SavedTrue, StepTrue
  <2>1. StepTrue(x, t, rec[x].steps[t].status, rec[x].steps[t].tx)
    BY <1>1 DEF SavedTrue
  <2>2. rec[x].steps[t].tx = 0 \/ rec[x].steps[t].tx \in 1..MaxSends
    BY <1>2, BoundsAssumption
  <2> QED BY <2>1, <2>2 DEF StepTrue
<1>5. ASSUME NEW n \in 1..MaxSends, OnlyBurn(x, n) PROVE OnlyBurn(x, n)'
  BY <1>2, <1>5 DEF OnlyBurn
<1>6. NamedTrue(x)'
  <2>1. rec[x].executionId # 0 => rec[x].executionId \in 1..MaxSends
    BY <1>2, BoundsAssumption
  <2>2. rec[x].executionId # 0 => OnlyBurn(x, rec[x].executionId)'
    <3> SUFFICES ASSUME NEW n \in 1..MaxSends, n = rec[x].executionId, OnlyBurn(x, n)'
                 PROVE  OnlyBurn(x, rec[x].executionId)'
      BY <1>1, <1>5, <2>1 DEF NamedTrue
    <3> QED BY DEF OnlyBurn
  <2> QED BY <1>1, <1>2, <2>1, <2>2 DEF NamedTrue, BurnStates
<1>7. \A s \in StepIds : Done(x, s) => Done(x, s)'
  BY <1>1 DEF Done, Status
<1>8. SentPassed(x)'
  BY <1>1, <1>7, BeforeLemma DEF SentPassed
<1>9. ASSUME NEW q \in Pages PROVE CallTrue(q, x)' /\ BurnCall(q, x)' /\ Passed(q, x)'
  <2>1. CASE op'[q][x] = Idle
    BY <2>1 DEF Idle, CallTrue, BurnCall, Passed
  <2>2. CASE op'[q][x] = op[q][x]
    <3>1. /\ CallTrue(q, x) /\ BurnCall(q, x) /\ Passed(q, x) /\ op[q][x].step \in StepIds
          /\ op[q][x].pc \in {"sent", "moving", "waiting", "settled", "stepFailed"} =>
               op[q][x].tx \in 1..MaxSends
      BY TraceFacts, Facts
    <3>2. CallTrue(q, x)'
      BY <2>2, <3>1 DEF CallTrue
    <3>3. BurnCall(q, x)'
      <4>1. ASSUME op[q][x].pc \in {"sent", "moving"}, op[q][x].step = Last
            PROVE  OnlyBurn(x, op[q][x].tx)'
        <5> SUFFICES ASSUME NEW n \in 1..MaxSends, n = op[q][x].tx, OnlyBurn(x, n)'
                     PROVE  OnlyBurn(x, op[q][x].tx)'
          BY <1>5, <3>1, <4>1 DEF BurnCall
        <5> QED BY <2>2 DEF OnlyBurn
      <4> QED BY <2>2, <3>1, <4>1 DEF BurnCall, Current, Status
    <3>4. Passed(q, x)'
      BY <1>7, <2>2, <3>1, BeforeLemma DEF Passed
    <3> QED BY <3>2, <3>3, <3>4
  <2> QED BY <2>1, <2>2
<1> QED BY <1>3, <1>4, <1>6, <1>8, <1>9 DEF TraceOK

LEMMA LandsTrace ==
  ASSUME SendInv, NEW x \in Execs, TraceOK(x),
         NEW y \in Execs, NEW t \in StepIds, NEW n \in 1..MaxSends, Lands(y, t, n)
  PROVE  TraceOK(x)'
<1>1. TypeOK
  BY DEF SendInv, TypeInv
<1>2. PICK outcome \in {"confirmed", "failed", "dropped"} :
        /\ outcome = "confirmed" /\ t = "mint" => Burned(y) /\ settle[y] = "open" /\ ~Minted(y)
        /\ chain' = [chain EXCEPT ![y][t][n] = outcome]
  BY DEF Lands
<1>3. rec' = rec /\ op' = op /\ settle' = settle /\ chain[y][t][n] = "inflight"
  BY DEF Lands
<1>4. \A s \in StepIds, m \in 1..MaxSends :
        \/ chain'[x][s][m] = chain[x][s][m]
        \/ y = x /\ s = t /\ chain[x][s][m] = "inflight" /\ chain'[x][s][m] = outcome
  BY <1>1, <1>2, <1>3 DEF TypeOK
<1>5. \A s \in StepIds : Live(x, s)' \subseteq Live(x, s)
  BY <1>4 DEF Live
<1>6. FundsOK(x)'
  <2>1. "burn" \in StepIds /\ "mint" \in StepIds /\ FundsOK(x)
    BY LastLemma, SourceStepsAssumption, OpLemma DEF TraceOK
  <2>2. Burned(x) => Burned(x)'
    BY <1>4, <2>1 DEF Burned
  <2>3. Minted(x)' => Minted(x) \/ (Burned(x) /\ settle[x] = "open" /\ ~Minted(x))
    BY <1>2, <1>3, <1>4, <2>1 DEF Minted
  <2> QED BY <1>3, <2>1, <2>2, <2>3 DEF FundsOK
<1> QED BY <1>3, <1>4, <1>5, <1>6, RestTrace

LEMMA EndsTrace ==
  ASSUME SendInv, NEW x \in Execs, TraceOK(x), NEW y \in Execs, SettlementEnds(y)
  PROVE  TraceOK(x)'
<1>1. rec' = rec /\ op' = op /\ chain' = chain /\ TypeOK
  BY DEF SendInv, TypeInv, SettlementEnds
<1>2. /\ Burned(y) /\ ~Minted(y)
      /\ settle'[x] = settle[x] \/ (y = x /\ settle'[x] \in {"relayed", "returned"})
  BY <1>1 DEF SettlementEnds, TypeOK
<1>3. Burned(x)' <=> Burned(x)
  BY <1>1 DEF Burned
<1>4. settle'[x] = settle[x] => (Minted(x)' <=> Minted(x))
  BY <1>1 DEF Minted
<1>5. settle'[x] = "returned" /\ ~Minted(x) => ~Minted(x)'
  BY <1>1 DEF Minted
<1>6. FundsOK(x)'
  BY <1>2, <1>3, <1>4, <1>5 DEF TraceOK, FundsOK
<1>7. \A s \in StepIds : Live(x, s)' \subseteq Live(x, s)
  BY <1>1 DEF Live
<1> QED BY <1>1, <1>6, <1>7, RestTrace

LEMMA EnvironmentTrace ==
  ASSUME SendInv, NEW x \in Execs, TraceOK(x), Environment \/ UNCHANGED vars
  PROVE  TraceOK(x)' /\ Honest(x)
<1>1. rec' = rec
  BY DEF Environment, Crash, LedgerLapses, QuoteLapses, SettlementEnds, Lands, vars
<1>2. CASE \E p \in Pages : Crash(p) \/ LedgerLapses(p)
  <2>1. PICK p \in Pages : Crash(p) \/ LedgerLapses(p)
    BY <1>2
  <2>2. chain' = chain /\ settle' = settle
    BY <2>1 DEF Crash, LedgerLapses
  <2>3. \A q \in Pages : op'[q][x] = op[q][x] \/ op'[q][x] = Idle
    <3>1. TypeOK
      BY DEF SendInv, TypeInv
    <3>2. op' = op \/ op' = [op EXCEPT ![p] = [y \in Execs |-> Idle]]
      BY <2>1 DEF Crash, LedgerLapses
    <3>3. CASE op' = [op EXCEPT ![p] = [y \in Execs |-> Idle]]
      BY <3>1, <3>3 DEF TypeOK
    <3> QED BY <3>2, <3>3
  <2>4. FundsOK(x)' /\ \A s \in StepIds : Live(x, s)' \subseteq Live(x, s)
    BY <2>2 DEF TraceOK, FundsOK, Minted, Burned, Live
  <2> QED BY <1>1, <2>2, <2>3, <2>4, RestTrace DEF Honest
<1>3. CASE UNCHANGED <<rec, op, chain, settle>>
  <2>1. FundsOK(x)' /\ \A s \in StepIds : Live(x, s)' \subseteq Live(x, s)
    BY <1>3 DEF TraceOK, FundsOK, Minted, Burned, Live
  <2> QED BY <1>3, <2>1, RestTrace DEF Honest
<1>4. Honest(x)
  BY <1>1 DEF Honest
<1> QED BY <1>2, <1>3, <1>4, LandsTrace, EndsTrace DEF Environment, QuoteLapses, vars

\* The other executions keep what they know.
LEMMA OtherTrace ==
  ASSUME SendInv, NEW p \in Pages, NEW x \in Execs, PageStep(p, x),
         NEW y \in Execs, y # x, TraceOK(y)
  PROVE  TraceOK(y)' /\ Honest(y)
<1>1. rec'[y] = rec[y] /\ \A q \in Pages : op'[q][y] = op[q][y]
  BY PageStepGoes, GoesKeeps DEF SendInv
<1>2. chain'[y] = chain[y] /\ settle' = settle
  <2>1. CASE chain' = chain
    BY <2>1, PageStepSettles
  <2>2. CASE WalletSends(p, x) \/ WalletUnclear(p, x)
    BY <2>2 DEF WalletSends, WalletUnclear, SendInv, TypeInv, TypeOK
  <2> QED BY <2>1, <2>2, PageStepSettles
<1>3. FundsOK(y)' /\ \A s \in StepIds : Live(y, s)' \subseteq Live(y, s)
  BY <1>2 DEF TraceOK, FundsOK, Minted, Burned, Live
<1> QED BY <1>1, <1>2, <1>3, RestTrace DEF Honest

LEMMA TraceStep ==
  ASSUME SendInv, \A x \in Execs : TraceOK(x), [Next]_vars, NEW x \in Execs
  PROVE  TraceOK(x)' /\ Honest(x)
<1>1. ASSUME NEW p \in Pages, PageStep(p, x) PROVE TraceOK(x)' /\ Honest(x)
  <2>1. CASE WalletSends(p, x) \/ WalletUnclear(p, x)
    BY <2>1, WalletTrace DEF Kept, Honest
  <2>2. CASE ~WalletSends(p, x) /\ ~WalletUnclear(p, x)
    <3>1. RecordLocal(x) /\ CallLocal(p, x)
      BY <1>1, <2>2, PageTrace
    <3>2. OthersKeep(p, x)
      BY <1>1, PageStepGoes, GoesKeeps DEF SendInv
    <3>3. chain' = chain /\ settle' = settle
      BY <1>1, <2>2, PageStepSettles
    <3> QED BY <3>1, <3>2, <3>3, TraceLocal DEF RecordLocal
  <2> QED BY <2>1, <2>2
<1>2. ASSUME NEW p \in Pages, NEW y \in Execs, y # x, PageStep(p, y)
      PROVE  TraceOK(x)' /\ Honest(x)
  BY <1>2, OtherTrace
<1>3. CASE Environment \/ UNCHANGED vars
  BY <1>3, EnvironmentTrace
<1> QED BY <1>1, <1>2, <1>3 DEF Next, PageStep

LEMMA TraceInit ==
  ASSUME Init, NEW x \in Execs
  PROVE  TraceOK(x)
<1>1. /\ rec[x] = NoRecord /\ settle[x] = "open"
      /\ \A p \in Pages : op[p][x] = Idle
      /\ \A s \in StepIds, n \in 1..MaxSends : chain[x][s][n] = "unsent"
      /\ 1 \in 1..MaxSends /\ "mint" \in StepIds /\ "burn" \in StepIds
  BY BoundsAssumption, OpLemma, LastLemma, SourceStepsAssumption DEF Init
<1>2. InOrder(x) /\ SentPassed(x)
  BY <1>1 DEF InOrder, SentPassed
<1>6. \A s \in StepIds : rec[x].steps[s].status = "none" /\ rec[x].steps[s].tx = 0
  BY <1>1 DEF NoRecord
<1>7. SavedTrue(x)
  BY <1>6 DEF SavedTrue, StepTrue
<1>3. NamedTrue(x)
  BY <1>1 DEF NamedTrue, NoRecord, BurnStates, BurnConfirmedStates
<1>4. FundsOK(x)
  BY <1>1 DEF FundsOK, Minted, Burned
<1>5. ASSUME NEW p \in Pages PROVE CallTrue(p, x) /\ BurnCall(p, x) /\ Passed(p, x)
  <2>1. op[p][x].pc = "idle"
    BY <1>1 DEF Idle
  <2> QED BY <2>1 DEF CallTrue, BurnCall, Passed
<1> QED BY <1>2, <1>7, <1>3, <1>4, <1>5 DEF TraceOK

TraceInv == SendInv /\ \A x \in Execs : LapsedOK(x) /\ TraceOK(x)

LEMMA TraceInvariant == Spec => []TraceInv
<1>1. Init => TraceInv
  BY SendInit, TraceInit DEF Init, NoRecord, LapsedOK, TraceInv
<1>2. TraceInv /\ [Next]_vars => TraceInv'
  BY SendStep, LapsedStep, TraceStep DEF TraceInv
<1> QED BY <1>1, <1>2, PTL DEF Spec

-----------------------------------------------------------------------------
(* What follows from it.                                                   *)

LEMMA BurnFollowed ==
  ASSUME TraceInv, NEW x \in Execs
  PROVE  /\ rec[x].state \in BurnConfirmedStates =>
              /\ rec[x].executionId # 0
              /\ chain[x]["burn"][rec[x].executionId] = "confirmed" /\ Burned(x)
         /\ rec[x].failure = "fundsSafe" /\ rec[x].executionId # 0 => ~Burned(x)
<1>1. NamedTrue(x) /\ Last = "burn" /\ rec[x].executionId \in 0..MaxSends
  BY SourceStepsAssumption DEF TraceInv, TraceOK, SendInv, TypeInv, TypeOK, Record, TxNo
<1>2. ASSUME rec[x].state \in BurnConfirmedStates
      PROVE  /\ rec[x].executionId # 0
             /\ chain[x]["burn"][rec[x].executionId] = "confirmed" /\ Burned(x)
  <2>1. rec[x].executionId # 0 /\ chain[x]["burn"][rec[x].executionId] = "confirmed"
    BY <1>1, <1>2 DEF NamedTrue, BurnStates
  <2>2. rec[x].executionId \in 1..MaxSends
    BY <1>1, <2>1, BoundsAssumption
  <2> QED BY <2>1, <2>2 DEF Burned
<1>3. ASSUME rec[x].failure = "fundsSafe", rec[x].executionId # 0, Burned(x) PROVE FALSE
  <2>1. PICK n \in 1..MaxSends : chain[x][Last][n] = "confirmed"
    BY <1>1, <1>3 DEF Burned
  <2>2. n \in Live(x, Last)
    BY <2>1 DEF Live
  <2>3. Live(x, Last) \subseteq {rec[x].executionId} /\ chain[x][Last][rec[x].executionId] = "failed"
    BY <1>1, <1>3 DEF NamedTrue, OnlyBurn
  <2> QED BY <2>1, <2>2, <2>3
<1> QED BY <1>2, <1>3

\* The record never takes another burn for its own, and what it says of its own is
\* true, for any tabs, crashes, unclear wallet answers and resent burns
\* (orchestrator.ts: executionId names the burn the settlement follows).
THEOREM FollowsItsOwnBurnAlways == Spec => []FollowsItsOwnBurn
<1>1. TraceInv => FollowsItsOwnBurn
  BY BurnFollowed DEF FollowsItsOwnBurn, BurnConfirmedStates
<1> QED BY <1>1, TraceInvariant, PTL

\* No source step goes out before every earlier one did, or was paid by an earlier
\* attempt: declined, answered and resumed signatures never make the loop skip one
\* (orchestrator.ts start: the loop over the built transactions).
THEOREM NoStepSkippedAlways == Spec => []NoStepSkipped
<1>1. TraceInv => NoStepSkipped
  <2> SUFFICES ASSUME TraceInv, NEW x \in Execs,
                      NEW i \in 1..Len(SourceSteps), NEW j \in 1..Len(SourceSteps),
                      i < j, chain[x][SourceSteps[j]][1] # "unsent"
               PROVE  Done(x, SourceSteps[i])
    BY DEF NoStepSkipped, Done
  <2>1. SourceSteps[i] \in Before(SourceSteps[j])
    BY DEF Before
  <2>2. SourceSteps[j] \in StepIds
    BY DEF StepIds
  <2> QED BY <2>1, <2>2 DEF TraceInv, TraceOK, SentPassed
<1> QED BY <1>1, TraceInvariant, PTL

-----------------------------------------------------------------------------
(* Part 4: the orchestrator implements SettlementMove.                     *)

\* Where the funds of x are, as the chains and the settlement say.
FundsAre(x) ==
  /\ Minted(x) => fundsBar[x] = "destination"
  /\ ~Minted(x) /\ settle[x] = "returned" => fundsBar[x] = "returned"
  /\ ~Minted(x) /\ settle[x] # "returned" /\ Burned(x) => fundsBar[x] = "burned"
  /\ ~Minted(x) /\ settle[x] # "returned" /\ ~Burned(x) => fundsBar[x] = "source"

ReportIs(x) ==
  reportBar[x] =
    IF rec[x].state \in {"SOURCE_CONFIRMED", "SETTLEMENT_PENDING"} THEN "inTransit"
    ELSE IF rec[x].state \in {"DESTINATION_RECEIVED", "COMPLETED"} THEN "arrived"
    ELSE IF rec[x].state = "EXPIRED" THEN "expired"
    ELSE IF rec[x].state = "REFUNDED" THEN "refunded"
    ELSE IF rec[x].state = "FAILED"
      THEN IF rec[x].failure = "fundsAtRisk" THEN "failedAtRisk" ELSE "failedSafe"
    ELSE "open"

LEMMA BarsLemma ==
  ASSUME NEW x \in Execs
  PROVE  /\ FundsOK(x) => FundsAre(x)
         /\ FundsOK(x)' => FundsAre(x)'
         /\ ReportIs(x) /\ ReportIs(x)'
<1>1. FundsOK(x) => FundsAre(x)
  BY DEF FundsOK, FundsAre, fundsBar
<1>2. FundsOK(x)' => FundsAre(x)'
  BY DEF FundsOK, FundsAre, fundsBar
<1>3. ReportIs(x) /\ ReportIs(x)'
  BY DEF ReportIs, reportBar
<1> QED BY <1>1, <1>2, <1>3

\* Where the funds are does not change with what pages do.
FundsStay(x) ==
  /\ Minted(x)' <=> Minted(x)
  /\ Burned(x)' <=> Burned(x)
  /\ settle'[x] = settle[x]

\* Nothing of an expired execution was burned.
LEMMA ExpiredUnburned ==
  ASSUME TraceInv, NEW x \in Execs, rec[x].state = "EXPIRED"
  PROVE  ~Burned(x) /\ ~Minted(x) /\ settle[x] = "open" /\ \A s \in StepIds : Live(x, s) = {}
<1>1. \A s \in StepIds : Live(x, s) = {}
  BY DEF TraceInv, SendInv, SendOK, UnsentOK, LapsedOK, hasCommitted, Status
<1>2. "burn" \in StepIds
  BY LastLemma, SourceStepsAssumption
<1>3. ~Burned(x)
  BY <1>1, <1>2 DEF Burned, Live
<1> QED BY <1>1, <1>3 DEF TraceInv, TraceOK, FundsOK

ReportStep(x) ==
  \/ reportBar'[x] = reportBar[x]
  \/ reportBar[x] = "open" /\ reportBar'[x] = "expired" /\ fundsBar[x] = "source"
  \/ reportBar[x] = "open" /\ reportBar'[x] = "failedSafe"
  \/ reportBar[x] = "open" /\ reportBar'[x] = "inTransit" /\ fundsBar[x] # "source"
  \/ reportBar[x] = "inTransit" /\ reportBar'[x] = "arrived" /\ fundsBar[x] = "destination"
  \/ /\ reportBar[x] = "inTransit" /\ reportBar'[x] \in {"failedAtRisk", "refunded"}
     /\ fundsBar[x] = "returned"

\* An execution whose burn is confirmed does not fail with funds safe.
LEMMA NoSafeFailure ==
  ASSUME TraceInv, TraceInv', NEW x \in Execs, Honest(x), FundsStay(x),
         rec[x].state \in BurnConfirmedStates, rec'[x].state = "FAILED"
  PROVE  rec'[x].failure # "fundsSafe"
<1>1. rec[x].executionId # 0 /\ Burned(x)
  BY BurnFollowed
<1>2. rec'[x].executionId = rec[x].executionId
  BY DEF Honest, BurnConfirmedStates
<1>3. NamedTrue(x)' /\ Last = "burn" /\ Last \in StepIds
  BY SourceStepsAssumption, LastLemma DEF TraceInv, TraceOK
<1> SUFFICES ASSUME rec'[x].failure = "fundsSafe" PROVE FALSE
  OBVIOUS
<1>4. PICK n \in 1..MaxSends : chain'[x][Last][n] = "confirmed"
  BY <1>1, <1>3 DEF FundsStay, Burned
<1>5. chain'[x][Last][rec[x].executionId] = "failed" /\ Live(x, Last)' \subseteq {rec[x].executionId}
  <2>1. chain'[x][Last][rec'[x].executionId] = "failed"
    BY <1>1, <1>2, <1>3 DEF NamedTrue
  <2>2. Live(x, Last)' \subseteq {rec'[x].executionId}
    BY <1>1, <1>2, <1>3 DEF NamedTrue, OnlyBurn
  <2> QED BY <1>2, <2>1, <2>2
<1>6. n \in Live(x, Last)'
  BY <1>4 DEF Live
<1> QED BY <1>4, <1>5, <1>6

LEMMA ReportSteps ==
  ASSUME TraceInv, TraceInv', NEW x \in Execs, StateStep(x), Honest(x), FundsStay(x)
  PROVE  ReportStep(x)
<1> DEFINE s == rec[x].state
           t == rec'[x].state
<1>1. /\ NamedTrue(x) /\ FundsOK(x) /\ NamedTrue(x)' /\ ReportIs(x) /\ ReportIs(x)'
      /\ FundsAre(x) /\ s \in ExecutionStates
  BY BarsLemma DEF TraceInv, TraceOK, SendInv, TypeInv, TypeOK, Record
<1>2. CASE t = s /\ rec'[x].failure = rec[x].failure
  BY <1>1, <1>2 DEF ReportIs, ReportStep
<1>3. CASE s = "none" /\ t = "CREATED"
  BY <1>1, <1>3 DEF ReportIs, ReportStep
<1>4. CASE Allowed(rec[x], t) /\ (t = "DESTINATION_RECEIVED" => Minted(x))
  <2>1. t \in NEXT(s) /\ s \notin Final /\ s # "DESTINATION_EXECUTED" /\ t # "DESTINATION_EXECUTED"
    BY <1>1, <1>4 DEF Allowed, NamedTrue
  <2>2. CASE t \in {"QUOTED", "AWAITING_SIGNATURE", "SOURCE_SUBMITTED"}
    <3>1. s \in {"CREATED", "QUOTED", "AWAITING_SIGNATURE"}
      BY <1>1, <2>1, <2>2 DEF NEXT, ExecutionStates, Final
    <3> QED BY <1>1, <2>2, <3>1 DEF ReportIs, ReportStep
  <2>3. CASE t = "SOURCE_CONFIRMED"
    <3>1. s = "SOURCE_SUBMITTED"
      BY <1>1, <2>1, <2>3 DEF NEXT, ExecutionStates, Final
    <3>2. Burned(x)'
      <4>1. rec'[x].executionId \in 1..MaxSends /\ chain'[x][Last][rec'[x].executionId] = "confirmed"
        <5>1. rec'[x].executionId # 0 /\ chain'[x][Last][rec'[x].executionId] = "confirmed"
          BY <1>1, <2>3 DEF NamedTrue, BurnStates, BurnConfirmedStates
        <5>2. rec'[x].executionId \in 0..MaxSends
          BY DEF TraceInv, SendInv, TypeInv, TypeOK, Record, TxNo
        <5> QED BY <5>1, <5>2, BoundsAssumption
      <4> QED BY <4>1, SourceStepsAssumption DEF Burned
    <3>3. fundsBar[x] # "source"
      BY <1>1, <3>2 DEF FundsStay, FundsAre
    <3> QED BY <1>1, <2>3, <3>1, <3>3 DEF ReportIs, ReportStep
  <2>4. CASE t = "SETTLEMENT_PENDING"
    <3>1. s = "SOURCE_CONFIRMED"
      BY <1>1, <2>1, <2>4 DEF NEXT, ExecutionStates, Final
    <3> QED BY <1>1, <2>4, <3>1 DEF ReportIs, ReportStep
  <2>5. CASE t = "DESTINATION_RECEIVED"
    <3>1. s = "SETTLEMENT_PENDING"
      BY <1>1, <2>1, <2>5 DEF NEXT, ExecutionStates, Final
    <3> QED BY <1>1, <1>4, <2>5, <3>1 DEF ReportIs, ReportStep, FundsAre
  <2>6. CASE t = "COMPLETED"
    <3>1. s = "DESTINATION_RECEIVED"
      BY <1>1, <2>1, <2>6 DEF NEXT, ExecutionStates, Final
    <3> QED BY <1>1, <2>6, <3>1 DEF ReportIs, ReportStep
  <2>7. CASE t = "REFUNDED"
    <3>1. s = "SETTLEMENT_PENDING" /\ settle[x] = "returned"
      BY <1>1, <2>1, <2>7 DEF NEXT, ExecutionStates, Final, Honest
    <3>2. fundsBar[x] = "returned"
      BY <1>1, <3>1 DEF FundsOK, FundsAre
    <3> QED BY <1>1, <2>7, <3>1, <3>2 DEF ReportIs, ReportStep
  <2>8. CASE t = "EXPIRED"
    <3>1. s \in {"CREATED", "QUOTED", "AWAITING_SIGNATURE"}
      BY <1>1, <2>1, <2>8 DEF NEXT, ExecutionStates, Final
    <3>2. ~Burned(x)' /\ ~Minted(x)' /\ settle'[x] = "open"
      <4>1. \A r \in StepIds : Live(x, r)' = {}
        BY <2>8 DEF TraceInv, SendInv, SendOK, UnsentOK, LapsedOK, hasCommitted, Status
      <4>2. "burn" \in StepIds
        BY LastLemma, SourceStepsAssumption
      <4>3. ~Burned(x)'
        BY <4>1, <4>2 DEF Burned, Live
      <4> QED BY <4>3 DEF TraceInv, SendInv, TypeInv, TypeOK, TraceOK, FundsOK
    <3>3. fundsBar[x] = "source"
      BY <1>1, <3>2 DEF FundsStay, FundsAre
    <3> QED BY <1>1, <2>8, <3>1, <3>3 DEF ReportIs, ReportStep
  <2>9. CASE t = "FAILED"
    <3>1. \/ rec'[x].failure = "fundsSafe"
          \/ rec'[x].failure = "fundsAtRisk" /\ s = "SETTLEMENT_PENDING" /\ settle[x] = "returned"
      BY <2>1, <2>9 DEF Honest, Final
    <3>2. CASE rec'[x].failure = "fundsSafe"
      <4>1. s \notin BurnConfirmedStates
        BY <2>9, <3>2, NoSafeFailure
      <4>2. reportBar[x] = "open"
        BY <1>1, <2>1, <4>1 DEF ReportIs, BurnConfirmedStates, Final
      <4>3. reportBar'[x] = "failedSafe"
        BY <1>1, <2>9, <3>2 DEF ReportIs
      <4> QED BY <4>2, <4>3 DEF ReportStep
    <3>3. CASE rec'[x].failure = "fundsAtRisk" /\ s = "SETTLEMENT_PENDING" /\ settle[x] = "returned"
      <4>1. fundsBar[x] = "returned"
        BY <1>1, <3>3 DEF FundsOK, FundsAre
      <4> QED BY <1>1, <2>9, <3>3, <4>1 DEF ReportIs, ReportStep
    <3> QED BY <3>1, <3>2, <3>3
  <2>10. t \in {"QUOTED", "AWAITING_SIGNATURE", "SOURCE_SUBMITTED", "SOURCE_CONFIRMED",
               "SETTLEMENT_PENDING", "DESTINATION_RECEIVED", "COMPLETED", "REFUNDED", "EXPIRED", "FAILED"}
    BY <1>1, <2>1 DEF NEXT, ExecutionStates, Final
  <2> QED BY <2>2, <2>3, <2>4, <2>5, <2>6, <2>7, <2>8, <2>9, <2>10
<1> QED BY <1>2, <1>3, <1>4 DEF StateStep

\* The funds of x move forward, and not once the record says expired.
FundsStep(x) ==
  /\ <<fundsBar[x], fundsBar'[x]>> \in {<<"source", "burned">>, <<"burned", "destination">>,
                                       <<"burned", "returned">>}
  /\ reportBar[x] # "expired"

LEMMA SameFunds ==
  ASSUME TraceInv, TraceInv', NEW x \in Execs, FundsStay(x)
  PROVE  fundsBar'[x] = fundsBar[x]
<1>1. FundsAre(x) /\ FundsAre(x)'
  BY BarsLemma DEF TraceInv, TraceOK
<1> QED BY <1>1 DEF FundsAre, FundsStay

LEMMA SameReport ==
  ASSUME NEW x \in Execs, rec'[x] = rec[x]
  PROVE  reportBar'[x] = reportBar[x]
<1>1. ReportIs(x) /\ ReportIs(x)'
  BY BarsLemma
<1> QED BY <1>1 DEF ReportIs

LEMMA NotExpired ==
  ASSUME NEW x \in Execs, reportBar[x] = "expired"
  PROVE  rec[x].state = "EXPIRED"
<1>1. ReportIs(x)
  BY BarsLemma
<1> QED BY <1>1 DEF ReportIs

LEMMA EndsFunds ==
  ASSUME TraceInv, TraceInv', NEW x \in Execs, SettlementEnds(x)
  PROVE  FundsStep(x)
<1>1. FundsAre(x) /\ FundsAre(x)' /\ FundsOK(x)'
  BY BarsLemma DEF TraceInv, TraceOK
<1>2. Burned(x) /\ ~Minted(x) /\ settle[x] = "open"
  BY DEF SettlementEnds
<1>3. settle'[x] = "relayed" \/ settle'[x] = "returned"
  BY DEF SettlementEnds, TraceInv, SendInv, TypeInv, TypeOK
<1>4. reportBar[x] # "expired"
  BY <1>2, NotExpired, ExpiredUnburned
<1>5. fundsBar[x] = "burned"
  BY <1>1, <1>2 DEF FundsAre
<1>6. CASE settle'[x] = "relayed"
  <2>1. Minted(x)'
    BY <1>6 DEF Minted
  <2>2. fundsBar'[x] = "destination"
    BY <1>1, <2>1 DEF FundsAre
  <2> QED BY <1>4, <1>5, <2>2 DEF FundsStep
<1>7. CASE settle'[x] = "returned"
  <2>1. fundsBar'[x] = "returned"
    BY <1>1, <1>7 DEF FundsAre, FundsOK
  <2> QED BY <1>4, <1>5, <2>1 DEF FundsStep
<1> QED BY <1>3, <1>6, <1>7

LEMMA LandsFunds ==
  ASSUME TraceInv, TraceInv', NEW x \in Execs, NEW t \in StepIds, NEW n \in 1..MaxSends,
         Lands(x, t, n)
  PROVE  fundsBar'[x] = fundsBar[x] \/ FundsStep(x)
<1>1. FundsAre(x) /\ FundsAre(x)' /\ FundsOK(x) /\ FundsOK(x)'
  BY BarsLemma DEF TraceInv, TraceOK
<1>2. PICK outcome \in {"confirmed", "failed", "dropped"} :
        /\ outcome = "confirmed" /\ t = "mint" => Burned(x) /\ settle[x] = "open" /\ ~Minted(x)
        /\ chain' = [chain EXCEPT ![x][t][n] = outcome]
  BY DEF Lands
<1>3. settle' = settle /\ chain[x][t][n] = "inflight"
  BY DEF Lands
<1>4. \A s \in StepIds, m \in 1..MaxSends :
        \/ chain'[x][s][m] = chain[x][s][m]
        \/ s = t /\ m = n /\ chain'[x][s][m] = outcome
  BY <1>2 DEF TraceInv, SendInv, TypeInv, TypeOK
<1>5. "burn" \in StepIds /\ "mint" \in StepIds /\ n \in Live(x, t)
  BY <1>3, LastLemma, SourceStepsAssumption, OpLemma DEF Live
<1>6. reportBar[x] # "expired"
  BY <1>5, NotExpired, ExpiredUnburned
<1>7. (Burned(x) => Burned(x)') /\ (Minted(x) => Minted(x)')
  BY <1>3, <1>4, <1>5 DEF Burned, Minted
<1>8. Minted(x)' => Minted(x) \/ (t = "mint" /\ outcome = "confirmed")
  BY <1>3, <1>4, <1>5 DEF Minted
<1>9. Burned(x)' => Burned(x) \/ (t = "burn" /\ outcome = "confirmed")
  BY <1>4, <1>5 DEF Burned
<1>10. CASE FundsStay(x)
  BY <1>10, SameFunds
<1>11. CASE Minted(x)' /\ ~Minted(x)
  <2>1. Burned(x) /\ settle[x] = "open"
    BY <1>2, <1>8, <1>11
  <2>2. fundsBar[x] = "burned" /\ fundsBar'[x] = "destination"
    BY <1>1, <1>11, <2>1 DEF FundsAre
  <2> QED BY <1>6, <2>2 DEF FundsStep
<1>12. CASE Burned(x)' /\ ~Burned(x) /\ (Minted(x)' => Minted(x))
  <2>1. ~Minted(x)' /\ settle'[x] = "open" /\ ~Minted(x) /\ settle[x] = "open"
    BY <1>1, <1>3, <1>12 DEF FundsOK
  <2>2. fundsBar[x] = "source" /\ fundsBar'[x] = "burned"
    BY <1>1, <1>12, <2>1 DEF FundsAre
  <2> QED BY <1>6, <2>2 DEF FundsStep
<1> QED BY <1>3, <1>7, <1>10, <1>11, <1>12 DEF FundsStay

\* A step of a page moves no funds.
LEMMA PageFunds ==
  ASSUME TraceInv, NEW p \in Pages, NEW x \in Execs, PageStep(p, x), NEW y \in Execs
  PROVE  FundsStay(y)
<1>1. settle' = settle /\ (chain' = chain \/ WalletSends(p, x) \/ WalletUnclear(p, x))
  BY PageStepSettles
<1>2. chain' = chain \/ \E s \in StepIds, n \in 1..MaxSends :
        chain[x][s][n] = "unsent" /\ chain' = [chain EXCEPT ![x][s][n] = "inflight"]
  <2>1. op[p][x].step \in StepIds
    BY DEF TraceInv, SendInv, TypeInv, TypeOK, Op
  <2> QED BY <1>1, <2>1 DEF WalletSends, WalletUnclear, CanSend
<1>3. \A s \in StepIds, n \in 1..MaxSends :
        (chain'[y][s][n] = "confirmed") <=> (chain[y][s][n] = "confirmed")
  <2>1. ASSUME NEW t \in StepIds, NEW m \in 1..MaxSends, chain[x][t][m] = "unsent",
               chain' = [chain EXCEPT ![x][t][m] = "inflight"],
               NEW s \in StepIds, NEW n \in 1..MaxSends
        PROVE  \/ chain'[y][s][n] = chain[y][s][n]
               \/ chain[y][s][n] = "unsent" /\ chain'[y][s][n] = "inflight"
    BY <2>1 DEF TraceInv, SendInv, TypeInv, TypeOK
  <2> QED BY <1>2, <2>1
<1>4. "burn" \in StepIds /\ "mint" \in StepIds
  BY LastLemma, SourceStepsAssumption, OpLemma
<1> QED BY <1>1, <1>3, <1>4 DEF FundsStay, Burned, Minted

\* The two mapped variables are functions on Execs.
LEMMA BarFunctions ==
  /\ fundsBar = [z \in Execs |-> fundsBar[z]] /\ fundsBar' = [z \in Execs |-> fundsBar'[z]]
  /\ reportBar = [z \in Execs |-> reportBar[z]] /\ reportBar' = [z \in Execs |-> reportBar'[z]]
<1>1. fundsBar = [z \in Execs |-> fundsBar[z]]
  BY DEF fundsBar
<1>2. fundsBar' = [z \in Execs |-> fundsBar'[z]]
  BY DEF fundsBar
<1>3. reportBar = [z \in Execs |-> reportBar[z]]
  BY DEF reportBar
<1>4. reportBar' = [z \in Execs |-> reportBar'[z]]
  BY DEF reportBar
<1> QED BY <1>1, <1>2, <1>3, <1>4

LEMMA AbstractFunds ==
  ASSUME NEW x \in Execs, FundsStep(x), \A y \in Execs : reportBar'[y] = reportBar[y],
         \A y \in Execs : y # x => fundsBar'[y] = fundsBar[y]
  PROVE  Abstract!Next
<1>1. reportBar' = reportBar
  BY DEF reportBar
<1>2. fundsBar' = [fundsBar EXCEPT ![x] = fundsBar'[x]]
  BY BarFunctions
<1>3. Abstract!FundsMove(x)
  BY <1>1, <1>2 DEF Abstract!FundsMove, Abstract!Places, FundsStep
<1> QED BY <1>3 DEF Abstract!Next

LEMMA AbstractReport ==
  ASSUME NEW x \in Execs, ReportStep(x), \A y \in Execs : fundsBar'[y] = fundsBar[y],
         \A y \in Execs : y # x => reportBar'[y] = reportBar[y]
  PROVE  Abstract!Next \/ UNCHANGED <<fundsBar, reportBar>>
<1>1. fundsBar' = fundsBar
  BY DEF fundsBar
<1>2. reportBar' = [reportBar EXCEPT ![x] = reportBar'[x]]
  BY BarFunctions
<1>3. CASE reportBar'[x] = reportBar[x]
  BY <1>1, <1>3 DEF reportBar
<1>4. CASE reportBar'[x] # reportBar[x]
  <2>1. \/ Abstract!Expire(x) \/ Abstract!FailEarly(x) \/ Abstract!ReportBurn(x)
        \/ Abstract!ReportArrival(x) \/ Abstract!ReportReturn(x)
    BY <1>1, <1>2, <1>4 DEF ReportStep, Abstract!Expire, Abstract!FailEarly, Abstract!ReportBurn,
       Abstract!ReportArrival, Abstract!ReportReturn, Abstract!Says
  <2> QED BY <2>1 DEF Abstract!Next
<1> QED BY <1>3, <1>4

LEMMA AbstractStep ==
  ASSUME TraceInv, TraceInv', [Next]_vars
  PROVE  Abstract!Next \/ UNCHANGED <<fundsBar, reportBar>>
<1>1. CASE \E p \in Pages, x \in Execs : PageStep(p, x)
  <2>1. PICK p \in Pages, x \in Execs : PageStep(p, x)
    BY <1>1
  <2>2. \A y \in Execs : fundsBar'[y] = fundsBar[y]
    BY <2>1, PageFunds, SameFunds
  <2>3. \A y \in Execs : y # x => reportBar'[y] = reportBar[y]
    BY <2>1, PageStepGoes, GoesKeeps, SameReport DEF TraceInv, SendInv
  <2>4. StateStep(x)
    BY AllStateSteps DEF TraceInv, SendInv
  <2>5. Honest(x)
    BY TraceStep DEF TraceInv
  <2>6. ReportStep(x)
    BY <2>1, <2>4, <2>5, PageFunds, ReportSteps
  <2> QED BY <2>2, <2>3, <2>6, AbstractReport
<1>2. CASE Environment
  <2>1. \A y \in Execs : reportBar'[y] = reportBar[y]
    BY <1>2, SameReport DEF Environment, Crash, LedgerLapses, QuoteLapses, SettlementEnds, Lands
  <2>2. CASE UNCHANGED <<chain, settle>>
    <3>1. \A y \in Execs : FundsStay(y)
      BY <2>2 DEF FundsStay, Burned, Minted
    <3>2. \A y \in Execs : fundsBar'[y] = fundsBar[y]
      BY <3>1, SameFunds
    <3> QED BY <2>1, <3>2 DEF fundsBar, reportBar
  <2>3. ASSUME NEW x \in Execs,
               SettlementEnds(x) \/ \E t \in StepIds, n \in 1..MaxSends : Lands(x, t, n)
        PROVE  Abstract!Next \/ UNCHANGED <<fundsBar, reportBar>>
    <3>1. \A y \in Execs : y # x => FundsStay(y)
      BY <2>3 DEF SettlementEnds, Lands, FundsStay, Burned, Minted, TraceInv, SendInv, TypeInv, TypeOK
    <3>2. \A y \in Execs : y # x => fundsBar'[y] = fundsBar[y]
      BY <3>1, SameFunds
    <3>3. fundsBar'[x] = fundsBar[x] \/ FundsStep(x)
      BY <2>3, EndsFunds, LandsFunds
    <3>4. CASE fundsBar'[x] = fundsBar[x]
      BY <2>1, <3>2, <3>4 DEF fundsBar, reportBar
    <3> QED BY <2>1, <3>2, <3>3, <3>4, AbstractFunds
  <2> QED BY <1>2, <2>2, <2>3 DEF Environment, Crash, LedgerLapses, QuoteLapses
<1>3. CASE UNCHANGED vars
  <2>1. fundsBar' = fundsBar /\ reportBar' = reportBar
    BY <1>3 DEF vars, fundsBar, reportBar, Minted, Burned
  <2> QED BY <2>1
<1> QED BY <1>1, <1>2, <1>3 DEF Next, PageStep

LEMMA AbstractInit ==
  ASSUME Init
  PROVE  Abstract!Init
<1>1. "mint" \in StepIds /\ "burn" \in StepIds
  BY OpLemma, LastLemma, SourceStepsAssumption
<1>2. \A x \in Execs : ~Minted(x) /\ ~Burned(x) /\ settle[x] = "open" /\ rec[x].state = "none"
  BY <1>1 DEF Init, Minted, Burned, NoRecord
<1>3. fundsBar = [x \in Execs |-> "source"] /\ reportBar = [x \in Execs |-> "open"]
  BY <1>2 DEF fundsBar, reportBar
<1> QED BY <1>3 DEF Abstract!Init

\* Every step of the tabs, the wallets and the chains is a step of SettlementMove or
\* changes neither where the funds are nor what is said of them: the reports of any
\* number of executions, in any number of tabs, never run ahead of the funds.
THEOREM ImplementsSettlementMoveAlways == Spec => ImplementsSettlementMove
<1>1. Init => Abstract!Init
  BY AbstractInit
<1>2. TraceInv /\ TraceInv' /\ [Next]_vars => [Abstract!Next]_<<fundsBar, reportBar>>
  BY AbstractStep
<1> QED BY <1>1, <1>2, TraceInvariant, PTL DEF ImplementsSettlementMove, Abstract!Spec, Spec

-----------------------------------------------------------------------------
(* Part 5: the move screen.                                                *)

\* On its way: let through by the check, or created and not over.
Pending(x) == x \in AllCleared \/ Open(x)

\* Two moves on their way were let through together.
ScreenInv ==
  /\ SendInv
  /\ cleared \in [Pages -> SUBSET Execs]
  /\ \A x, y \in Execs : x # y /\ Pending(x) /\ Pending(y) => {x, y} \in together

OnePage == \A p, q \in Pages : p = q

\* The call is about to ask for the fee.
AtFee(p, x) == op[p][x].pc \in {"preflight", "asking"} /\ op[p][x].step = "fee"

\* The other press was on its way too, and its move was created.
HasTwin(x) == \E y \in Execs \ {x} : {x, y} \in together /\ rec[y].state # "none"

\* On one page no call has an old record, and whoever is about to ask for a fee that is
\* remembered was let through together with another move.
FeeInv ==
  \A p \in Pages, x \in Execs :
    ~op[p][x].stale /\ (AtFee(p, x) /\ ledger[p] => HasTwin(x))

\* Where a step leaves the call that takes it.
Plain(o) == ~o.stale /\ o.pc \notin {"preflight", "asking"}
GoesPlain(p, x) == \E o : Plain(o) /\ (Continue(p, x, o) \/ \E r : Save(p, x, r, o))

LEMMA PlainCalls ==
  /\ Plain(Idle)
  /\ \A pc, s, n : pc \notin {"preflight", "asking"} => Plain(At(pc, s, n))
  /\ \A s : Plain(AfterStep(s)) /\ ~AfterStep(s).stale
  /\ \A s : Plain([AfterStep(s) EXCEPT !.stale = FALSE])
BY DEF Plain, Idle, At, AfterStep

LEMMA PlainSteps ==
  ASSUME TypeInv, NEW p \in Pages, NEW x \in Execs, PageStep(p, x), ~op[p][x].stale
  PROVE  \/ GoesPlain(p, x) \/ StepBegins(p, x) \/ MarkSending(p, x) \/ ClaimBuilt(p, x)
         \/ WalletSends(p, x)
<1> USE PlainCalls DEF GoesPlain, Move, Fail
<1>1. CASE Create(p, x) \/ Quote(p, x) \/ StartInterrupted(p, x) \/ StartRetire(p, x)
           \/ StartExpired(p, x) \/ StartBuild(p, x) \/ BuildLapsed(p, x) \/ BuildRefused(p, x)
           \/ BuildEmpty(p, x) \/ Build(p, x)
  BY <1>1 DEF Create, Quote, StartInterrupted, StartRetire, StartExpired, StartBuild, BuildLapsed,
     BuildRefused, BuildEmpty, Build
<1>2. CASE StepFailedBefore(p, x) \/ StepConfirmedBefore(p, x) \/ StepSubmittedBefore(p, x)
           \/ StepPrepaid(p, x) \/ PreflightRefuses(p, x) \/ WalletUnclear(p, x)
           \/ BackToQuoted(p, x) \/ MoveToSubmitted(p, x)
  BY <1>2 DEF StepFailedBefore, StepConfirmedBefore, StepSubmittedBefore, StepPrepaid,
     PreflightRefuses, WalletUnclear, BackToQuoted, MoveToSubmitted
<1>3. CASE WalletRefuses(p, x)
  BY <1>3 DEF WalletRefuses
<1>4. CASE SaveSubmitted(p, x)
  BY <1>4 DEF SaveSubmitted
<1>5. CASE SeeConfirmed(p, x) \/ SeeFailed(p, x) \/ TimeOut(p, x)
  BY <1>5 DEF SeeConfirmed, SeeFailed, TimeOut
<1>6. CASE SettleEarlier(p, x)
  BY <1>6 DEF SettleEarlier
<1>7. CASE SettleBurn(p, x) \/ FailStep(p, x) \/ MoveToPending(p, x) \/ ResumeLost(p, x)
           \/ ResumeWaiting(p, x) \/ ResumeConfirmed(p, x) \/ Advance(p, x)
  BY <1>7 DEF SettleBurn, FailStep, MoveToPending, ResumeLost, ResumeWaiting, ResumeConfirmed, Advance
<1>8. CASE TrackedOpen(p, x) \/ TrackedCompleted(p, x) \/ Complete(p, x) \/ TrackedFailed(p, x)
           \/ ClaimInterrupted(p, x) \/ Claim(p, x) \/ ClaimRefused(p, x) \/ RecordRefund(p, x)
           \/ Conflict(p, x) \/ SaveFails(p, x)
  BY <1>8 DEF TrackedOpen, TrackedCompleted, Complete, TrackedFailed, ClaimInterrupted, Claim,
     ClaimRefused, RecordRefund, Conflict, SaveFails
<1>9. CASE Answer(p, x)
  BY <1>9 DEF Answer, ResolveSent, ResolveNotSent
<1> QED BY <1>1, <1>2, <1>3, <1>4, <1>5, <1>6, <1>7, <1>8, <1>9
        DEF PageStep, StartCall, ClaimCall, Resumes

\* A call is never out of date by its own step, and comes to the fee only when none is
\* remembered.
LEMMA ScreenCalls ==
  ASSUME TypeInv, NEW p \in Pages, NEW x \in Execs, PageStep(p, x), ~op[p][x].stale
  PROVE  ~op'[p][x].stale /\ (AtFee(p, x)' => AtFee(p, x) \/ ~ledger[p])
<1>1. TypeOK /\ op[p][x] \in Op
  BY DEF TypeInv, TypeOK
<1>2. CASE GoesPlain(p, x)
  <2>1. PICK o : Plain(o) /\ (Continue(p, x, o) \/ \E r : Save(p, x, r, o))
    BY <1>2 DEF GoesPlain
  <2>2. op'[p][x] = o
    BY <1>1, <2>1, ContinuedCall, SavedCall
  <2> QED BY <2>1, <2>2 DEF Plain, AtFee
<1>3. CASE StepBegins(p, x)
  <2>1. op'[p][x] = At("preflight", op[p][x].step, 0) /\ ~(op[p][x].step = "fee" /\ ledger[p])
    BY <1>1, <1>3, ContinuedCall DEF StepBegins
  <2> QED BY <2>1 DEF At, AtFee
<1>4. CASE MarkSending(p, x)
  <2>1. op'[p][x] = At("asking", op[p][x].step, 0) /\ op[p][x].pc = "preflight"
    BY <1>1, <1>4, SavedCall DEF MarkSending, Reached
  <2> QED BY <2>1 DEF At, AtFee
<1>5. CASE ClaimBuilt(p, x)
  <2>1. op'[p][x] = At("asking", "mint", 0)
    BY <1>1, <1>5, SavedCall DEF ClaimBuilt
  <2> QED BY <2>1 DEF At, AtFee
<1>6. CASE WalletSends(p, x)
  <2>1. PICK n \in 1..MaxSends : Continue(p, x, [op[p][x] EXCEPT !.pc = "sent", !.tx = n])
    BY <1>6 DEF WalletSends
  <2>2. op'[p][x] = [op[p][x] EXCEPT !.pc = "sent", !.tx = n]
    BY <1>1, <2>1, ContinuedCall
  <2> QED BY <1>1, <2>2 DEF Op, AtFee
<1> QED BY <1>2, <1>3, <1>4, <1>5, <1>6, PlainSteps

\* The ledger learns of a fee from a call that saw one confirm.
LEMMA LedgerStep ==
  ASSUME TypeOK, NEW p \in Pages, NEW x \in Execs, PageStep(p, x), NEW q \in Pages,
         ledger'[q], ~ledger[q]
  PROVE  q = p /\ SettleEarlier(p, x) /\ op[p][x].step = "fee"
<1>1. SettleEarlier(p, x) \/ SettleBurn(p, x) \/ ledger' = ledger
  BY DEF PageStep, StartCall, ClaimCall, Answer, Resumes, Create, Quote,
     StartInterrupted, StartRetire, StartExpired, StartBuild, BuildLapsed,
     BuildRefused, BuildEmpty, Build, StepFailedBefore, StepConfirmedBefore,
     StepSubmittedBefore, StepPrepaid, StepBegins, PreflightRefuses, MarkSending,
     WalletSends, WalletUnclear, WalletRefuses, BackToQuoted, SaveSubmitted,
     MoveToSubmitted, SeeConfirmed, SeeFailed, FailStep, TimeOut,
     MoveToPending, ResumeLost, ResumeWaiting, ResumeConfirmed, Advance,
     TrackedOpen, TrackedCompleted, Complete, TrackedFailed, ClaimInterrupted, Claim,
     ClaimRefused, ClaimBuilt, ResolveSent, ResolveNotSent, RecordRefund, Conflict, SaveFails
<1>2. CASE SettleEarlier(p, x)
  <2>1. ledger' = [ledger EXCEPT ![p] = @ \/ op[p][x].step = "fee"]
    BY <1>2 DEF SettleEarlier
  <2> QED BY <1>2, <2>1 DEF TypeOK
<1>3. CASE SettleBurn(p, x)
  BY <1>3 DEF SettleBurn, TypeOK
<1> QED BY <1>1, <1>2, <1>3

\* The screen takes the orchestrator's steps, and creates a record in one of them alone.
LEMMA ScreenIsNext ==
  ASSUME [ScreenNext]_screenVars
  PROVE  /\ [Next]_vars
         /\ \/ UNCHANGED rec
            \/ \E p \in Pages, x \in Execs : PressStart(p, x)
            \/ fresh' = fresh
<1>1. ASSUME NEW p \in Pages, NEW x \in Execs, ScreenCall(p, x) \/ Resumes(p, x)
      PROVE  Next /\ fresh' = fresh
  <2>1. StartCall(p, x) \/ Advance(p, x) \/ ClaimCall(p, x) \/ Answer(p, x) \/ Resumes(p, x)
    BY <1>1 DEF ScreenCall
  <2>2. Next
    BY <2>1 DEF Next
  <2>3. fresh' = fresh
    BY <2>1 DEF StartCall, ClaimCall, Answer, Resumes, Quote,
       StartInterrupted, StartRetire, StartExpired, StartBuild, BuildLapsed,
       BuildRefused, BuildEmpty, Build, StepFailedBefore, StepConfirmedBefore,
       StepSubmittedBefore, StepPrepaid, StepBegins, PreflightRefuses, MarkSending,
       WalletSends, WalletUnclear, WalletRefuses, BackToQuoted, SaveSubmitted,
       MoveToSubmitted, SeeConfirmed, SeeFailed, FailStep, TimeOut, SettleEarlier,
       SettleBurn, MoveToPending, ResumeLost, ResumeWaiting, ResumeConfirmed, Advance,
       TrackedOpen, TrackedCompleted, Complete, TrackedFailed, ClaimInterrupted, Claim,
       ClaimRefused, ClaimBuilt, ResolveSent, ResolveNotSent, Conflict, SaveFails
  <2> QED BY <2>2, <2>3
<1>2. ASSUME NEW p \in Pages, NEW x \in Execs, Assess(p, x) \/ Abandon(p, x)
      PROVE  UNCHANGED vars
  BY <1>2 DEF Assess, LetThrough, Abandon
<1>3. ASSUME NEW p \in Pages, NEW x \in Execs, PressStart(p, x) PROVE Next
  BY <1>3 DEF PressStart, Next
<1>4. ASSUME Environment PROVE Next /\ UNCHANGED rec
  BY <1>4 DEF Next, Environment, Crash, LedgerLapses, QuoteLapses, Lands, SettlementEnds
<1>5. ASSUME NEW p \in Pages, Crash(p) PROVE Environment
  BY <1>5 DEF Environment
<1> QED BY <1>1, <1>2, <1>3, <1>4, <1>5 DEF ScreenNext, screenVars, vars

\* Only a record that is created opens.
LEMMA OpensByCreate ==
  ASSUME SendInv, [Next]_vars, fresh' = fresh \/ UNCHANGED rec, NEW x \in Execs, ~Open(x)
  PROVE  ~Open(x)'
<1>1. CASE UNCHANGED rec
  BY <1>1 DEF Open
<1>2. CASE fresh' = fresh
  <2>1. StateStep(x)
    BY AllStateSteps DEF SendInv
  <2>2. ASSUME NEW p \in Pages, Create(p, x) PROVE FALSE
    <3>1. x \notin fresh[p]
      BY <2>2 DEF SendInv, SendOK, FreshOK, Create
    <3>2. x \in fresh'[p]
      BY <2>2 DEF Create, SendInv, TypeInv, TypeOK
    <3> QED BY <1>2, <3>1, <3>2
  <2>3. rec'[x].state = rec[x].state \/ Allowed(rec[x], rec'[x].state)
    BY <2>1, <2>2 DEF StateStep
  <2>4. ASSUME Allowed(rec[x], rec'[x].state) PROVE FALSE
    <3>1. rec[x].state = "none"
      BY <2>4 DEF Allowed, Open
    <3>2. NEXT("none") = {}
      BY DEF NEXT
    <3> QED BY <2>4, <3>1, <3>2 DEF Allowed
  <2> QED BY <2>3, <2>4 DEF Open
<1> QED BY <1>1, <1>2

\* The pairs of moves on their way.
LEMMA PairsStep ==
  ASSUME ScreenInv, [ScreenNext]_screenVars
  PROVE  /\ cleared' \in [Pages -> SUBSET Execs]
         /\ \A x, y \in Execs : x # y /\ Pending(x)' /\ Pending(y)' => {x, y} \in together'
<1>1. SendInv /\ [Next]_vars /\ cleared \in [Pages -> SUBSET Execs] /\ TypeOK
  BY ScreenIsNext DEF ScreenInv, SendInv, TypeInv
<1>2. \A x, y \in Execs : x # y /\ Pending(x) /\ Pending(y) => {x, y} \in together
  BY DEF ScreenInv
<1>3. CASE \E p \in Pages, x \in Execs : Assess(p, x)
  <2>1. PICK p \in Pages, z \in Execs : Assess(p, z)
    BY <1>3
  <2>2. /\ z \notin AllCleared /\ \A y \in Execs : ~Open(y) /\ ~Open(y)'
        /\ cleared' = [cleared EXCEPT ![p] = @ \cup {z}]
        /\ together' = {pair \in together : z \notin pair} \cup {{z, y} : y \in AllCleared}
    BY <2>1 DEF Assess, LetThrough, Open, vars
  <2>3. cleared' \in [Pages -> SUBSET Execs] /\ AllCleared' \subseteq AllCleared \cup {z}
    BY <1>1, <2>2 DEF AllCleared
  <2>4. ASSUME NEW x \in Execs, NEW y \in Execs, x # y, Pending(x)', Pending(y)'
        PROVE  {x, y} \in together'
    <3>1. x \in AllCleared \cup {z} /\ y \in AllCleared \cup {z}
      BY <2>2, <2>3, <2>4 DEF Pending
    <3>2. CASE x = z
      BY <2>2, <2>4, <3>1, <3>2
    <3>3. CASE y = z
      <4>1. {x, y} = {z, x} /\ x \in AllCleared
        BY <2>4, <3>1, <3>3
      <4> QED BY <2>2, <4>1
    <3>4. CASE x # z /\ y # z
      <4>1. {x, y} \in together
        BY <1>2, <2>4, <3>1, <3>4 DEF Pending
      <4> QED BY <2>2, <3>4, <4>1
    <3> QED BY <3>2, <3>3, <3>4
  <2> QED BY <2>3, <2>4
<1>4. CASE \E p \in Pages, x \in Execs : PressStart(p, x)
  <2>1. PICK p \in Pages, z \in Execs : PressStart(p, z)
    BY <1>4
  <2>2. cleared' = [cleared EXCEPT ![p] = @ \ {z}] /\ z \in cleared[p] /\ together' = together
    BY <2>1 DEF PressStart
  <2>3. cleared' \in [Pages -> SUBSET Execs] /\ AllCleared' \subseteq AllCleared /\ z \in AllCleared
    BY <1>1, <2>2 DEF AllCleared
  <2>4. \A y \in Execs : y # z => rec'[y] = rec[y]
    BY <1>1, <2>1 DEF PressStart, Create, Save, TypeOK
  <2>5. \A y \in Execs : Pending(y)' => Pending(y)
    BY <2>3, <2>4 DEF Pending, Open
  <2> QED BY <1>2, <2>2, <2>3, <2>5
<1>5. CASE /\ ~\E p \in Pages, x \in Execs : Assess(p, x)
           /\ ~\E p \in Pages, x \in Execs : PressStart(p, x)
  <2>1. \A x \in Execs : ~Open(x) => ~Open(x)'
    BY <1>1, <1>5, ScreenIsNext, OpensByCreate
  <2>2. /\ together' = together
        /\ \/ \E p \in Pages, S \in SUBSET Execs : cleared' = [cleared EXCEPT ![p] = @ \ S]
           \/ \E p \in Pages : cleared' = [cleared EXCEPT ![p] = {}]
           \/ cleared' = cleared
    BY <1>5 DEF ScreenNext, screenVars, Abandon
  <2>3. cleared' \in [Pages -> SUBSET Execs] /\ AllCleared' \subseteq AllCleared
    BY <1>1, <2>2 DEF AllCleared
  <2>4. \A y \in Execs : Pending(y)' => Pending(y)
    BY <2>1, <2>3 DEF Pending
  <2> QED BY <1>2, <2>2, <2>3, <2>4
<1> QED BY <1>3, <1>4, <1>5

LEMMA ScreenStep == ScreenInv /\ [ScreenNext]_screenVars => ScreenInv'
<1> SUFFICES ASSUME ScreenInv, [ScreenNext]_screenVars PROVE ScreenInv'
  OBVIOUS
<1>1. SendInv'
  BY ScreenIsNext, SendStep DEF ScreenInv
<1> QED BY <1>1, PairsStep DEF ScreenInv

\* A twin stays one while its move is in the loop: only a new check parts a pair.
LEMMA TwinStays ==
  ASSUME ScreenInv, [ScreenNext]_screenVars, NEW x \in Execs, rec[x].state # "none", HasTwin(x)
  PROVE  HasTwin(x)'
<1>1. PICK y \in Execs \ {x} : {x, y} \in together /\ rec[y].state # "none"
  BY DEF HasTwin
<1>2. {x, y} \in together'
  <2>1. CASE \E p \in Pages, z \in Execs : Assess(p, z)
    BY <1>1, <2>1 DEF Assess, LetThrough
  <2>2. CASE together' = together
    BY <1>1, <2>2
  <2> QED BY <2>1, <2>2 DEF ScreenNext, screenVars, Abandon, PressStart
<1>3. rec'[y].state # "none"
  <2>1. StateStep(y)
    BY ScreenIsNext, AllStateSteps DEF ScreenInv, SendInv
  <2>2. ASSUME NEW p \in Pages, Create(p, y) PROVE FALSE
    BY <1>1, <2>2 DEF Create
  <2>3. rec'[y].state = rec[y].state \/ Allowed(rec[y], rec'[y].state)
    BY <2>1, <2>2 DEF StateStep
  <2>4. \A s : "none" \notin NEXT(s)
    BY DEF NEXT
  <2> QED BY <1>1, <2>3, <2>4 DEF Allowed
<1> QED BY <1>1, <1>2, <1>3 DEF HasTwin

\* The fee of one page.
LEMMA FeeStep ==
  ASSUME OnePage, ScreenInv, FeeInv, [ScreenNext]_screenVars, NEW q \in Pages, NEW y \in Execs
  PROVE  ~op'[q][y].stale /\ (AtFee(q, y)' /\ ledger'[q] => HasTwin(y)')
<1>1. SendInv /\ TypeInv /\ TypeOK /\ [Next]_vars
  BY ScreenIsNext DEF ScreenInv, SendInv, TypeInv
<1>2. ~op[q][y].stale /\ (AtFee(q, y) /\ ledger[q] => HasTwin(y))
  BY DEF FeeInv
<1>3. \A x \in Execs : InLoop(q, x) => Open(x)
  <2>1. \A x \in Execs : LoopOK(x) /\ Current(q, x)
    BY <1>1 DEF SendInv, SendOK, FeeInv, Current
  <2> QED BY <2>1 DEF LoopOK, Open, Final
<1>4. AtFee(q, y) /\ HasTwin(y) => HasTwin(y)'
  <2>1. AtFee(q, y) => Open(y)
    BY <1>3 DEF AtFee, InLoop
  <2> QED BY <2>1, TwinStays DEF Open
<1>5. ASSUME NEW p \in Pages, NEW x \in Execs, PageStep(p, x)
      PROVE  ~op'[q][y].stale /\ (AtFee(q, y)' /\ ledger'[q] => HasTwin(y)')
  <2>1. p = q
    BY DEF OnePage
  <2>2. ~op'[q][y].stale /\ (AtFee(q, y)' => AtFee(q, y) \/ ~ledger[q])
    <3>1. CASE x = y
      BY <1>1, <1>2, <1>5, <2>1, <3>1, ScreenCalls
    <3>2. CASE x # y
      <4>1. op'[q][y] = op[q][y]
        BY <1>1, <1>5, <3>2, PageStepGoes, GoesKeeps
      <4> QED BY <1>2, <4>1 DEF AtFee
    <3> QED BY <3>1, <3>2
  <2>3. ASSUME AtFee(q, y)', ledger'[q], ~ledger[q] PROVE AtFee(q, y) /\ HasTwin(y)
    <3>1. SettleEarlier(q, x) /\ op[q][x].step = "fee"
      BY <1>1, <1>5, <2>1, <2>3, LedgerStep
    <3>2. x # y
      <4>1. \E o : Plain(o) /\ Continue(q, x, o)
        <5>1. ~op[q][x].stale
          BY DEF FeeInv
        <5> QED BY <3>1, <5>1, PlainCalls DEF SettleEarlier
      <4>2. Plain(op'[q][x])
        BY <1>1, <4>1, ContinuedCall
      <4> QED BY <2>3, <4>2 DEF Plain, AtFee
    <3>3. AtFee(q, y)
      <4>1. op'[q][y] = op[q][y]
        BY <1>1, <1>5, <2>1, <3>2, PageStepGoes, GoesKeeps
      <4> QED BY <2>3, <4>1 DEF AtFee
    <3>4. Open(x) /\ Open(y)
      BY <1>3, <3>1, <3>3 DEF InLoop, AtFee, SettleEarlier
    <3>5. {y, x} \in together
      BY <3>2, <3>4 DEF ScreenInv, Pending
    <3> QED BY <3>2, <3>3, <3>4, <3>5 DEF HasTwin, Open
  <2>4. ASSUME AtFee(q, y)', ledger'[q], ledger[q] PROVE AtFee(q, y) /\ HasTwin(y)
    BY <1>2, <2>2, <2>4
  <2> QED BY <1>4, <2>2, <2>3, <2>4
<1>6. CASE Environment
  <2>1. \/ UNCHANGED op
        \/ \E p \in Pages : op' = [op EXCEPT ![p] = [x \in Execs |-> Idle]]
    BY <1>6 DEF Environment, Crash, LedgerLapses, QuoteLapses, SettlementEnds, Lands
  <2>2. op'[q][y] = op[q][y] \/ op'[q][y] = Idle
    BY <1>1, <2>1 DEF TypeOK
  <2>3. ledger'[q] => ledger[q]
    BY <1>1, <1>6 DEF Environment, Crash, LedgerLapses, QuoteLapses, SettlementEnds, Lands, TypeOK
  <2>4. AtFee(q, y)' => AtFee(q, y)
    BY <2>2 DEF AtFee, Idle
  <2>5. ~op'[q][y].stale
    BY <1>2, <2>2 DEF Idle
  <2> QED BY <1>2, <1>4, <2>3, <2>4, <2>5
<1>7. CASE UNCHANGED vars
  <2>1. AtFee(q, y)' = AtFee(q, y) /\ ledger' = ledger /\ op' = op
    BY <1>7 DEF vars, AtFee
  <2> QED BY <1>2, <1>4, <2>1
<1> QED BY <1>1, <1>5, <1>6, <1>7 DEF Next, PageStep

LEMMA ScreenInitOK == ScreenInit => ScreenInv /\ FeeInv
<1> SUFFICES ASSUME ScreenInit PROVE ScreenInv /\ FeeInv
  OBVIOUS
<1>1. Init /\ SendInv /\ cleared = [p \in Pages |-> {}]
  BY SendInit DEF ScreenInit
<1>2. \A x \in Execs : ~Pending(x)
  BY <1>1 DEF Init, NoRecord, Open, Pending, AllCleared
<1>3. \A p \in Pages, x \in Execs : ~op[p][x].stale /\ ~AtFee(p, x)
  BY <1>1 DEF Init, Idle, AtFee
<1> QED BY <1>1, <1>2, <1>3 DEF ScreenInv, FeeInv

LEMMA ScreenAlways == ScreenSpec => []ScreenInv
<1> QED BY ScreenInitOK, ScreenStep, PTL DEF ScreenSpec

LEMMA FeeAlways == OnePage => (ScreenSpec => [](ScreenInv /\ FeeInv))
<1> SUFFICES ASSUME OnePage PROVE ScreenSpec => [](ScreenInv /\ FeeInv)
  OBVIOUS
<1>1. ScreenInit => ScreenInv /\ FeeInv
  BY ScreenInitOK
<1>2. ScreenInv /\ FeeInv /\ [ScreenNext]_screenVars => ScreenInv' /\ FeeInv'
  <2> SUFFICES ASSUME ScreenInv, FeeInv, [ScreenNext]_screenVars PROVE ScreenInv' /\ FeeInv'
    OBVIOUS
  <2>1. ScreenInv'
    BY ScreenStep
  <2> QED BY <2>1, FeeStep DEF FeeInv
<1> QED BY <1>1, <1>2, PTL DEF ScreenSpec

\* A transaction that goes out was asked for.
LEMMA SentWasAsked ==
  ASSUME TypeOK, [Next]_vars, NEW x \in Execs, NEW s \in StepIds, NEW n \in 1..MaxSends,
         chain[x][s][n] = "unsent", chain'[x][s][n] # "unsent"
  PROVE  \E p \in Pages : op[p][x].pc = "asking" /\ op[p][x].step = s
<1>1. chain' # chain
  OBVIOUS
<1>2. ASSUME NEW p \in Pages, NEW y \in Execs, PageStep(p, y)
      PROVE  op[p][x].pc = "asking" /\ op[p][x].step = s
  <2>1. WalletSends(p, y) \/ WalletUnclear(p, y)
    BY <1>1, <1>2, PageStepSettles
  <2>2. PICK m \in 1..MaxSends : chain' = [chain EXCEPT ![y][op[p][y].step][m] = "inflight"]
    BY <1>1, <2>1 DEF WalletSends, WalletUnclear
  <2>3. op[p][y].pc = "asking" /\ op[p][y].step \in StepIds
    <3>1. op[p][y].pc = "asking"
      BY <2>1 DEF WalletSends, WalletUnclear
    <3>2. op[p][y] \in Op
      BY DEF TypeOK
    <3> QED BY <3>1, <3>2 DEF Op
  <2>4. y = x /\ op[p][y].step = s
    BY <2>2, <2>3 DEF TypeOK
  <2> QED BY <2>3, <2>4
<1>3. ASSUME NEW y \in Execs, NEW t \in StepIds, NEW m \in 1..MaxSends, Lands(y, t, m)
      PROVE  FALSE
  <2>1. PICK outcome : chain' = [chain EXCEPT ![y][t][m] = outcome]
    BY <1>3 DEF Lands
  <2>2. chain[y][t][m] = "inflight"
    BY <1>3 DEF Lands
  <2> QED BY <2>1, <2>2 DEF TypeOK
<1>4. ASSUME Environment PROVE FALSE
  <2>1. \E y \in Execs, t \in StepIds, m \in 1..MaxSends : Lands(y, t, m)
    BY <1>1, <1>4 DEF Environment, Crash, LedgerLapses, QuoteLapses, SettlementEnds
  <2> QED BY <1>3, <2>1
<1> QED BY <1>1, <1>2, <1>4 DEF Next, PageStep, vars

\* In any number of tabs, however many quotes there are and whenever a page reloads: two
\* open moves were let through by the check at the same time (safety.ts assessSettlement).
THEOREM OpenOnlyTogetherAlways == ScreenSpec => []OpenOnlyTogether
<1>1. ScreenInv => OpenOnlyTogether
  BY DEF ScreenInv, OpenOnlyTogether, Pending
<1> QED BY <1>1, ScreenAlways, PTL

\* And on one page no fee is sent again that is remembered, even in a call begun before,
\* except for a move that was let through at the same time as another (orchestrator.ts: the
\* fee ledger is asked when the step begins, not when it is sent).
THEOREM RememberedFeeNotSentAgainAlways ==
  OnePage /\ "fee" \in StepIds => (ScreenSpec => RememberedFeeNotSentAgain)
<1> SUFFICES ASSUME OnePage, "fee" \in StepIds PROVE ScreenSpec => RememberedFeeNotSentAgain
  OBVIOUS
<1>1. ScreenInv /\ FeeInv /\ [ScreenNext]_screenVars =>
        [\A x \in Execs, n \in 1..MaxSends :
           chain[x]["fee"][n] = "unsent" /\ chain'[x]["fee"][n] # "unsent" =>
             \E p \in Pages :
               /\ op[p][x].pc = "asking"
               /\ ledger[p] => \E y \in Execs \ {x} : {x, y} \in together]_screenVars
  <2> SUFFICES ASSUME ScreenInv, FeeInv, [ScreenNext]_screenVars,
                      NEW x \in Execs, NEW n \in 1..MaxSends,
                      chain[x]["fee"][n] = "unsent", chain'[x]["fee"][n] # "unsent"
               PROVE  \E p \in Pages :
                        /\ op[p][x].pc = "asking"
                        /\ ledger[p] => \E y \in Execs \ {x} : {x, y} \in together
    OBVIOUS
  <2>1. TypeOK /\ [Next]_vars
    BY ScreenIsNext DEF ScreenInv, SendInv, TypeInv
  <2>2. PICK p \in Pages : op[p][x].pc = "asking" /\ op[p][x].step = "fee"
    BY <2>1, SentWasAsked
  <2>3. ledger[p] => HasTwin(x)
    BY <2>2 DEF FeeInv, AtFee
  <2> QED BY <2>2, <2>3 DEF HasTwin
<1> QED BY <1>1, FeeAlways, PTL DEF ScreenSpec, RememberedFeeNotSentAgain

=============================================================================
