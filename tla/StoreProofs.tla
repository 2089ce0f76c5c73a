----------------------------- MODULE StoreProofs ----------------------------
(***************************************************************************)
(* What browsers store: the plans of PlanRunner, in any number of tabs, and *)
(* the copies of moves of RecordMirror, in any number of browsers.         *)
(*                                                                         *)
(* Plans.  PlanInv relates every call to the stored plan and to the moves. *)
(* What a call relies on splits in two: facts that survive another tab's   *)
(* write (a done leg, a final move), which hold even of a stale call, and  *)
(* facts about the stored plan, which the version check protects and which *)
(* hold only while the call is not stale.                                  *)
(*                                                                         *)
(* Copies.  VersionInv: all that have a record have it from one browser,   *)
(* its maker, whose own record only grows, and every upload, request, copy *)
(* and token is judged against that record.  SmoothInv: while one page     *)
(* made and sent every version, the uploads that wait are the record's     *)
(* last versions, in order, and the copy is the one before them.           *)
(***************************************************************************)
EXTENDS PlanRunner, RecordMirror, TLAPS

-----------------------------------------------------------------------------
(* Part 1: plans, PlanRunner.                                              *)

Untouched == {"none", "PLANNED", "CANCELLED", "EXPIRED"}

\* What a call o knows whatever other tabs write.
KnownFor(o, r, mv) ==
  /\ r.state \notin Untouched
  /\ o.pc \in {"moveStart", "quoted", "cleared", "starting", "complete"} => o.leg = 2
  /\ o.pc \in {"rampStart", "rampPoll"} => o.leg = 1
  /\ o.leg = 2 => r.legs[1] = "done"
  /\ o.pc = "starting" => o.move # 0
  /\ o.move # 0 => mv[o.move].state # "none"
  /\ o.pc # "answered" => o.base = Unread
  /\ o.pc = "answered" /\ o.leg = 1 => o.answer \in {"waiting-user", "done"} /\ o.move = 0
  /\ o.pc = "answered" /\ o.leg = 2 => o.base = Unread
  /\ o.pc = "answered" /\ o.leg = 2 /\ o.answer = "done" =>
       o.move # 0 /\ mv[o.move].state = "completed"
  /\ o.pc = "answered" /\ o.answer = "failed" =>
       o.leg = 2 /\ o.move # 0 /\ mv[o.move].state = "failed"

\* What a call knows of the stored plan until another tab writes it.
CurrentFor(o, r, mv) ==
  /\ r.state = "RUNNING"
  /\ o.pc \in Executing \cup {"answered"} => r.legs[o.leg] # "done"
  /\ o.pc = "rampStart" => r.base = Unread
  /\ o.pc = "answered" /\ o.base # Unread => r.base = Unread
  /\ o.pc \in {"moveStart", "quoted", "cleared"} => r.move = 0
  /\ o.pc \in {"starting", "answered"} /\ r.move # 0 => o.move \in {0, r.move}
  /\ o.pc = "failing" => r.move # 0 /\ mv[r.move].state = "failed"

CallOK(o, r, mv) ==
  o.pc # "idle" => KnownFor(o, r, mv) /\ (~o.stale => CurrentFor(o, r, mv))

PlanOK(r, mv) ==
  /\ r.state \in Untouched => \A i \in Legs : r.legs[i] = "pending"
  /\ r.legs[1] = "pending" => r.base = Unread
  /\ r.legs[1] # "done" => r.move = 0 /\ r.legs[2] # "done"
  /\ r.move # 0 => mv[r.move].state # "none"
  /\ r.legs[2] = "done" => r.move # 0 /\ mv[r.move].state = "completed"
  /\ r.state = "FAILED" => r.move # 0 /\ mv[r.move].state = "failed"
  /\ r.state = "COMPLETED" => \A i \in Legs : r.legs[i] = "done"

PlanInv ==
  /\ TypeOK
  /\ LegsInOrder
  /\ PlanOK(plan, moves)
  /\ \A p \in Pages : CallOK(op[p], plan, moves)

-----------------------------------------------------------------------------
(* The records that calls and saves make.                                  *)

LEMMA OpLemma ==
  ASSUME NEW o \in Op
  PROVE  /\ Idle \in Op
         /\ \A pc \in Places, i \in Legs, m \in MoveNo : At(pc, i, m) \in Op
         /\ \A pc \in Places : [o EXCEPT !.pc = pc] \in Op
         /\ [o EXCEPT !.stale = TRUE] \in Op
         /\ \A pc \in Places, n \in Nat : [o EXCEPT !.pc = pc, !.amount = n] \in Op
         /\ \A pc \in Places, m \in MoveNo : [o EXCEPT !.pc = pc, !.move = m] \in Op
         /\ \A a \in Answers : [o EXCEPT !.pc = "answered", !.answer = a] \in Op
         /\ \A a \in Answers, b \in Nat \cup {Unread}, m \in MoveNo :
              [o EXCEPT !.pc = "answered", !.answer = a, !.base = b, !.move = m] \in Op
<1>1. 0 \in MoveNo /\ Unread \in Nat \cup {Unread} /\ 1 \in Legs
  BY BoundsAssumption DEF MoveNo, Legs
<1> QED BY <1>1 DEF Op, Idle, At, Places, Executing, Answers

\* The loop of step starts where the record allows it.
LEMMA GoesOnLemma ==
  ASSUME NEW r \in PlanRecord, NEW mv \in [1..MaxMoves -> Move],
         r.state = "RUNNING", PlanOK(r, mv)
  PROVE  GoesOn(r) \in Op /\ CallOK(GoesOn(r), r, mv)
<1>1. 0 \in MoveNo /\ r.move \in MoveNo
  BY BoundsAssumption DEF MoveNo, PlanRecord
<1>2. ASSUME NEW pc \in Executing \cup {"complete"}, NEW i \in Legs, NEW m \in MoveNo
      PROVE  /\ At(pc, i, m) \in Op
             /\ At(pc, i, m).pc = pc /\ At(pc, i, m).leg = i /\ At(pc, i, m).move = m
             /\ ~At(pc, i, m).stale /\ At(pc, i, m).base = Unread
  BY DEF At, Idle, Op, Places, Executing, Answers, Legs
<1> HIDE DEF At
<1>3. CASE r.legs[1] # "done"
  <2> DEFINE pc == IF r.legs[1] = "pending" THEN "rampStart" ELSE "rampPoll"
  <2>1. GoesOn(r) = At(pc, 1, 0) /\ pc \in Executing /\ 1 \in Legs
    BY <1>3 DEF GoesOn, Executing, Legs
  <2>2. pc = "rampStart" => r.base = Unread
    BY DEF PlanOK
  <2> QED BY <1>1, <1>2, <1>3, <2>1, <2>2 DEF CallOK, KnownFor, CurrentFor, Untouched
<1>4. CASE r.legs[1] = "done" /\ r.legs[2] = "done"
  <2>1. GoesOn(r) = At("complete", 2, 0) /\ 2 \in Legs
    BY <1>4 DEF GoesOn, Legs
  <2> QED BY <1>1, <1>2, <1>4, <2>1 DEF CallOK, KnownFor, CurrentFor, Executing, Untouched
<1>5. CASE r.legs[1] = "done" /\ r.legs[2] # "done"
  <2> DEFINE pc == IF r.move = 0 THEN "moveStart" ELSE "starting"
  <2>1. GoesOn(r) = At(pc, 2, r.move) /\ pc \in Executing /\ 2 \in Legs
    BY <1>5 DEF GoesOn, Executing, Legs
  <2>2. r.move # 0 => mv[r.move].state # "none"
    BY DEF PlanOK
  <2> QED BY <1>1, <1>2, <1>5, <2>1, <2>2 DEF CallOK, KnownFor, CurrentFor, Untouched
<1> QED BY <1>3, <1>4, <1>5

-----------------------------------------------------------------------------
(* The three kinds of step, and what each needs to keep the invariant.     *)

\* A call goes on; nothing is written.
LEMMA GoesKeeps ==
  ASSUME PlanInv, NEW p \in Pages, NEW o \in Op, Goes(p, o), CallOK(o, plan, moves),
         UNCHANGED world
  PROVE  PlanInv'
<1>1. op' \in [Pages -> Op] /\ op'[p] = o /\ \A q \in Pages : q # p => op'[q] = op[q]
  BY DEF PlanInv, TypeOK, Goes
<1>2. plan' = plan /\ moves' = moves /\ fresh' = fresh /\ held' = held
      /\ arrivals' = arrivals /\ lapsed' = lapsed /\ crashes' = crashes
  BY DEF Goes, world
<1>3. TypeOK' /\ LegsInOrder' /\ PlanOK(plan, moves)'
  BY <1>1, <1>2 DEF PlanInv, TypeOK, LegsInOrder, PlanOK
<1>4. ASSUME NEW q \in Pages PROVE CallOK(op'[q], plan, moves)
  BY <1>1 DEF PlanInv
<1> QED BY <1>2, <1>3, <1>4 DEF PlanInv

\* The plan is written: a done leg stays done, a plan that was touched stays so.
LEMMA SaveKeeps ==
  ASSUME PlanInv, NEW p \in Pages, NEW o \in Op, NEW r \in PlanRecord, Save(p, r, o),
         PlanOK(r, moves), CallOK(o, r, moves),
         plan.legs[1] = "done" => r.legs[1] = "done",
         plan.state \notin Untouched => r.state \notin Untouched,
         UNCHANGED world
  PROVE  PlanInv'
<1>1. \A q \in Pages : op[q] \in Op /\ [op[q] EXCEPT !.stale = TRUE] \in Op
  BY OpLemma DEF PlanInv, TypeOK
<1>2. op' \in [Pages -> Op] /\ op'[p] = o /\ plan' = r
  BY <1>1 DEF Save
<1>3. moves' = moves /\ fresh' = fresh /\ held' = held
      /\ arrivals' = arrivals /\ lapsed' = lapsed /\ crashes' = crashes
  BY DEF world
<1>4. TypeOK' /\ LegsInOrder' /\ PlanOK(plan, moves)'
  BY <1>2, <1>3 DEF PlanInv, TypeOK, LegsInOrder, PlanOK
<1>5. ASSUME NEW q \in Pages, q # p PROVE CallOK(op'[q], r, moves)
  <2>1. CASE op[q].pc = "idle"
    <3>1. op'[q] = op[q]
      BY <2>1, <1>5 DEF Save
    <3> QED BY <3>1, <2>1 DEF CallOK
  <2>2. CASE op[q].pc # "idle"
    <3>1. op'[q] = [op[q] EXCEPT !.stale = TRUE]
      BY <2>2, <1>5 DEF Save
    <3>2. op'[q].stale /\ op'[q].pc = op[q].pc /\ op'[q].leg = op[q].leg
          /\ op'[q].move = op[q].move /\ op'[q].answer = op[q].answer /\ op'[q].base = op[q].base
      BY <3>1, <1>1 DEF Op
    <3>3. KnownFor(op[q], plan, moves)
      BY <2>2 DEF PlanInv, CallOK
    <3>4. KnownFor(op'[q], r, moves)
      BY <3>2, <3>3 DEF KnownFor
    <3> QED BY <3>2, <3>4 DEF CallOK
  <2> QED BY <2>1, <2>2
<1>6. \A q \in Pages : CallOK(op'[q], r, moves)
  BY <1>2, <1>5
<1> QED BY <1>2, <1>3, <1>4, <1>6 DEF PlanInv

\* The moves change: one that exists goes on existing, one that is over stays as it
\* is.  Calls stand still, or go on as CallOK asks.
LEMMA MovesKeep ==
  ASSUME PlanInv, TypeOK', plan' = plan,
         \A q \in Pages : op'[q] = op[q] \/ CallOK(op'[q], plan, moves'),
         \A m \in 1..MaxMoves : moves[m].state # "none" => moves'[m].state # "none",
         \A m \in 1..MaxMoves :
           moves[m].state \in MoveFinal => moves'[m].state = moves[m].state,
         \A m \in 1..MaxMoves : moves'[m].state # "none" =>
           moves[m].state # "none" \/ plan.legs[1] = "done"
  PROVE  PlanInv'
<1>1. \A q \in Pages : op[q] \in Op /\ op[q].move \in MoveNo
  BY DEF PlanInv, TypeOK, Op
<1>2. plan.move \in MoveNo /\ \A m \in MoveNo : m # 0 => m \in 1..MaxMoves
  BY BoundsAssumption DEF PlanInv, TypeOK, PlanRecord, MoveNo
<1>3. LegsInOrder'
  BY DEF LegsInOrder, PlanInv
<1>4. PlanOK(plan, moves')
  BY <1>2 DEF PlanInv, PlanOK, MoveFinal
<1>5. ASSUME NEW q \in Pages, op'[q] = op[q] PROVE CallOK(op'[q], plan, moves')
  <2>1. CASE op[q].pc = "idle"
    BY <2>1, <1>5 DEF CallOK
  <2>2. CASE op[q].pc # "idle"
    <3>1. KnownFor(op[q], plan, moves) /\ (~op[q].stale => CurrentFor(op[q], plan, moves))
      BY <2>2 DEF PlanInv, CallOK
    <3>2. KnownFor(op[q], plan, moves')
      BY <3>1, <1>1, <1>2 DEF KnownFor, MoveFinal
    <3>3. ~op[q].stale => CurrentFor(op[q], plan, moves')
      BY <3>1, <1>2 DEF CurrentFor, MoveFinal
    <3> QED BY <3>2, <3>3, <1>5 DEF CallOK
  <2> QED BY <2>1, <2>2
<1> QED BY <1>3, <1>4, <1>5 DEF PlanInv
-----------------------------------------------------------------------------
(* PlanInv is inductive.                                                   *)

LEMMA InitLemma == Init => PlanInv
<1> SUFFICES ASSUME Init PROVE PlanInv
  OBVIOUS
<1>1. Idle \in Op
  BY BoundsAssumption DEF Idle, Op, Places, Answers, Legs, MoveNo
<1>2. plan \in PlanRecord
  BY BoundsAssumption DEF Init, newPlan, PlanRecord, PlanStates, LegStatuses, MoveNo
<1>3. NoMove \in Move
  BY DEF NoMove, Move, MoveStates, Burns
<1>4. TypeOK
  <2>1. op \in [Pages -> Op] /\ moves \in [1..MaxMoves -> Move]
    BY <1>1, <1>3 DEF Init
  <2>2. fresh \in [Pages -> SUBSET (1..MaxMoves)]
    BY DEF Init
  <2>3. held = Spare /\ arrivals = {} /\ lapsed = FALSE /\ crashes = 0
    BY DEF Init
  <2>4. held \in Nat /\ crashes \in 0..MaxCrashes
    BY <2>3, AmountsAssumption, BoundsAssumption
  <2> QED BY <1>2, <2>1, <2>2, <2>3, <2>4 DEF TypeOK
<1>5. plan.state = "none" /\ (\A i \in Legs : plan.legs[i] = "pending")
      /\ plan.base = Unread /\ plan.move = 0
  BY DEF Init, newPlan
<1>6. PlanOK(plan, moves)
  BY <1>5 DEF PlanOK, Legs
<1>7. \A m \in 1..MaxMoves : moves[m].state = "none"
  BY DEF Init, NoMove
<1>8. LegsInOrder
  BY <1>7 DEF LegsInOrder
<1>9. \A p \in Pages : op[p].pc = "idle"
  BY DEF Init, Idle
<1> QED BY <1>4, <1>6, <1>8, <1>9 DEF PlanInv, CallOK

\* What PlanInv says of one call, and of the plan while nothing was begun.
LEMMA CallFacts ==
  ASSUME PlanInv, NEW p \in Pages
  PROVE  /\ op[p] \in Op /\ plan \in PlanRecord /\ CallOK(op[p], plan, moves)
         /\ op[p].pc # "idle" => KnownFor(op[p], plan, moves)
         /\ op[p].pc # "idle" /\ ~op[p].stale => CurrentFor(op[p], plan, moves)
         /\ op[p].move \in MoveNo /\ op[p].amount \in Nat /\ op[p].leg \in Legs
         /\ op[p].move # 0 => op[p].move \in 1..MaxMoves
         /\ 0 \in MoveNo
BY BoundsAssumption DEF PlanInv, TypeOK, CallOK, Op, MoveNo

\* The plan with another state is a plan.
LEMMA StateLemma ==
  ASSUME NEW r \in PlanRecord, NEW to \in PlanStates
  PROVE  LET s == [r EXCEPT !.state = to] IN
         s \in PlanRecord /\ s.state = to /\ s.legs = r.legs /\ s.base = r.base /\ s.move = r.move
BY DEF PlanRecord

LEMMA IdleLemma ==
  ASSUME NEW r, NEW mv PROVE Idle \in Op /\ CallOK(Idle, r, mv)
BY BoundsAssumption DEF Idle, CallOK, Op, Places, Answers, Legs, MoveNo

LEMMA CreateLemma ==
  ASSUME PlanInv, NEW p \in Pages, Create(p) PROVE PlanInv'
<1>1. newPlan \in PlanRecord
  BY BoundsAssumption DEF newPlan, PlanRecord, PlanStates, LegStatuses, MoveNo
<1>2. PlanOK(newPlan, moves)
  BY DEF newPlan, PlanOK, Legs
<1>3. plan.legs[1] # "done" /\ plan.state \in Untouched
  BY DEF Create, PlanInv, PlanOK, Legs, Untouched
<1> QED BY <1>1, <1>2, <1>3, IdleLemma, SaveKeeps DEF Create

LEMMA DropLemma ==
  ASSUME PlanInv, NEW p \in Pages, Cancel(p) \/ StepExpires(p) PROVE PlanInv'
<1>1. PICK to \in {"CANCELLED", "EXPIRED"} : SaveMove(p, plan, to, Idle) /\ UNCHANGED world
  BY DEF Cancel, StepExpires
<1> DEFINE r == [plan EXCEPT !.state = to]
<1>2. r \in PlanRecord /\ r.state = to /\ r.legs = plan.legs /\ r.base = plan.base /\ r.move = plan.move
  BY StateLemma, CallFacts DEF PlanStates, PlanFinal
<1>3. \A i \in Legs : plan.legs[i] = "pending"
  BY <1>1 DEF SaveMove, CanMove, hasBegun
<1>4. plan.state \in Untouched
  BY <1>1, CallFacts DEF SaveMove, CanMove, NEXT, Untouched, PlanRecord, PlanStates, PlanFinal
<1>5. PlanOK(r, moves)
  BY <1>2, <1>3 DEF PlanOK, PlanInv
<1>6. Save(p, r, Idle)
  BY <1>1 DEF SaveMove
<1> HIDE DEF r
<1> QED BY <1>1, <1>2, <1>4, <1>5, <1>6, IdleLemma, SaveKeeps

LEMMA RunLemma ==
  ASSUME PlanInv, NEW p \in Pages, StepRuns(p) PROVE PlanInv'
<1>1. UNCHANGED world /\ plan \in PlanRecord /\ PlanOK(plan, moves)
  BY CallFacts DEF StepRuns, PlanInv
<1>2. CASE plan.state \in {"PLANNED", "WAITING_USER"} /\ SaveMove(p, plan, "RUNNING", GoesOn(plan))
  <2> DEFINE r == [plan EXCEPT !.state = "RUNNING"]
  <2>1. r \in PlanRecord /\ r.state = "RUNNING" /\ r.legs = plan.legs /\ r.base = plan.base
        /\ r.move = plan.move
    BY <1>1, StateLemma DEF PlanStates
  <2>2. PlanOK(r, moves)
    BY <1>1, <2>1 DEF PlanOK, Untouched
  <2>3. GoesOn(plan) = GoesOn(r)
    BY <2>1 DEF GoesOn
  <2>4. GoesOn(r) \in Op /\ CallOK(GoesOn(r), r, moves)
    BY <2>1, <2>2, GoesOnLemma DEF PlanInv, TypeOK
  <2>5. Save(p, r, GoesOn(r))
    BY <1>2, <2>3 DEF SaveMove
  <2> HIDE DEF r
  <2> QED BY <1>1, <2>1, <2>2, <2>4, <2>5, SaveKeeps DEF Untouched
<1>3. CASE plan.state = "RUNNING" /\ Goes(p, GoesOn(plan))
  <2>1. GoesOn(plan) \in Op /\ CallOK(GoesOn(plan), plan, moves)
    BY <1>1, <1>3, GoesOnLemma DEF PlanInv, TypeOK
  <2> QED BY <1>1, <1>3, <2>1, GoesKeeps
<1> QED BY <1>2, <1>3 DEF StepRuns

\* The tail of step that only moves the plan.
LEMMA PlanMovesLemma ==
  ASSUME PlanInv, NEW p \in Pages,
         StepCompletes(p) \/ PlanWaits(p) \/ PlanFails(p) \/ SaveThrown(p)
  PROVE  PlanInv'
<1>1. UNCHANGED world /\ op[p].pc # "idle" /\ ~op[p].stale
  BY DEF StepCompletes, PlanWaits, PlanFails, SaveThrown, Answered, Reached
<1>2. CurrentFor(op[p], plan, moves) /\ plan \in PlanRecord /\ PlanOK(plan, moves)
  BY <1>1, CallFacts DEF PlanInv
<1>3. PICK to \in {"COMPLETED", "WAITING_USER", "FAILED"} :
        /\ SaveMove(p, plan, to, Idle)
        /\ to = "FAILED" => op[p].pc = "failing"
  BY DEF StepCompletes, PlanWaits, PlanFails, SaveThrown, Reached
<1> DEFINE r == [plan EXCEPT !.state = to]
<1>4. r \in PlanRecord /\ r.state = to /\ r.legs = plan.legs /\ r.base = plan.base /\ r.move = plan.move
  BY <1>2, StateLemma DEF PlanStates, PlanFinal
<1>5. to = "COMPLETED" => \A i \in Legs : plan.legs[i] = "done"
  BY <1>3 DEF SaveMove, CanMove
<1>6. to = "FAILED" => plan.move # 0 /\ moves[plan.move].state = "failed"
  BY <1>2, <1>3 DEF CurrentFor
<1>7. PlanOK(r, moves)
  BY <1>2, <1>4, <1>5, <1>6 DEF PlanOK, Untouched
<1>8. Save(p, r, Idle)
  BY <1>3 DEF SaveMove
<1> HIDE DEF r
<1> QED BY <1>1, <1>4, <1>7, <1>8, IdleLemma, SaveKeeps DEF Untouched

\* The leg of an answered call is written.
LEMMA WithLegLemma ==
  ASSUME PlanInv, NEW p \in Pages, op[p].pc = "answered", ~op[p].stale,
         NEW status \in LegStatuses, status # "pending",
         status = "done" => op[p].answer = "done",
         op[p].leg = 1 => status # "active" /\ op[p].answer # "failed"
  PROVE  LET r == WithLeg(p, status) IN
         /\ r \in PlanRecord /\ r.state = "RUNNING" /\ PlanOK(r, moves)
         /\ plan.legs[1] = "done" => r.legs[1] = "done"
         /\ op[p].leg = 2 => r.legs[1] = "done"
         /\ op[p].answer = "failed" => r.move # 0 /\ moves[r.move].state = "failed"
<1> DEFINE r == WithLeg(p, status)
           b == IF op[p].base = Unread THEN plan.base ELSE op[p].base
           m == IF op[p].move = 0 THEN plan.move ELSE op[p].move
<1>1. /\ KnownFor(op[p], plan, moves) /\ CurrentFor(op[p], plan, moves)
      /\ plan \in PlanRecord /\ PlanOK(plan, moves) /\ op[p] \in Op
      /\ op[p].leg \in Legs
  BY CallFacts DEF PlanInv
<1>2. /\ r.state = "RUNNING" /\ r.base = b /\ r.move = m
      /\ r.legs = [plan.legs EXCEPT ![op[p].leg] = status]
      /\ r \in PlanRecord
  BY <1>1 DEF WithLeg, PlanRecord, Op, CurrentFor
<1>3. \A i \in Legs : r.legs[i] = IF i = op[p].leg THEN status ELSE plan.legs[i]
  BY <1>1, <1>2 DEF PlanRecord
<1>4. CASE op[p].leg = 1
  <2>1. m = plan.move /\ op[p].answer # "failed"
    BY <1>4, <1>1 DEF KnownFor
  <2>2. plan.legs[1] # "done" /\ m = 0 /\ plan.legs[2] # "done"
    BY <1>4, <1>1, <2>1 DEF CurrentFor, PlanOK
  <2> QED BY <1>2, <1>3, <1>4, <2>1, <2>2 DEF PlanOK, Legs, Untouched
<1>5. CASE op[p].leg = 2
  <2>1. plan.legs[1] = "done" /\ plan.legs[2] # "done"
    BY <1>1, <1>5 DEF KnownFor, CurrentFor
  <2>2. m # 0 => moves[m].state # "none"
    BY <1>1 DEF KnownFor, PlanOK
  <2>3. status = "done" => m # 0 /\ moves[m].state = "completed"
    BY <1>1, <1>5 DEF KnownFor
  <2>4. op[p].answer = "failed" => m # 0 /\ moves[m].state = "failed"
    BY <1>1, <1>5 DEF KnownFor
  <2> HIDE DEF m
  <2> QED BY <1>2, <1>3, <1>5, <2>1, <2>2, <2>3, <2>4 DEF PlanOK, Legs, Untouched
<1> QED BY <1>1, <1>4, <1>5 DEF Legs

LEMMA SaveDoneLemma ==
  ASSUME PlanInv, NEW p \in Pages, SaveDone(p) PROVE PlanInv'
<1> DEFINE r == WithLeg(p, "done")
<1>1. op[p].pc = "answered" /\ ~op[p].stale /\ op[p].answer = "done" /\ UNCHANGED world
      /\ Save(p, r, GoesOn(r))
  BY DEF SaveDone, Answered, Reached
<1>2. r \in PlanRecord /\ r.state = "RUNNING" /\ PlanOK(r, moves)
      /\ (plan.legs[1] = "done" => r.legs[1] = "done")
  BY <1>1, WithLegLemma DEF LegStatuses
<1>3. GoesOn(r) \in Op /\ CallOK(GoesOn(r), r, moves)
  BY <1>2, GoesOnLemma DEF PlanInv, TypeOK
<1> HIDE DEF r
<1> QED BY <1>1, <1>2, <1>3, SaveKeeps DEF Untouched

LEMMA SaveActiveLemma ==
  ASSUME PlanInv, NEW p \in Pages, SaveActive(p) PROVE PlanInv'
<1> DEFINE r == WithLeg(p, "active")
<1>1. op[p].pc = "answered" /\ ~op[p].stale /\ op[p].answer = "active" /\ UNCHANGED world
      /\ Save(p, r, Idle)
  BY DEF SaveActive, Answered, Reached
<1>2. op[p].leg # 1
  BY <1>1, CallFacts DEF KnownFor
<1>3. r \in PlanRecord /\ r.state = "RUNNING" /\ PlanOK(r, moves)
      /\ (plan.legs[1] = "done" => r.legs[1] = "done")
  BY <1>1, <1>2, WithLegLemma DEF LegStatuses
<1> HIDE DEF r
<1> QED BY <1>1, <1>3, IdleLemma, SaveKeeps DEF Untouched

LEMMA SaveLegLemma ==
  ASSUME PlanInv, NEW p \in Pages, SaveLeg(p) PROVE PlanInv'
<1> DEFINE r == WithLeg(p, op[p].answer)
           pc == IF op[p].answer = "failed" THEN "failing" ELSE "waiting"
           o == [Idle EXCEPT !.pc = pc]
<1>1. op[p].pc = "answered" /\ ~op[p].stale /\ UNCHANGED world /\ Save(p, r, o)
      /\ op[p].answer \in {"waiting-user", "needs-requote", "failed"}
  BY DEF SaveLeg, Answered, Reached
<1>2. op[p].leg = 1 => op[p].answer = "waiting-user"
  BY <1>1, CallFacts DEF KnownFor
<1>3. /\ r \in PlanRecord /\ r.state = "RUNNING" /\ PlanOK(r, moves)
      /\ (plan.legs[1] = "done" => r.legs[1] = "done")
      /\ (op[p].answer = "failed" => r.move # 0 /\ moves[r.move].state = "failed")
  BY <1>1, <1>2, WithLegLemma DEF LegStatuses
<1>4. /\ o \in Op /\ o.pc = pc /\ o.leg = 1 /\ o.move = 0 /\ o.base = Unread
      /\ pc \in {"waiting", "failing"}
  BY IdleLemma DEF Op, Places, Idle
<1> HIDE DEF r, o
<1>5. CallOK(o, r, moves)
  BY <1>3, <1>4 DEF CallOK, KnownFor, CurrentFor, Executing, Untouched
<1> QED BY <1>1, <1>3, <1>4, <1>5, SaveKeeps DEF Untouched

-----------------------------------------------------------------------------
(* The executors: a call goes on.                                          *)

\* Leg 1 answers.
LEMMA RampLemma ==
  ASSUME PlanInv, NEW p \in Pages, RampBegins(p) \/ RampWaits(p) \/ RampArrived(p)
  PROVE  PlanInv'
<1>1. PICK a \in {"waiting-user", "done"}, b \in Nat \cup {Unread} :
        /\ Answer(p, a, b, 0)
        /\ op[p].pc \in {"rampStart", "rampPoll"}
        /\ b # Unread => op[p].pc = "rampStart"
        /\ UNCHANGED world
  <2>1. held \in Nat
    BY DEF PlanInv, TypeOK
  <2> QED BY <2>1 DEF RampBegins, RampWaits, RampArrived
<1> DEFINE o == [op[p] EXCEPT !.pc = "answered", !.answer = a, !.base = b, !.move = 0]
<1>2. a \in Answers
  BY DEF Answers
<1>3. op[p] \in Op /\ KnownFor(op[p], plan, moves) /\ 0 \in MoveNo
      /\ (~op[p].stale => CurrentFor(op[p], plan, moves))
  BY <1>1, CallFacts
<1>4. o \in Op
  BY <1>2, <1>3, OpLemma
<1>5. o.pc = "answered" /\ o.answer = a /\ o.base = b /\ o.move = 0
      /\ o.leg = op[p].leg /\ o.stale = op[p].stale
  BY <1>3 DEF Op
<1>6. Goes(p, o)
  BY <1>1 DEF Answer
<1> HIDE DEF o
<1>7. KnownFor(o, plan, moves)
  BY <1>1, <1>3, <1>5 DEF KnownFor
<1>8. ~o.stale => CurrentFor(o, plan, moves)
  BY <1>1, <1>3, <1>5 DEF CurrentFor, Executing
<1> QED BY <1>1, <1>4, <1>6, <1>7, <1>8, GoesKeeps DEF CallOK

\* Leg 2 is put off, or its call throws: no move is named.
LEMMA PutOffLemma ==
  ASSUME PlanInv, NEW p \in Pages,
         MoveWaits(p) \/ MoveHeld(p) \/ MoveExpired(p) \/ CallThrows(p)
  PROVE  PlanInv'
<1>1. PICK a \in {"waiting-user", "needs-requote", "threw"} :
        /\ Answer(p, a, Unread, 0)
        /\ op[p].pc \in {"moveStart", "quoted", "cleared", "starting"}
        /\ UNCHANGED world
  BY DEF MoveWaits, MoveHeld, MoveExpired, CallThrows
<1> DEFINE o == [op[p] EXCEPT !.pc = "answered", !.answer = a, !.base = Unread, !.move = 0]
<1>2. a \in Answers
  BY DEF Answers
<1>3. op[p] \in Op /\ KnownFor(op[p], plan, moves) /\ 0 \in MoveNo
      /\ (~op[p].stale => CurrentFor(op[p], plan, moves))
  BY <1>1, CallFacts
<1>4. o \in Op
  BY <1>2, <1>3, OpLemma
<1>5. o.pc = "answered" /\ o.answer = a /\ o.base = Unread /\ o.move = 0
      /\ o.leg = op[p].leg /\ o.stale = op[p].stale
  BY <1>3 DEF Op
<1>6. Goes(p, o)
  BY <1>1 DEF Answer
<1> HIDE DEF o
<1>7. KnownFor(o, plan, moves)
  BY <1>1, <1>3, <1>5 DEF KnownFor
<1>8. ~o.stale => CurrentFor(o, plan, moves)
  BY <1>1, <1>3, <1>5 DEF CurrentFor, Executing
<1> QED BY <1>1, <1>4, <1>6, <1>7, <1>8, GoesKeeps DEF CallOK

\* Leg 2 has a quote, and the checks pass it.
LEMMA ClearLemma ==
  ASSUME PlanInv, NEW p \in Pages, MoveQuoted(p) \/ MoveCleared(p)
  PROVE  PlanInv'
<1>1. op[p] \in Op /\ op[p].pc \in {"moveStart", "quoted"} /\ UNCHANGED world
      /\ KnownFor(op[p], plan, moves) /\ (~op[p].stale => CurrentFor(op[p], plan, moves))
  <2>1. op[p].pc \in {"moveStart", "quoted"}
    BY DEF MoveQuoted, MoveCleared
  <2> QED BY <2>1, CallFacts DEF MoveQuoted, MoveCleared
<1>2. PICK pc \in {"quoted", "cleared"}, n \in Nat : Goes(p, [op[p] EXCEPT !.pc = pc, !.amount = n])
  <2>1. CASE MoveQuoted(p)
    <3>1. held - plan.base \in Nat
      <4>1. held \in Nat /\ plan.base \in Nat
        BY <2>1, CallFacts DEF PlanInv, TypeOK, PlanRecord, MoveQuoted
      <4> QED BY <2>1, <4>1 DEF MoveQuoted
    <3> QED BY <2>1, <3>1 DEF MoveQuoted
  <2>2. CASE MoveCleared(p)
    <3>1. [op[p] EXCEPT !.pc = "cleared"] = [op[p] EXCEPT !.pc = "cleared", !.amount = op[p].amount]
      BY <1>1 DEF Op
    <3> QED BY <2>2, <3>1, CallFacts DEF MoveCleared
  <2> QED BY <2>1, <2>2
<1> DEFINE o == [op[p] EXCEPT !.pc = pc, !.amount = n]
<1>3. o \in Op
  <2>1. pc \in Places
    BY DEF Places, Executing
  <2> QED BY <1>1, <2>1, OpLemma
<1>4. o.pc = pc /\ o.answer = op[p].answer /\ o.base = op[p].base /\ o.move = op[p].move
      /\ o.leg = op[p].leg /\ o.stale = op[p].stale
  BY <1>1 DEF Op
<1> HIDE DEF o
<1>5. KnownFor(o, plan, moves)
  BY <1>1, <1>4 DEF KnownFor
<1>6. ~o.stale => CurrentFor(o, plan, moves)
  BY <1>1, <1>4 DEF CurrentFor, Executing
<1> QED BY <1>1, <1>2, <1>3, <1>5, <1>6, GoesKeeps DEF CallOK, o

\* Leg 2 has a move, and its call returns what became of it.
LEMMA ReturnLemma ==
  ASSUME PlanInv, NEW p \in Pages, CallReturns(p)
  PROVE  PlanInv'
<1> DEFINE r == moves[op[p].move]
<1>1. op[p] \in Op /\ op[p].pc = "starting" /\ UNCHANGED world
      /\ KnownFor(op[p], plan, moves) /\ (~op[p].stale => CurrentFor(op[p], plan, moves))
      /\ op[p].move \in MoveNo /\ 0 \in MoveNo /\ op[p].move # 0 /\ op[p].leg = 2
  <2>1. op[p].pc = "starting" /\ UNCHANGED world
    BY DEF CallReturns
  <2> QED BY <2>1, CallFacts DEF KnownFor
<1>2. r \in Move
  BY <1>1, CallFacts DEF PlanInv, TypeOK
<1>3. /\ map(r) \in Answers
      /\ map(r) = "done" => r.state = "completed"
      /\ map(r) = "failed" => r.state = "failed"
  BY <1>2 DEF map, Answers, Move, MoveStates, MoveFinal
<1>4. PICK a \in Answers, m \in {0, op[p].move} :
        /\ Answer(p, a, Unread, m)
        /\ a = "done" => r.state = "completed" /\ m # 0
        /\ a = "failed" => r.state = "failed" /\ m # 0
  BY <1>1, <1>3 DEF CallReturns, Answers
<1> DEFINE o == [op[p] EXCEPT !.pc = "answered", !.answer = a, !.base = Unread, !.move = m]
<1>5. o \in Op
  BY <1>1, OpLemma
<1>6. o.pc = "answered" /\ o.answer = a /\ o.base = Unread /\ o.move = m
      /\ o.leg = op[p].leg /\ o.stale = op[p].stale
  BY <1>1 DEF Op
<1>7. Goes(p, o)
  BY <1>4 DEF Answer
<1> HIDE DEF o
<1>8. KnownFor(o, plan, moves)
  BY <1>1, <1>4, <1>6 DEF KnownFor
<1>9. ~o.stale => CurrentFor(o, plan, moves)
  BY <1>1, <1>4, <1>6 DEF CurrentFor, Executing
<1> QED BY <1>1, <1>5, <1>7, <1>8, <1>9, GoesKeeps DEF CallOK

LEMMA RefusedLemma ==
  ASSUME PlanInv, NEW p \in Pages, WriteFails(p) PROVE PlanInv'
BY IdleLemma, GoesKeeps DEF WriteFails

-----------------------------------------------------------------------------
(* The moves, and what happens outside the calls.                          *)

\* One move that exists is changed; a call goes on.
LEMMA OneMoveChanges ==
  ASSUME PlanInv, NEW p \in Pages, NEW m \in 1..MaxMoves, NEW r \in Move,
         moves' = [moves EXCEPT ![m] = r],
         moves[m].state # "none", moves[m].state \in MoveFinal => r.state = moves[m].state,
         r.state # "none",
         UNCHANGED <<plan, fresh, arrivals, lapsed, crashes>>, held' \in Nat,
         op' \in [Pages -> Op], \A q \in Pages : q # p => op'[q] = op[q],
         op'[p] = op[p] \/ CallOK(op'[p], plan, moves')
  PROVE  PlanInv'
<1>1. moves' \in [1..MaxMoves -> Move] /\ moves'[m] = r
      /\ \A k \in 1..MaxMoves : k # m => moves'[k] = moves[k]
  BY DEF PlanInv, TypeOK
<1>2. TypeOK'
  BY <1>1 DEF PlanInv, TypeOK
<1> QED BY <1>1, <1>2, MovesKeep

\* The move of a call in the orchestrator.
LEMMA MoveOfCall ==
  ASSUME PlanInv, NEW p \in Pages, op[p].pc = "starting"
  PROVE  /\ op[p].move \in 1..MaxMoves /\ moves[op[p].move] \in Move
         /\ moves[op[p].move].state # "none"
         /\ op[p].leg = 2 /\ op[p].base = Unread
<1>1. op[p].move \in 1..MaxMoves /\ moves[op[p].move].state # "none"
      /\ op[p].leg = 2 /\ op[p].base = Unread
  BY CallFacts DEF KnownFor
<1> QED BY <1>1 DEF PlanInv, TypeOK

LEMMA CreatedLemma ==
  ASSUME PlanInv, NEW p \in Pages, MoveCreated(p) PROVE PlanInv'
<1>1. PICK m \in 1..MaxMoves :
        /\ moves[m].state = "none"
        /\ moves' = [moves EXCEPT ![m] = [NoMove EXCEPT !.state = "open", !.amount = op[p].amount]]
        /\ fresh' = [fresh EXCEPT ![p] = @ \cup {m}]
        /\ Goes(p, [op[p] EXCEPT !.pc = "starting", !.move = m])
  BY DEF MoveCreated
<1> DEFINE r == [NoMove EXCEPT !.state = "open", !.amount = op[p].amount]
           o == [op[p] EXCEPT !.pc = "starting", !.move = m]
<1>2. op[p] \in Op /\ op[p].pc = "cleared" /\ m \in MoveNo /\ m # 0
      /\ KnownFor(op[p], plan, moves) /\ (~op[p].stale => CurrentFor(op[p], plan, moves))
  <2>1. op[p].pc = "cleared"
    BY DEF MoveCreated
  <2> QED BY <2>1, CallFacts, BoundsAssumption DEF MoveNo
<1>3. r \in Move /\ r.state = "open" /\ ~r.attention
  BY <1>2, CallFacts DEF NoMove, Move, MoveStates, Burns
<1>4. o \in Op
  <2>1. "starting" \in Places
    BY DEF Places, Executing
  <2> QED BY <1>2, <2>1, OpLemma
<1>5. o.pc = "starting" /\ o.answer = op[p].answer /\ o.base = op[p].base /\ o.move = m
      /\ o.leg = op[p].leg /\ o.stale = op[p].stale
  BY <1>2 DEF Op
<1> HIDE DEF r
<1>6. moves' \in [1..MaxMoves -> Move] /\ moves'[m] = r
      /\ \A k \in 1..MaxMoves : k # m => moves'[k] = moves[k]
  BY <1>1, <1>3 DEF PlanInv, TypeOK, r
<1>7. op' \in [Pages -> Op] /\ op'[p] = o /\ plan' = plan
      /\ \A q \in Pages : q # p => op'[q] = op[q]
  BY <1>1, <1>4 DEF Goes, PlanInv, TypeOK
<1> HIDE DEF o
<1>8. TypeOK'
  <2>1. fresh' \in [Pages -> SUBSET (1..MaxMoves)]
    BY <1>1 DEF PlanInv, TypeOK
  <2>2. UNCHANGED <<held, arrivals, lapsed, crashes>>
    BY DEF MoveCreated
  <2> QED BY <1>6, <1>7, <2>1, <2>2 DEF PlanInv, TypeOK
<1>9. KnownFor(o, plan, moves')
  BY <1>2, <1>3, <1>5, <1>6 DEF KnownFor
<1>10. ~o.stale => CurrentFor(o, plan, moves')
  BY <1>2, <1>5 DEF CurrentFor, Executing
<1>11. plan.legs[1] = "done"
  BY <1>2 DEF KnownFor
<1> QED BY <1>1, <1>3, <1>6, <1>7, <1>8, <1>9, <1>10, <1>11, MovesKeep DEF CallOK, MoveFinal

\* Inside orchestrator.start.
LEMMA SignLemma ==
  ASSUME PlanInv, NEW p \in Pages, SignBurn(p) \/ SignLost(p) \/ SignUnclear(p)
  PROVE  PlanInv'
<1> DEFINE m == op[p].move
<1>1. op[p].pc = "starting" /\ moves[m].state = "open"
  BY DEF SignBurn, SignLost, SignUnclear, CanSign, InCall
<1>2. m \in 1..MaxMoves /\ moves[m] \in Move /\ op[p].leg = 2 /\ op[p].base = Unread
  BY <1>1, MoveOfCall
<1>3. UNCHANGED <<plan, fresh, held, arrivals, lapsed, crashes>> /\ held' \in Nat
  BY DEF SignBurn, SignLost, SignUnclear, MoveBecomes, PlanInv, TypeOK
<1>4. op[p] \in Op /\ KnownFor(op[p], plan, moves)
      /\ (~op[p].stale => CurrentFor(op[p], plan, moves)) /\ op \in [Pages -> Op]
  BY <1>1, CallFacts DEF PlanInv, TypeOK
<1>5. CASE SignBurn(p)
  <2>0. PICK flagged \in BOOLEAN :
          moves' = [moves EXCEPT ![m] = [moves[m] EXCEPT
                      !.state = "sent", !.burn = "inflight", !.attention = flagged]]
    BY <1>5 DEF SignBurn, MoveBecomes
  <2> DEFINE r == [moves[m] EXCEPT !.state = "sent", !.burn = "inflight", !.attention = flagged]
  <2>1. r \in Move /\ r.state = "sent"
    BY <1>2 DEF Move, MoveStates, Burns
  <2>2. moves' = [moves EXCEPT ![m] = r] /\ op' = op
    BY <1>5, <2>0 DEF SignBurn
  <2> HIDE DEF r, m
  <2> QED BY <1>1, <1>2, <1>3, <1>4, <2>1, <2>2, OneMoveChanges DEF MoveFinal
<1>6. CASE SignUnclear(p)
  <2>1. PICK burn \in {moves[m].burn, "inflight"} :
          moves' = [moves EXCEPT ![m] = [moves[m] EXCEPT !.attention = TRUE, !.burn = burn]]
    BY <1>6 DEF SignUnclear, MoveBecomes
  <2> DEFINE r == [moves[m] EXCEPT !.attention = TRUE, !.burn = burn]
  <2>2. r \in Move /\ r.state = "open"
    BY <1>1, <1>2 DEF Move, Burns
  <2>3. op' = op
    BY <1>6 DEF SignUnclear
  <2> HIDE DEF m
  <2> QED BY <1>1, <1>2, <1>3, <1>4, <2>1, <2>2, <2>3, OneMoveChanges DEF MoveFinal
<1>7. CASE SignLost(p)
  <2>0. PICK flagged \in BOOLEAN :
          moves' = [moves EXCEPT ![m] = [moves[m] EXCEPT !.burn = "inflight", !.attention = flagged]]
    BY <1>7 DEF SignLost, MoveBecomes
  <2> DEFINE r == [moves[m] EXCEPT !.burn = "inflight", !.attention = flagged]
             o == [op[p] EXCEPT !.pc = "answered", !.answer = "threw"]
  <2>1. r \in Move /\ r.state = "open"
    BY <1>1, <1>2 DEF Move, Burns
  <2>2. moves' = [moves EXCEPT ![m] = r] /\ op' = [op EXCEPT ![p].pc = "answered", ![p].answer = "threw"]
    BY <1>7, <2>0 DEF SignLost
  <2>3. o \in Op
    <3>1. "threw" \in Answers
      BY DEF Answers
    <3> QED BY <1>4, <3>1, OpLemma
  <2>4. op' \in [Pages -> Op] /\ op'[p] = o /\ \A q \in Pages : q # p => op'[q] = op[q]
    <3>1. op' = [op EXCEPT ![p] = o]
      BY <2>2
    <3> QED BY <1>4, <2>3, <3>1
  <2>5. o.pc = "answered" /\ o.answer = "threw" /\ o.base = Unread /\ o.move = op[p].move
        /\ o.leg = 2 /\ o.stale = op[p].stale
    BY <1>4, <1>2 DEF Op
  <2> HIDE DEF o, r
  <2>6. \A k \in 1..MaxMoves : moves[k].state # "none" => moves'[k].state # "none"
    BY <2>1, <2>2 DEF PlanInv, TypeOK
  <2>7. KnownFor(o, plan, moves')
    BY <1>1, <1>4, <2>5, <2>6, CallFacts DEF KnownFor
  <2>8. ~o.stale => CurrentFor(o, plan, moves')
    BY <1>1, <1>2, <1>4, <2>5 DEF CurrentFor, Executing
  <2> HIDE DEF m
  <2> QED BY <1>1, <1>2, <1>3, <2>1, <2>2, <2>4, <2>7, <2>8, OneMoveChanges DEF MoveFinal, CallOK
<1> QED BY <1>5, <1>6, <1>7

LEMMA MoveDroppedLemma ==
  ASSUME PlanInv, NEW p \in Pages, MoveDropped(p) PROVE PlanInv'
<1> DEFINE m == op[p].move
<1>1. op[p].pc = "starting" /\ moves[m].state \in {"open", "adrift"}
  BY DEF MoveDropped, InCall
<1>2. m \in 1..MaxMoves /\ moves[m] \in Move /\ op \in [Pages -> Op]
  BY <1>1, MoveOfCall DEF PlanInv, TypeOK
<1>3. UNCHANGED <<plan, op, fresh, held, arrivals, lapsed, crashes>> /\ held' \in Nat
  BY DEF MoveDropped, MoveBecomes, PlanInv, TypeOK
<1>4. PICK how \in {"expired", "failed"}, flagged \in BOOLEAN :
        moves' = [moves EXCEPT ![m] = [moves[m] EXCEPT !.state = how, !.attention = flagged]]
  <2>1. \A how \in {"expired", "failed"} :
          [moves[m] EXCEPT !.state = how]
            = [moves[m] EXCEPT !.state = how, !.attention = moves[m].attention]
    BY <1>2 DEF Move
  <2>2. moves[m].attention \in BOOLEAN
    BY <1>2 DEF Move
  <2> QED BY <2>1, <2>2 DEF MoveDropped, MoveBecomes
<1> DEFINE r == [moves[m] EXCEPT !.state = how, !.attention = flagged]
<1>5. r \in Move /\ r.state \in {"expired", "failed"}
  BY <1>2 DEF Move, MoveStates, MoveFinal
<1> HIDE DEF m
<1> QED BY <1>1, <1>2, <1>3, <1>4, <1>5, OneMoveChanges DEF MoveFinal

\* The record follows its burn, the user answers, the burn ends.
LEMMA WorldLemma ==
  ASSUME PlanInv, NEW m \in 1..MaxMoves, World(m) PROVE PlanInv'
<1>1. moves[m] \in Move /\ held \in Nat /\ op \in [Pages -> Op]
  BY DEF PlanInv, TypeOK
<1>2. PICK r \in Move :
        /\ Changed(m, r) /\ held' \in Nat
        /\ moves[m].state \in MoveFinal => r.state = moves[m].state
        /\ (r.state = "none") = (moves[m].state = "none")
  <2> DEFINE s == moves[m]
  <2>1. CASE MoveFollowed(m)
    <3>1. PICK to \in {"settling", "failed", "completed"} :
            Changed(m, [s EXCEPT !.state = to]) /\ s.state \in {"sent", "settling"}
      BY <2>1 DEF MoveFollowed
    <3> DEFINE r == [s EXCEPT !.state = to]
    <3>2. r \in Move /\ r.state = to
      BY <1>1, <3>1 DEF Move, MoveStates, MoveFinal
    <3>3. Changed(m, r) /\ held' \in Nat /\ s.state \notin MoveFinal \cup {"none"}
      BY <1>1, <2>1, <3>1 DEF MoveFollowed, MoveFinal
    <3> HIDE DEF r
    <3> QED BY <3>2, <3>3
  <2>2. CASE UserAnswers(m)
    <3>1. CASE s.state \notin {"open", "adrift"}
      <4>1. [s EXCEPT !.attention = FALSE] \in Move /\ [s EXCEPT !.attention = FALSE].state = s.state
        BY <1>1 DEF Move
      <4> QED BY <1>1, <2>2, <3>1, <4>1 DEF UserAnswers
    <3>2. CASE s.state \in {"open", "adrift"}
      <4> DEFINE sent == [s EXCEPT !.attention = FALSE, !.state = "adrift"]
                 not == [s EXCEPT !.attention = FALSE, !.state = "open", !.burn = "none"]
      <4>1. sent \in Move /\ sent.state = "adrift" /\ not \in Move /\ not.state = "open"
        BY <1>1 DEF Move, MoveStates, Burns
      <4>2. (Changed(m, sent) \/ Changed(m, not)) /\ held' \in Nat
        BY <1>1, <2>2, <3>2 DEF UserAnswers
      <4> HIDE DEF sent, not
      <4> QED BY <3>2, <4>1, <4>2 DEF MoveFinal
    <3> QED BY <3>1, <3>2
  <2>3. CASE BurnEnds(m)
    <3>1. PICK b \in Burns : Changed(m, [s EXCEPT !.burn = b]) /\ held' \in Nat
      <4>1. s.amount \in Nat
        BY <1>1 DEF Move
      <4>2. held >= s.amount => held - s.amount \in Nat
        BY <1>1, <4>1
      <4> QED BY <1>1, <2>3, <4>2 DEF BurnEnds, Burns
    <3>2. [s EXCEPT !.burn = b] \in Move /\ [s EXCEPT !.burn = b].state = s.state
      BY <1>1 DEF Move
    <3> QED BY <3>1, <3>2
  <2>4. CASE MoveFlagged(m)
    <3>1. [s EXCEPT !.attention = TRUE] \in Move /\ [s EXCEPT !.attention = TRUE].state = s.state
      BY <1>1 DEF Move
    <3> QED BY <1>1, <2>4, <3>1 DEF MoveFlagged
  <2> QED BY <2>1, <2>2, <2>3, <2>4 DEF World
<1>3. moves' = [moves EXCEPT ![m] = r] /\ op' = op /\ plan' = plan
      /\ UNCHANGED <<plan, fresh, arrivals, lapsed, crashes>>
  BY <1>2 DEF Changed
<1>4. moves' \in [1..MaxMoves -> Move] /\ moves'[m] = r
      /\ \A k \in 1..MaxMoves : k # m => moves'[k] = moves[k]
  BY <1>3 DEF PlanInv, TypeOK
<1>5. TypeOK'
  BY <1>2, <1>3, <1>4 DEF PlanInv, TypeOK
<1> QED BY <1>2, <1>3, <1>4, <1>5, MovesKeep

\* Nothing that the invariant relates is changed: an arrival, the quote's end.
LEMMA OutsideLemma ==
  ASSUME PlanInv, UNCHANGED <<plan, op, moves, fresh>>,
         held' \in Nat, arrivals' \in SUBSET {"bought", "stray"},
         lapsed' \in BOOLEAN, crashes' \in 0..MaxCrashes
  PROVE  PlanInv'
<1>1. plan' = plan /\ op' = op /\ moves' = moves /\ fresh' = fresh
  OBVIOUS
<1>2. TypeOK'
  BY <1>1 DEF PlanInv, TypeOK
<1>3. LegsInOrder'
  BY <1>1 DEF PlanInv, LegsInOrder
<1> QED BY <1>1, <1>2, <1>3 DEF PlanInv

LEMMA CrashLemma ==
  ASSUME PlanInv, NEW p \in Pages, Crash(p) PROVE PlanInv'
<1>1. op' = [op EXCEPT ![p] = Idle] /\ fresh' = [fresh EXCEPT ![p] = {}]
      /\ crashes' = crashes + 1 /\ crashes < MaxCrashes
      /\ plan' = plan /\ moves' = moves /\ held' = held /\ arrivals' = arrivals /\ lapsed' = lapsed
  BY DEF Crash
<1>2. op' \in [Pages -> Op] /\ op'[p] = Idle /\ \A q \in Pages : q # p => op'[q] = op[q]
  BY <1>1, IdleLemma DEF PlanInv, TypeOK
<1>3. crashes' \in 0..MaxCrashes
  BY <1>1, BoundsAssumption DEF PlanInv, TypeOK
<1>4. TypeOK'
  BY <1>1, <1>2, <1>3 DEF PlanInv, TypeOK
<1>5. LegsInOrder'
  BY <1>1 DEF PlanInv, LegsInOrder
<1>6. \A q \in Pages : CallOK(op'[q], plan, moves)
  BY <1>2, IdleLemma DEF PlanInv
<1> QED BY <1>1, <1>4, <1>5, <1>6 DEF PlanInv

LEMMA NextLemma == PlanInv /\ [Next]_vars => PlanInv'
<1> SUFFICES ASSUME PlanInv, [Next]_vars PROVE PlanInv'
  OBVIOUS
<1>1. ASSUME NEW p \in Pages, Create(p) \/ Cancel(p) \/ StepExpires(p) \/ StepRuns(p)
      PROVE  PlanInv'
  BY <1>1, CreateLemma, DropLemma, RunLemma
<1>2. ASSUME NEW p \in Pages, Step(p) PROVE PlanInv'
  <2>1. CASE StepCompletes(p) \/ PlanWaits(p) \/ PlanFails(p) \/ SaveThrown(p)
    BY <2>1, PlanMovesLemma
  <2>2. CASE SaveDone(p) \/ SaveActive(p) \/ SaveLeg(p) \/ WriteFails(p)
    BY <2>2, SaveDoneLemma, SaveActiveLemma, SaveLegLemma, RefusedLemma
  <2>3. CASE RampBegins(p) \/ RampWaits(p) \/ RampArrived(p)
    BY <2>3, RampLemma
  <2>4. CASE MoveWaits(p) \/ MoveHeld(p) \/ MoveExpired(p) \/ CallThrows(p)
    BY <2>4, PutOffLemma
  <2>5. CASE MoveQuoted(p) \/ MoveCleared(p) \/ MoveCreated(p) \/ CallReturns(p)
    BY <2>5, ClearLemma, CreatedLemma, ReturnLemma
  <2>6. CASE SignBurn(p) \/ SignLost(p) \/ SignUnclear(p) \/ MoveDropped(p)
    BY <2>6, SignLemma, MoveDroppedLemma
  <2> QED BY <1>2, <2>1, <2>2, <2>3, <2>4, <2>5, <2>6 DEF Step
<1>3. ASSUME NEW p \in Pages, Crash(p) PROVE PlanInv'
  BY <1>3, CrashLemma
<1>4. ASSUME NEW m \in 1..MaxMoves, World(m) PROVE PlanInv'
  BY <1>4, WorldLemma
<1>5. ASSUME Deliver("bought", Bought) \/ Deliver("stray", Stray) PROVE PlanInv'
  <2>1. held \in Nat /\ arrivals \in SUBSET {"bought", "stray"}
        /\ lapsed \in BOOLEAN /\ crashes \in 0..MaxCrashes
    BY DEF PlanInv, TypeOK
  <2>2. held + Bought \in Nat /\ held + Stray \in Nat
    BY <2>1, AmountsAssumption
  <2> QED BY <1>5, <2>1, <2>2, OutsideLemma DEF Deliver
<1>6. ASSUME QuoteLapses PROVE PlanInv'
  BY <1>6, OutsideLemma DEF QuoteLapses, PlanInv, TypeOK
<1>7. ASSUME Spend PROVE PlanInv'
  <2>1. held - 1 \in Nat
    BY <1>7 DEF Spend, PlanInv, TypeOK
  <2> QED BY <1>7, <2>1, OutsideLemma DEF Spend, PlanInv, TypeOK
<1>8. ASSUME UNCHANGED vars PROVE PlanInv'
  BY <1>8, OutsideLemma DEF vars, PlanInv, TypeOK
<1> QED BY <1>1, <1>2, <1>3, <1>4, <1>5, <1>6, <1>7, <1>8 DEF Next

LEMMA PlanInvAlways == Spec => []PlanInv
<1> QED BY InitLemma, NextLemma, PTL DEF Spec

-----------------------------------------------------------------------------
(* Theorems.                                                               *)

\* Every variable of the plan runner stays within its type.
THEOREM PlanTypeCorrect == Spec => []TypeOK
<1>1. PlanInv => TypeOK
  BY DEF PlanInv
<1> QED BY <1>1, PlanInvAlways, PTL

\* Whichever tab steps the plan, no move is made for leg 2 before leg 1 is done.
THEOREM LegsInOrderAlways == Spec => []LegsInOrder
<1>1. PlanInv => LegsInOrder
  BY DEF PlanInv
<1> QED BY <1>1, PlanInvAlways, PTL

\* A plan is cancelled or expires only if no tab began anything of it: no executor
\* runs in any tab, no leg was saved as begun and no move exists.
THEOREM DroppedBeganNothingAlways == Spec => []DroppedBeganNothing
<1>1. PlanInv => DroppedBeganNothing
  <2> SUFFICES ASSUME PlanInv, plan.state \in {"CANCELLED", "EXPIRED"}
               PROVE  /\ ~hasBegun(plan)
                      /\ \A p \in Pages : op[p].pc \notin Executing
                      /\ \A m \in 1..MaxMoves : moves[m].state = "none"
    BY DEF DroppedBeganNothing
  <2>1. \A i \in Legs : plan.legs[i] = "pending"
    BY DEF PlanInv, PlanOK, Untouched
  <2>2. \A p \in Pages : op[p].pc = "idle"
    BY DEF PlanInv, CallOK, KnownFor, Untouched
  <2>3. \A m \in 1..MaxMoves : moves[m].state = "none"
    BY <2>1 DEF PlanInv, LegsInOrder, Legs
  <2> QED BY <2>1, <2>2, <2>3 DEF hasBegun, Executing
<1> QED BY <1>1, PlanInvAlways, PTL

\* A plan says of its move what the move's own record says: done only if the move
\* completed, failed only if it failed, complete only with both legs done.
THEOREM PlanAgreesWithMoveAlways == Spec => []PlanAgreesWithMove
<1>1. PlanInv => PlanAgreesWithMove
  BY DEF PlanInv, PlanOK, PlanAgreesWithMove
<1> QED BY <1>1, PlanInvAlways, PTL

\* A call that writes the plan found it running; only create, cancel, expiry and
\* the head of step write it otherwise.
LEMMA WritesLemma ==
  ASSUME PlanInv, Next, plan' # plan
  PROVE  /\ plan.state \notin PlanFinal
         /\ plan.move # 0 => plan'.move = plan.move
         /\ plan.base # Unread => plan'.base = plan.base
         /\ \A i \in Legs : plan.legs[i] = "done" => plan'.legs[i] = "done"
<1>1. plan \in PlanRecord /\ PlanOK(plan, moves)
  BY DEF PlanInv, TypeOK
<1>2. ASSUME NEW p \in Pages, NEW to \in PlanStates, NEW o, SaveMove(p, plan, to, o)
      PROVE  /\ plan.state \notin PlanFinal /\ plan'.move = plan.move
             /\ plan'.base = plan.base /\ plan'.legs = plan.legs
  <2>1. plan' = [plan EXCEPT !.state = to] /\ to \in NEXT(plan.state)
    BY <1>2 DEF SaveMove, Save, CanMove
  <2>2. plan.state \notin PlanFinal
    BY <2>1 DEF NEXT, PlanFinal
  <2> QED BY <1>1, <2>1, <2>2, StateLemma
<1>3. ASSUME NEW p \in Pages, Create(p)
      PROVE  /\ plan.state \notin PlanFinal /\ plan.move = 0 /\ plan.base = Unread
             /\ \A i \in Legs : plan.legs[i] # "done"
  <2>1. plan.state = "none"
    BY <1>3 DEF Create
  <2> QED BY <1>1, <2>1 DEF PlanOK, Untouched, PlanFinal, Legs
<1>4. ASSUME NEW p \in Pages, NEW status \in LegStatuses, NEW o,
             op[p].pc = "answered", ~op[p].stale, Save(p, WithLeg(p, status), o)
      PROVE  /\ plan.state \notin PlanFinal
             /\ plan.move # 0 => plan'.move = plan.move
             /\ plan.base # Unread => plan'.base = plan.base
             /\ \A i \in Legs : plan.legs[i] = "done" => plan'.legs[i] = "done"
  <2>1. CurrentFor(op[p], plan, moves) /\ op[p] \in Op
    BY <1>4, CallFacts
  <2>2. plan' = WithLeg(p, status)
    BY <1>4 DEF Save
  <2>3. /\ plan'.base = IF op[p].base = Unread THEN plan.base ELSE op[p].base
        /\ plan'.move = IF op[p].move = 0 THEN plan.move ELSE op[p].move
        /\ plan'.legs = [plan.legs EXCEPT ![op[p].leg] = status]
    BY <1>1, <2>2 DEF WithLeg, PlanRecord
  <2>4. \A i \in Legs : i # op[p].leg => plan'.legs[i] = plan.legs[i]
    BY <1>1, <2>3 DEF PlanRecord
  <2>5. plan.legs[op[p].leg] # "done" /\ plan.state = "RUNNING"
    BY <1>4, <2>1 DEF CurrentFor
  <2> QED BY <1>4, <2>1, <2>3, <2>4, <2>5 DEF CurrentFor, PlanFinal
<1>5. ASSUME NEW p \in Pages, Cancel(p) \/ StepExpires(p) \/ StepRuns(p)
      PROVE  \E to \in PlanStates, o \in {Idle, GoesOn(plan)} : SaveMove(p, plan, to, o)
  BY <1>5 DEF Cancel, StepExpires, StepRuns, Goes, PlanStates, PlanFinal
<1>6. ASSUME NEW p \in Pages, Step(p)
      PROVE  \/ \E to \in PlanStates : SaveMove(p, plan, to, Idle)
             \/ /\ op[p].pc = "answered" /\ ~op[p].stale
                /\ \E status \in LegStatuses, o \in {Idle, GoesOn(WithLeg(p, "done")),
                        [Idle EXCEPT !.pc = IF op[p].answer = "failed" THEN "failing" ELSE "waiting"]} :
                     Save(p, WithLeg(p, status), o)
  <2>1. CASE StepCompletes(p) \/ PlanWaits(p) \/ PlanFails(p) \/ SaveThrown(p)
    BY <2>1 DEF StepCompletes, PlanWaits, PlanFails, SaveThrown, PlanStates, PlanFinal
  <2>2. CASE SaveDone(p) \/ SaveActive(p) \/ SaveLeg(p)
    <3>1. op[p].pc = "answered" /\ ~op[p].stale
      BY <2>2 DEF SaveDone, SaveActive, SaveLeg, Answered, Reached
    <3>2. CASE SaveDone(p)
      BY <3>1, <3>2 DEF SaveDone, LegStatuses
    <3>3. CASE SaveActive(p)
      BY <3>1, <3>3 DEF SaveActive, LegStatuses
    <3>4. CASE SaveLeg(p)
      <4>1. op[p].answer \in LegStatuses
        BY <3>4 DEF SaveLeg, Answered, LegStatuses
      <4> QED BY <3>1, <3>4, <4>1 DEF SaveLeg
    <3> QED BY <2>2, <3>2, <3>3, <3>4
  <2>3. CASE ~(StepCompletes(p) \/ PlanWaits(p) \/ PlanFails(p) \/ SaveThrown(p)
               \/ SaveDone(p) \/ SaveActive(p) \/ SaveLeg(p))
    <3>1. plan' = plan
      BY <1>6, <2>3 DEF Step, RampBegins, RampWaits, RampArrived, MoveWaits, MoveQuoted, MoveHeld,
         MoveCleared, MoveExpired, MoveCreated, SignBurn, SignLost, SignUnclear, MoveDropped,
         MoveBecomes, CallReturns, CallThrows, WriteFails, Answer, Goes
    <3> QED BY <3>1
  <2> QED BY <2>1, <2>2, <2>3
<1>7. PICK p \in Pages : Create(p) \/ Cancel(p) \/ StepExpires(p) \/ StepRuns(p) \/ Step(p)
  BY DEF Next, Crash, World, MoveFollowed, MoveFlagged, UserAnswers, BurnEnds, Changed, Deliver, Spend, QuoteLapses
<1>8. CASE Create(p)
  BY <1>3, <1>8
<1>9. CASE Cancel(p) \/ StepExpires(p) \/ StepRuns(p)
  BY <1>2, <1>5, <1>9
<1>10. CASE Step(p)
  BY <1>2, <1>4, <1>6, <1>10
<1> QED BY <1>7, <1>8, <1>9, <1>10

\* A plan that is over is never written again, whatever a tab began before.
THEOREM FinalPlanStaysAlways == Spec => FinalPlanStays
<1>1. PlanInv /\ [Next]_vars => [plan.state \in PlanFinal => UNCHANGED plan]_vars
  BY WritesLemma DEF vars
<1> QED BY <1>1, PlanInvAlways, PTL DEF Spec, FinalPlanStays

\* A plan keeps to the move it follows and to the balance it watches from, and a
\* leg that is done stays done.
THEOREM FollowsOneMoveAlways == Spec => FollowsOneMove
<1>1. PlanInv /\ [Next]_vars =>
        [/\ plan.move # 0 => plan'.move = plan.move
         /\ plan.base # Unread => plan'.base = plan.base
         /\ \A i \in Legs : plan.legs[i] = "done" => plan'.legs[i] = "done"]_vars
  BY WritesLemma DEF vars
<1> QED BY <1>1, PlanInvAlways, PTL DEF Spec, FollowsOneMove

-----------------------------------------------------------------------------
(* Part 2: the copies of moves, RecordMirror.                              *)

-----------------------------------------------------------------------------
(* Versions as sequences.                                                  *)

\* t begins with s.
Began(s, t) == Len(s) <= Len(t) /\ \A i \in 1..Len(s) : s[i] = t[i]

LEMMA BoundsLemma ==
  /\ MaxVersion \in Nat /\ MAX_TOKENS \in Nat /\ MaxTurns \in Nat /\ MaxRestores \in Nat
         /\ MaxVersion >= 1 /\ MAX_TOKENS >= 1
         /\ \A p \in Tabs : browser[p] \in Browsers
         /\ Nobody \notin Tabs /\ Nobody \notin Records
BY TabsAssumption, NumbersAssumption, NamesAssumption

LEMMA LineageLemma ==
  Lineage = {s \in Seq(Browsers) : Len(s) <= MaxVersion}
BY NumbersAssumption DEF Lineage, SeqOf

LEMMA KeptLemma ==
  SeqOf(Records, MAX_TOKENS) = {s \in Seq(Records) : Len(s) <= MAX_TOKENS}
BY NumbersAssumption DEF SeqOf

LEMMA EmptyLemma ==
  <<>> \in Lineage /\ <<>> \in SeqOf(Records, MAX_TOKENS)
<1>1. <<>> \in Seq(Browsers) /\ <<>> \in Seq(Records) /\ Len(<<>>) <= MaxVersion /\ Len(<<>>) <= MAX_TOKENS
  BY BoundsLemma
<1> QED BY <1>1, LineageLemma, KeptLemma, Zenon

LEMMA PrefixLemma ==
  ASSUME NEW s \in Seq(Browsers), NEW t \in Seq(Browsers)
  PROVE  IsPrefix(s, t) <=> Began(s, t)
BY DEF IsPrefix, Began

LEMMA AppendLemma ==
  ASSUME NEW s \in Seq(Browsers), NEW b \in Browsers
  PROVE  /\ Append(s, b) \in Seq(Browsers) /\ Append(s, b) # <<>> /\ Len(Append(s, b)) = Len(s) + 1 /\ Len(s) \in Nat
         /\ Began(s, Append(s, b)) /\ (s # <<>> => Append(s, b)[1] = s[1])
<1>1. Append(s, b) \in Seq(Browsers) /\ Append(s, b) # <<>> /\ Len(Append(s, b)) = Len(s) + 1 /\ Len(s) \in Nat
  OBVIOUS
<1>2. \A i \in 1..Len(s) : s[i] = Append(s, b)[i]
  OBVIOUS
<1>3. s # <<>> => Append(s, b)[1] = s[1]
  OBVIOUS
<1>4. Began(s, Append(s, b))
  BY <1>1, <1>2 DEF Began
<1> QED BY <1>1, <1>3, <1>4

\* Two beginnings of one sequence.
LEMMA BeganBoth ==
  ASSUME NEW s \in Seq(Browsers), NEW t \in Seq(Browsers), NEW u \in Seq(Browsers),
         Began(s, u), Began(t, u), Len(s) <= Len(t)
  PROVE  Began(s, t)
BY DEF Began

LEMMA BeganTrans ==
  ASSUME NEW s \in Seq(Browsers), NEW t \in Seq(Browsers), NEW u \in Seq(Browsers),
         Began(s, t), Began(t, u)
  PROVE  Began(s, u)
BY DEF Began

LEMMA BeganAll ==
  ASSUME NEW s \in Seq(Browsers), NEW t \in Seq(Browsers), Began(s, t), Len(s) = Len(t)
  PROVE  s = t
BY DEF Began

-----------------------------------------------------------------------------
(* Types.                                                                  *)

LEMMA UploadType ==
  ASSUME NEW body \in Seq(Browsers), body # <<>>, Len(body) <= MaxVersion
  PROVE  [body |-> body, expected |-> Expected(body)] \in Upload
<1>1. body \in Lineage \ {<<>>}
  BY LineageLemma
<1>2. Expected(body) \in 0..(MaxVersion - 1)
  BY BoundsLemma DEF Expected
<1> QED BY <1>1, <1>2 DEF Upload

\* A save keeps the types, and changes one record of one browser.
LEMMA SavedType ==
  ASSUME MirrorTypeOK, NEW p \in Tabs, NEW r \in Records, NEW body \in Seq(Browsers),
         body # <<>>, Len(body) <= MaxVersion, Saved(p, r, body)
  PROVE  /\ local' \in [Browsers -> [Records -> Lineage]]
         /\ queue' \in [Tabs -> [Records -> Seq(Upload)]]
<1>1. browser[p] \in Browsers
  BY BoundsLemma
<1>2. body \in Lineage
  BY LineageLemma
<1>3. local' \in [Browsers -> [Records -> Lineage]]
  BY <1>1, <1>2 DEF Saved, MirrorTypeOK
<1>4. queue' \in [Tabs -> [Records -> Seq(Upload)]]
  <2> DEFINE u == [body |-> body, expected |-> Expected(body)]
  <2>1. u \in Upload
    BY UploadType
  <2> HIDE DEF u
  <2>2. Append(queue[p][r], u) \in Seq(Upload)
    BY <2>1 DEF MirrorTypeOK
  <2>3. queue' = queue \/ queue' = [queue EXCEPT ![p][r] = Append(queue[p][r], u)]
    BY DEF Saved, Mirrored, Queued, u
  <2>4. queue \in [Tabs -> [Records -> Seq(Upload)]]
    BY DEF MirrorTypeOK
  <2>5. CASE queue' = [queue EXCEPT ![p][r] = Append(queue[p][r], u)]
    BY <2>2, <2>4, <2>5
  <2> QED BY <2>3, <2>4, <2>5
<1> QED BY <1>3, <1>4

LEMMA MirrorTypeInit ==
  ASSUME MirrorInit
  PROVE  MirrorTypeOK
<1>1. <<>> \in Lineage
  BY EmptyLemma
<1>2. <<>> \in SeqOf(Records, MAX_TOKENS)
  BY EmptyLemma
<1>3. 0 \in 0..MaxTurns /\ 0 \in 0..MaxRestores
  BY BoundsLemma
<1>4. NoPull \in Pull
  BY DEF Pull
<1> QED BY <1>1, <1>2, <1>3, <1>4 DEF MirrorInit, MirrorTypeOK

\* Which variables the actions leave as they are.
LEMMA QuietLemma ==
  ASSUME NEW p \in Tabs, NEW r \in Records
  PROVE  /\ create(p, r) => UNCHANGED <<kept, tokens, turn, puts, copy, pull>>
         /\ update(p, r) => UNCHANGED <<kept, tokens, turn, puts, copy, pull>>
         /\ Send(p, r) => UNCHANGED <<local, kept, tokens, queue, copy, pull, smooth>>
         /\ GiveUp(p, r) => UNCHANGED <<local, kept, tokens, queue, copy, pull>>
         /\ HearAnswer(p, r) => UNCHANGED <<local, puts, copy, pull, smooth>>
         /\ BodyLost(p, r) => UNCHANGED <<local, kept, tokens, queue, puts, copy, pull>>
         /\ AskCopy(p, r) => UNCHANGED <<local, kept, tokens, queue, turn, puts, copy, smooth>>
<1>1. /\ create(p, r) => UNCHANGED <<kept, tokens, turn, puts, copy, pull>>
      /\ update(p, r) => UNCHANGED <<kept, tokens, turn, puts, copy, pull>>
  BY DEF create, update, Saved
<1>2. Send(p, r) => UNCHANGED <<local, kept, tokens, queue, copy, pull, smooth>>
  BY DEF Send
<1>3. GiveUp(p, r) => UNCHANGED <<local, kept, tokens, queue, copy, pull>>
  BY DEF GiveUp
<1>4. HearAnswer(p, r) => UNCHANGED <<local, puts, copy, pull, smooth>>
  BY DEF HearAnswer
<1>5. BodyLost(p, r) => UNCHANGED <<local, kept, tokens, queue, puts, copy, pull>>
  BY DEF BodyLost
<1>6. AskCopy(p, r) => UNCHANGED <<local, kept, tokens, queue, turn, puts, copy, smooth>>
  BY DEF AskCopy
<1> QED BY <1>1, <1>2, <1>3, <1>4, <1>5, <1>6

LEMMA QuietPage ==
  ASSUME NEW p \in Tabs
  PROVE  /\ ServeCopy(p) => UNCHANGED <<local, kept, tokens, queue, turn, puts, copy, smooth>>
         /\ restore(p) => UNCHANGED <<kept, tokens, queue, turn, puts, copy, smooth>>
         /\ Reload(p) => UNCHANGED <<local, kept, copy>>
BY DEF ServeCopy, restore, Reload

\* The same of the two that are about neither a page nor a record of it.
LEMMA QuietOthers ==
  /\ \A m : Serve(m) => UNCHANGED <<local, kept, tokens, queue, pull, smooth>>
  /\ \A b : setCopy(b) => UNCHANGED <<local, kept, tokens, queue, turn, puts, copy, pull, smooth>>
  /\ UNCHANGED mirrorVars => UNCHANGED <<local, kept, tokens, queue, turn, puts, copy, pull, smooth>>
BY DEF Serve, setCopy, mirrorVars

LEMMA AdriftLemma ==
  ASSUME NEW m \in Put
  PROVE  /\ Adrift(m) \in Put
         /\ Adrift(m).page = Nobody /\ Adrift(m).record = m.record
         /\ Adrift(m).upload = m.upload /\ Adrift(m).token = m.token
BY DEF Adrift, Put

\* What is known of a request whose page still waits for it: it carries the first of the
\* uploads that wait, and is the only one of its record.
InFlight ==
  /\ \A p \in Tabs, r \in Records : turn[p][r] # "idle" => queue[p][r] # <<>>
  /\ \A m \in puts : m.page # Nobody =>
       turn[m.page][m.record] = "out" /\ m.upload = Head(queue[m.page][m.record])
  /\ \A m, n \in puts : m.page # Nobody /\ m.page = n.page /\ m.record = n.record => m = n

LEMMA MirrorTypeStep ==
  ASSUME MirrorTypeOK, InFlight, [MirrorNext]_mirrorVars
  PROVE  MirrorTypeOK'
<1> USE DEF MirrorTypeOK
<1>1. ASSUME NEW p \in Tabs, NEW r \in Records, create(p, r)
      PROVE  MirrorTypeOK'
  <2>1. browser[p] \in Browsers
    BY BoundsLemma
  <2>2. <<browser[p]>> \in Seq(Browsers) /\ <<browser[p]>> # <<>> /\ Len(<<browser[p]>>) <= MaxVersion
    BY <2>1, BoundsLemma
  <2>3. Saved(p, r, <<browser[p]>>)
    BY <1>1 DEF create
  <2>4. smooth' \in [Records -> Tabs \cup {Nobody}]
    BY <1>1 DEF create
  <2> QED BY <2>2, <2>3, <2>4, SavedType DEF Saved
<1>2. ASSUME NEW p \in Tabs, NEW r \in Records, update(p, r)
      PROVE  MirrorTypeOK'
  <2> DEFINE L == local[browser[p]][r]
  <2>1. browser[p] \in Browsers
    BY BoundsLemma
  <2>2. L \in Seq(Browsers) /\ Len(L) < MaxVersion
    BY <2>1, <1>2, LineageLemma DEF update
  <2>3. Append(L, browser[p]) \in Seq(Browsers) /\ Append(L, browser[p]) # <<>> /\ Len(Append(L, browser[p])) <= MaxVersion
    <3>1. MaxVersion \in Nat
      BY BoundsLemma
    <3> HIDE DEF L
    <3>2. /\ Append(L, browser[p]) \in Seq(Browsers) /\ Append(L, browser[p]) # <<>>
          /\ Len(Append(L, browser[p])) = Len(L) + 1 /\ Len(L) \in Nat
      BY <2>1, <2>2, AppendLemma, Zenon
    <3> QED BY <2>2, <3>1, <3>2
  <2>4. Saved(p, r, Append(L, browser[p]))
    BY <1>2 DEF update
  <2>5. smooth' \in [Records -> Tabs \cup {Nobody}]
    BY <1>2 DEF update
  <2> HIDE DEF L
  <2> QED BY <2>3, <2>4, <2>5, SavedType DEF Saved
<1>3. ASSUME NEW p \in Tabs, NEW r \in Records, Send(p, r)
      PROVE  MirrorTypeOK'
  <2> DEFINE u == Head(queue[p][r])
  <2>1. u \in Upload
    BY <1>3 DEF Send
  <2> DEFINE t == u.expected > 0 /\ Contains(tokens[p], r)
  <2>2. puts' = puts \cup {[page |-> p, record |-> r, upload |-> u, token |-> t]} /\ t \in BOOLEAN
    BY <1>3 DEF Send
  <2> HIDE DEF u, t
  <2>3. puts' \subseteq Put
    BY <2>1, <2>2 DEF Put
  <2> QED BY <1>3, <2>3 DEF Send
<1>4. ASSUME NEW p \in Tabs, NEW r \in Records, GiveUp(p, r)
      PROVE  MirrorTypeOK'
  <2>1. puts' \subseteq Put
    BY <1>4, AdriftLemma DEF GiveUp
  <2> QED BY <1>4, <2>1 DEF GiveUp, Results
<1>5. ASSUME NEW p \in Tabs, NEW r \in Records, HearAnswer(p, r)
      PROVE  MirrorTypeOK'
  <2>1. After(queue[p][r], turn[p][r]) \in Seq(Upload)
    <3>1. queue[p][r] \in Seq(Upload) /\ queue[p][r] # <<>>
      BY <1>5 DEF HearAnswer, Results, InFlight
    <3> QED BY <3>1 DEF After
  <2>2. queue' \in [Tabs -> [Records -> Seq(Upload)]] /\ turn' \in [Tabs -> [Records -> {"idle", "out"} \cup Results]]
    BY <1>5, <2>1 DEF HearAnswer
  <2>3. tokens' \in [Tabs -> Seq(Records)] /\ kept' \in [Browsers -> SeqOf(Records, MAX_TOKENS)]
    <3>1. CASE UNCHANGED <<tokens, kept>>
      BY <3>1
    <3>2. CASE remember(p, r)
      <4> DEFINE known == IF Contains(tokens[p], r) THEN tokens[p] ELSE Append(tokens[p], r)
                 cut == IF Len(known) <= MAX_TOKENS THEN known ELSE SubSeq(known, Len(known) - MAX_TOKENS + 1, Len(known))
      <4>1. known \in Seq(Records)
        OBVIOUS
      <4>2. tokens' = [tokens EXCEPT ![p] = known] /\ kept' \in {kept, [kept EXCEPT ![browser[p]] = cut]}
        BY <3>2 DEF remember
      <4> HIDE DEF known
      <4>3. cut \in Seq(Records) /\ Len(cut) <= MAX_TOKENS
        <5>1. MAX_TOKENS \in Nat /\ MAX_TOKENS >= 1
          BY BoundsLemma
        <5> QED BY <4>1, <5>1
      <4>4. cut \in SeqOf(Records, MAX_TOKENS)
        BY <4>3, KeptLemma
      <4> HIDE DEF cut
      <4>5. tokens' \in [Tabs -> Seq(Records)]
        BY <4>1, <4>2 DEF MirrorTypeOK
      <4>6. CASE kept' = kept
        BY <4>5, <4>6 DEF MirrorTypeOK
      <4>7. CASE kept' = [kept EXCEPT ![browser[p]] = cut]
        BY <4>4, <4>5, <4>7 DEF MirrorTypeOK
      <4> QED BY <4>2, <4>6, <4>7
    <3> QED BY <1>5, <3>1, <3>2 DEF HearAnswer
  <2> QED BY <1>5, <2>2, <2>3 DEF HearAnswer
<1>6. ASSUME NEW p \in Tabs, NEW r \in Records, BodyLost(p, r)
      PROVE  MirrorTypeOK'
  BY <1>6 DEF BodyLost, Results
<1>7. ASSUME NEW p \in Tabs, NEW r \in Records, AskCopy(p, r)
      PROVE  MirrorTypeOK'
  <2>1. local[browser[p]][r] \in Seq(Browsers) /\ Len(local[browser[p]][r]) <= MaxVersion
    BY LineageLemma, BoundsLemma
  <2>2. [record |-> r, seen |-> Len(local[browser[p]][r]), remote |-> Unserved] \in Pull
    BY <2>1, BoundsLemma DEF Pull
  <2>3. pull' \in [Tabs -> Pull]
    BY <1>7, <2>2 DEF AskCopy
  <2>4. restores' \in 0..MaxRestores
    BY <1>7, BoundsLemma DEF AskCopy
  <2> QED BY <1>7, <2>3, <2>4 DEF AskCopy
<1>8. ASSUME NEW m \in puts, Serve(m)
      PROVE  MirrorTypeOK'
  <2>1. m.record \in Records /\ m.upload.body \in Lineage /\ (m.page # Nobody => m.page \in Tabs)
    BY DEF Put, Upload
  <2>2. Applied(m) \in Results
    BY DEF Applied, Results
  <2>3. copy' \in [Records -> Lineage]
    BY <1>8, <2>1 DEF Serve
  <2>4. turn' \in [Tabs -> [Records -> {"idle", "out"} \cup Results]]
    BY <1>8, <2>1, <2>2 DEF Serve
  <2> QED BY <1>8, <2>3, <2>4 DEF Serve
<1>9. ASSUME NEW p \in Tabs, ServeCopy(p)
      PROVE  MirrorTypeOK'
  <2>1. pull[p].record \in Records /\ pull[p].seen \in 0..MaxVersion
    BY <1>9 DEF ServeCopy, Pull
  <2>2. PICK answer \in {copy[pull[p].record], <<>>} : pull' = [pull EXCEPT ![p].remote = answer]
    BY <1>9 DEF ServeCopy
  <2>3. answer \in Lineage
    BY <2>1, EmptyLemma, Zenon
  <2>4. [pull[p] EXCEPT !.remote = answer] \in Pull
    BY <1>9, <2>1, <2>3 DEF ServeCopy, Pull
  <2>5. pull' \in [Tabs -> Pull]
    BY <2>2, <2>4
  <2> QED BY <1>9, <2>5 DEF ServeCopy
<1>10. ASSUME NEW p \in Tabs, restore(p)
      PROVE  MirrorTypeOK'
  <2>1. pull[p].record \in Records /\ pull[p].remote \in Lineage
    BY <1>10 DEF restore, Pull
  <2>2. browser[p] \in Browsers
    BY BoundsLemma
  <2>3. local' \in [Browsers -> [Records -> Lineage]]
    BY <1>10, <2>1, <2>2 DEF restore
  <2>4. pull' \in [Tabs -> Pull]
    BY <1>10 DEF restore, Pull
  <2> QED BY <1>10, <2>3, <2>4 DEF restore
<1>11. ASSUME NEW p \in Tabs, Reload(p)
      PROVE  MirrorTypeOK'
  <2>1. kept[browser[p]] \in Seq(Records)
    BY KeptLemma, BoundsLemma
  <2>2. tokens' \in [Tabs -> Seq(Records)]
    BY <1>11, <2>1 DEF Reload
  <2>3. queue' \in [Tabs -> [Records -> Seq(Upload)]] /\ turn' \in [Tabs -> [Records -> {"idle", "out"} \cup Results]]
    BY <1>11 DEF Reload
  <2>4. puts' \subseteq Put
    BY <1>11, AdriftLemma DEF Reload
  <2>5. turns' \in 0..MaxTurns
    BY <1>11, BoundsLemma DEF Reload
  <2>6. pull' \in [Tabs -> Pull]
    BY <1>11 DEF Reload, Pull
  <2>7. smooth' \in [Records -> Tabs \cup {Nobody}]
    BY <1>11 DEF Reload
  <2> QED BY <1>11, <2>2, <2>3, <2>4, <2>5, <2>6, <2>7 DEF Reload
<1>12. ASSUME NEW b \in Browsers, setCopy(b)
      PROVE  MirrorTypeOK'
  <2>1. turns' \in 0..MaxTurns
    BY <1>12, BoundsLemma DEF setCopy
  <2> QED BY <1>12, <2>1 DEF setCopy
<1>13. CASE UNCHANGED mirrorVars
  BY <1>13 DEF mirrorVars
<1> QED BY <1>1, <1>2, <1>3, <1>4, <1>5, <1>6, <1>7, <1>8, <1>9, <1>10, <1>11, <1>12, <1>13 DEF MirrorNext

LEMMA InFlightStep ==
  ASSUME MirrorTypeOK, InFlight, [MirrorNext]_mirrorVars
  PROVE  InFlight'
<1> USE DEF InFlight
<1>0. /\ queue \in [Tabs -> [Records -> Seq(Upload)]]
      /\ turn \in [Tabs -> [Records -> {"idle", "out"} \cup Results]]
      /\ \A m \in puts : m \in Put /\ m.record \in Records /\ (m.page # Nobody => m.page \in Tabs)
  BY DEF MirrorTypeOK, Put
<1>1. ASSUME NEW p \in Tabs, NEW r \in Records, NEW body, Saved(p, r, body)
      PROVE  InFlight'
  <2>1. ASSUME NEW o \in Tabs, NEW s \in Records, queue[o][s] # <<>>
        PROVE  queue'[o][s] # <<>> /\ Head(queue'[o][s]) = Head(queue[o][s])
    <3> DEFINE u == [body |-> body, expected |-> Expected(body)]
    <3>1. queue' = queue \/ queue' = [queue EXCEPT ![p][r] = Append(queue[p][r], u)]
      BY <1>1 DEF Saved, Mirrored, Queued
    <3> HIDE DEF u
    <3>2. queue'[o][s] = queue[o][s] \/ queue'[o][s] = Append(queue[o][s], u)
      <4>1. CASE queue' = [queue EXCEPT ![p][r] = Append(queue[p][r], u)] /\ o = p
        BY <1>0, <4>1
      <4>2. CASE queue' = [queue EXCEPT ![p][r] = Append(queue[p][r], u)] /\ o # p
        BY <1>0, <4>2
      <4> QED BY <3>1, <4>1, <4>2
    <3>3. queue[o][s] \in Seq(Upload)
      BY <1>0
    <3> QED BY <2>1, <3>2, <3>3
  <2> QED BY <1>0, <1>1, <2>1 DEF Saved
<1>2. ASSUME NEW p \in Tabs, NEW r \in Records, Send(p, r)
      PROVE  InFlight'
  <2>1. PICK n \in Put : puts' = puts \cup {n} /\ n.page = p /\ n.record = r /\ n.upload = Head(queue[p][r])
    <3> DEFINE u == Head(queue[p][r])  t == u.expected > 0 /\ Contains(tokens[p], r)
               x == [page |-> p, record |-> r, upload |-> u, token |-> t]
    <3>1. u \in Upload /\ t \in BOOLEAN
      BY <1>0, <1>2 DEF Send
    <3>2. puts' = puts \cup {x}
      BY <1>2 DEF Send
    <3> HIDE DEF u, t
    <3>3. x \in Put
      BY <3>1 DEF Put
    <3> QED BY <3>2, <3>3 DEF u
  <2>2. \A m \in puts : ~(m.page = p /\ m.record = r)
    BY <1>0, <1>2, BoundsLemma DEF Send
  <2> QED BY <1>0, <1>2, <2>1, <2>2 DEF Send
<1>3. ASSUME NEW p \in Tabs, NEW r \in Records, GiveUp(p, r)
      PROVE  InFlight'
  <2>1. \A n \in puts' : \E m \in puts : n = IF m.page = p /\ m.record = r THEN Adrift(m) ELSE m
    BY <1>3 DEF GiveUp
  <2>2. ASSUME NEW n \in puts', n.page # Nobody
        PROVE  n \in puts /\ ~(n.page = p /\ n.record = r)
    <3>1. PICK m \in puts : n = IF m.page = p /\ m.record = r THEN Adrift(m) ELSE m
      BY <2>1
    <3>2. Adrift(m).page = Nobody
      BY <1>0, AdriftLemma
    <3> QED BY <2>2, <3>1, <3>2
  <2> QED BY <1>0, <1>3, <2>2 DEF GiveUp
<1>4. ASSUME NEW p \in Tabs, NEW r \in Records, HearAnswer(p, r)
      PROVE  InFlight'
  <2>1. \A m \in puts : ~(m.page = p /\ m.record = r)
    BY <1>4, BoundsLemma DEF HearAnswer, Results
  <2> QED BY <1>0, <1>4, <2>1 DEF HearAnswer
<1>5. ASSUME NEW p \in Tabs, NEW r \in Records, BodyLost(p, r)
      PROVE  InFlight'
  <2>1. \A m \in puts : ~(m.page = p /\ m.record = r)
    BY <1>5, BoundsLemma DEF BodyLost
  <2> QED BY <1>0, <1>5, <2>1 DEF BodyLost
<1>6. ASSUME NEW m \in puts, Serve(m)
      PROVE  InFlight'
  <2>1. \A n \in puts' : n \in puts /\ n # m /\ (n.page # Nobody => ~(n.page = m.page /\ n.record = m.record))
    BY <1>6 DEF Serve
  <2>2. CASE m.page = Nobody
    BY <1>0, <1>6, <2>1, <2>2 DEF Serve
  <2>3. CASE m.page # Nobody
    <3>1. queue[m.page][m.record] # <<>>
      BY <1>0, <2>3
    <3> QED BY <1>0, <1>6, <2>1, <2>3, <3>1 DEF Serve
  <2> QED BY <2>2, <2>3
<1>7. ASSUME NEW p \in Tabs, Reload(p)
      PROVE  InFlight'
  <2>1. \A n \in puts' : \E m \in puts : n = IF m.page = p THEN Adrift(m) ELSE m
    BY <1>7 DEF Reload
  <2>2. \A n \in puts' : n.page # Nobody => n \in puts /\ n.page # p
    BY <1>0, <2>1, AdriftLemma
  <2> QED BY <1>0, <1>7, <2>2 DEF Reload
<1>8. CASE UNCHANGED <<queue, turn, puts>>
  BY <1>8
<1>9. CASE UNCHANGED mirrorVars
  BY <1>9 DEF mirrorVars
<1> QED BY <1>1, <1>2, <1>3, <1>4, <1>5, <1>6, <1>7, <1>8, <1>9 DEF MirrorNext, create, update,
       AskCopy, ServeCopy, restore, setCopy

MirrorTypes == MirrorTypeOK /\ InFlight

LEMMA MirrorTypesAlways ==
  MirrorSpec => []MirrorTypes
<1>1. MirrorInit => MirrorTypes
  BY MirrorTypeInit DEF MirrorInit, MirrorTypes, InFlight
<1>2. MirrorTypes /\ [MirrorNext]_mirrorVars => MirrorTypes'
  BY MirrorTypeStep, InFlightStep DEF MirrorTypes
<1> QED BY <1>1, <1>2, PTL DEF MirrorSpec

\* Every variable of the mirror stays within its type: the uploads that wait are versions
\* with the number before them, the tokens kept are never more than MAX_TOKENS.
THEOREM MirrorTypeCorrect ==
  MirrorSpec => []MirrorTypeOK
<1>1. MirrorTypes => MirrorTypeOK
  BY DEF MirrorTypes
<1> QED BY <1>1, MirrorTypesAlways, PTL

-----------------------------------------------------------------------------
(* Versions: whoever has a record has what its maker once held, or has      *)
(* written on from there; what the server takes is the maker's.            *)

\* In the storages l: c made r; s is a version of r that its maker has held.
Maker(l, r, c) == l[c][r] # <<>> /\ l[c][r][1] = c

Version(l, r, s) == s # <<>> /\ Began(s, l[s[1]][r])

\* What is true of an upload of r wherever it is, and of one that waits on page p.
Right(l, r, u) == u.expected = Len(u.body) - 1 /\ Maker(l, r, u.body[1])

Waits(l, p, r, u) ==
  /\ Right(l, r, u)
  /\ u.expected = 0 => u.body[1] = browser[p]
  /\ u.body[1] = browser[p] => Version(l, r, u.body)

\* All that have a record of r have it from the same maker.
OneMaker(l) ==
  \A b \in Browsers, r \in Records : l[b][r] # <<>> =>
    /\ Maker(l, r, l[b][r][1])
    /\ \A c \in Browsers : l[c][r] # <<>> => l[c][r][1] = l[b][r][1]

CopyOK == \A r \in Records : copy[r] # <<>> => Version(local, r, copy[r])

PullOK ==
  \A p \in Tabs :
    pull[p].record # Nobody /\ pull[p].remote # Unserved /\ pull[p].remote # <<>> =>
      Version(local, pull[p].record, pull[p].remote)

TokenOK ==
  /\ \A p \in Tabs, r \in Records : Contains(tokens[p], r) => Maker(local, r, browser[p])
  /\ \A b \in Browsers, r \in Records : Contains(kept[b], r) => Maker(local, r, b)

QueueOK ==
  \A p \in Tabs, r \in Records :
    /\ \A i \in 1..Len(queue[p][r]) : Waits(local, p, r, queue[p][r][i])
    /\ turn[p][r] = "created" => queue[p][r][1].expected = 0

PutOK ==
  \A m \in puts :
    /\ Right(local, m.record, m.upload)
    /\ m.token \/ m.upload.expected = 0 => Version(local, m.record, m.upload.body)

VersionInv == MirrorTypes /\ OneMaker(local) /\ CopyOK /\ PullOK /\ TokenOK /\ QueueOK /\ PutOK

\* A record its maker holds only grows, from l to k.
Grown(l, k) ==
  \A c \in Browsers, r \in Records : Maker(l, r, c) => Maker(k, r, c) /\ Began(l[c][r], k[c][r])

Storages == [Browsers -> [Records -> Seq(Browsers)]]

LEMMA StoragesLemma ==
  ASSUME MirrorTypeOK
  PROVE  local \in Storages
<1>1. \A s \in Lineage : s \in Seq(Browsers)
  BY LineageLemma
<1> QED BY <1>1 DEF MirrorTypeOK, Storages

LEMMA StoragesNext ==
  ASSUME MirrorTypeOK'
  PROVE  local' \in Storages
<1>1. \A s \in Lineage : s \in Seq(Browsers)
  BY LineageLemma
<1> QED BY <1>1 DEF MirrorTypeOK, Storages

LEMMA FirstLemma ==
  ASSUME NEW s \in Seq(Browsers), s # <<>>
  PROVE  s[1] \in Browsers /\ Len(s) >= 1 /\ Len(s) \in Nat
OBVIOUS

LEMMA BeganFirst ==
  ASSUME NEW s \in Seq(Browsers), NEW t \in Seq(Browsers), s # <<>>, Began(s, t)
  PROVE  t # <<>> /\ t[1] = s[1]
BY DEF Began

LEMMA VersionMaker ==
  ASSUME NEW l \in Storages, NEW r \in Records, NEW s \in Seq(Browsers), Version(l, r, s)
  PROVE  s[1] \in Browsers /\ Maker(l, r, s[1])
<1>1. s[1] \in Browsers
  BY FirstLemma DEF Version
<1>2. l[s[1]][r] \in Seq(Browsers)
  BY <1>1 DEF Storages
<1> QED BY <1>1, <1>2, BeganFirst DEF Version, Maker

LEMMA VersionStays ==
  ASSUME NEW l \in Storages, NEW k \in Storages, Grown(l, k),
         NEW r \in Records, NEW s \in Seq(Browsers), Version(l, r, s)
  PROVE  Version(k, r, s)
<1>1. s[1] \in Browsers /\ Maker(l, r, s[1])
  BY VersionMaker
<1>2. Began(l[s[1]][r], k[s[1]][r]) /\ l[s[1]][r] \in Seq(Browsers) /\ k[s[1]][r] \in Seq(Browsers)
  BY <1>1 DEF Grown, Storages
<1> QED BY <1>2, BeganTrans DEF Version

LEMMA WaitsStays ==
  ASSUME NEW l \in Storages, NEW k \in Storages, Grown(l, k), NEW p \in Tabs,
         NEW r \in Records, NEW u, u.body \in Seq(Browsers), u.body # <<>>
  PROVE  (Right(l, r, u) => Right(k, r, u)) /\ (Waits(l, p, r, u) => Waits(k, p, r, u))
<1>1. u.body[1] \in Browsers
  BY FirstLemma
<1>2. Right(l, r, u) => Right(k, r, u)
  BY <1>1 DEF Right, Grown
<1>3. Version(l, r, u.body) => Version(k, r, u.body)
  BY VersionStays
<1> QED BY <1>2, <1>3 DEF Waits

\* What a save, or a copy brought back, makes of one record of one browser.
LEMMA GrownLemma ==
  ASSUME NEW l \in Storages, NEW k \in Storages, NEW b \in Browsers, NEW r \in Records, OneMaker(l),
         \A c \in Browsers, s \in Records : ~(c = b /\ s = r) => k[c][s] = l[c][s],
         k[b][r] # <<>>,
         \/ k[b][r][1] = b /\ \A c \in Browsers : l[c][r] = <<>>
         \/ Maker(l, r, k[b][r][1]) /\ (Maker(l, r, b) => Began(l[b][r], k[b][r]))
  PROVE  Grown(l, k) /\ OneMaker(k)
<1>1. ASSUME NEW c \in Browsers, NEW s \in Records, Maker(l, s, c)
      PROVE  Maker(k, s, c) /\ Began(l[c][s], k[c][s])
  <2>1. l[c][s] \in Seq(Browsers) /\ k[c][s] \in Seq(Browsers) /\ l[c][s] # <<>>
    BY <1>1 DEF Storages, Maker
  <2>2. Began(l[c][s], k[c][s])
    <3>1. CASE c = b /\ s = r
      BY <1>1, <3>1 DEF Maker
    <3>2. CASE ~(c = b /\ s = r)
      BY <2>1, <3>2 DEF Began
    <3> QED BY <3>1, <3>2
  <2> QED BY <1>1, <2>1, <2>2, BeganFirst DEF Maker
<1>2. Grown(l, k)
  BY <1>1 DEF Grown
<1>3. k[b][r][1] \in Browsers
  BY FirstLemma DEF Storages
<1>4. Maker(k, r, k[b][r][1])
  BY <1>1, <1>3 DEF Maker
<1>5. \A c \in Browsers : k[c][r] # <<>> => k[c][r][1] = k[b][r][1]
  <2>1. CASE \A c \in Browsers : l[c][r] = <<>>
    BY <2>1
  <2>2. CASE Maker(l, r, k[b][r][1])
    BY <1>3, <2>2 DEF OneMaker, Maker
  <2> QED BY <2>1, <2>2
<1>6. ASSUME NEW c \in Browsers, NEW s \in Records, k[c][s] # <<>>
      PROVE  /\ Maker(k, s, k[c][s][1])
             /\ \A d \in Browsers : k[d][s] # <<>> => k[d][s][1] = k[c][s][1]
  <2>1. CASE s = r
    BY <1>4, <1>5, <1>6, <2>1
  <2>2. CASE s # r
    <3>1. \A d \in Browsers : k[d][s] = l[d][s]
      BY <2>2
    <3>2. l[c][s] \in Seq(Browsers) /\ l[c][s] # <<>>
      BY <1>6, <3>1 DEF Storages
    <3>3. l[c][s][1] \in Browsers
      BY <3>2, FirstLemma
    <3> QED BY <3>1, <3>2, <3>3 DEF OneMaker, Maker
  <2> QED BY <2>1, <2>2
<1> QED BY <1>2, <1>6 DEF OneMaker

LEMMA UploadLemma ==
  ASSUME NEW u \in Upload
  PROVE  u.body \in Seq(Browsers) /\ u.body # <<>> /\ u.body[1] \in Browsers /\ Len(u.body) \in Nat /\ Len(u.body) >= 1
                                  /\ u.expected \in Nat
<1>1. u.body \in Lineage /\ u.body # <<>> /\ u.expected \in 0..(MaxVersion - 1)
  BY DEF Upload
<1>2. u.body \in Seq(Browsers)
  BY <1>1, LineageLemma
<1>3. u.expected \in Nat
  BY <1>1, BoundsLemma
<1> QED BY <1>1, <1>2, <1>3, FirstLemma

\* The types of what the invariant speaks of.
LEMMA MirrorParts ==
  ASSUME MirrorTypeOK
  PROVE  /\ local \in Storages /\ \A p \in Tabs : browser[p] \in Browsers
         /\ \A b \in Browsers, r \in Records : local[b][r] \in Seq(Browsers)
         /\ \A r \in Records : copy[r] \in Seq(Browsers)
         /\ \A p \in Tabs, r \in Records : queue[p][r] \in Seq(Upload)
         /\ \A m \in puts : m.record \in Records /\ m.upload \in Upload /\ m.token \in BOOLEAN
                            /\ (m.page # Nobody => m.page \in Tabs)
         /\ \A p \in Tabs : pull[p] # NoPull => pull[p].record \in Records
         /\ \A p \in Tabs : pull[p].remote # Unserved => pull[p].remote \in Seq(Browsers)
<1>1. local \in Storages
  BY StoragesLemma
<1>2. \A r \in Records : copy[r] \in Seq(Browsers)
  BY LineageLemma DEF MirrorTypeOK
<1>3. \A p \in Tabs : pull[p] # NoPull => pull[p].record \in Records
  BY DEF MirrorTypeOK, Pull
<1>4. \A p \in Tabs : pull[p].remote # Unserved => pull[p].remote \in Seq(Browsers)
  <2>1. \A p \in Tabs : pull[p].remote # Unserved => pull[p].remote \in Lineage \/ pull[p].remote = <<>>
    BY DEF MirrorTypeOK, Pull, NoPull
  <2>2. <<>> \in Lineage
    BY EmptyLemma
  <2> QED BY <2>1, <2>2, LineageLemma
<1>5. \A m \in puts : m.record \in Records /\ m.upload \in Upload /\ m.token \in BOOLEAN
                      /\ (m.page # Nobody => m.page \in Tabs)
  BY DEF MirrorTypeOK, Put
<1> QED BY <1>1, <1>2, <1>3, <1>4, <1>5, BoundsLemma DEF Storages, MirrorTypeOK

LEMMA SavedLocal ==
  ASSUME MirrorTypeOK, NEW p \in Tabs, NEW r \in Records, NEW body, Saved(p, r, body)
  PROVE  \A c \in Browsers, s \in Records :
           local'[c][s] = IF c = browser[p] /\ s = r THEN body ELSE local[c][s]
<1>1. local \in Storages /\ browser[p] \in Browsers
  BY MirrorParts
<1>2. local' = [local EXCEPT ![browser[p]][r] = body]
  BY DEF Saved
<1> QED BY <1>1, <1>2 DEF Storages

\* Every step: a maker's record only grows, and all others have it from there.
LEMMA LocalStep ==
  ASSUME MirrorTypeOK, MirrorTypeOK', OneMaker(local), PullOK, [MirrorNext]_mirrorVars
  PROVE  Grown(local, local') /\ OneMaker(local')
<1>0. local \in Storages /\ local' \in Storages /\ \A p \in Tabs : browser[p] \in Browsers
  BY MirrorParts, StoragesNext
<1>1. ASSUME NEW p \in Tabs, NEW r \in Records, create(p, r)
      PROVE  Grown(local, local') /\ OneMaker(local')
  <2>1. Saved(p, r, <<browser[p]>>) /\ \A b \in Browsers : local[b][r] = <<>>
    BY <1>1 DEF create
  <2>2. \A c \in Browsers, s \in Records :
          local'[c][s] = IF c = browser[p] /\ s = r THEN <<browser[p]>> ELSE local[c][s]
    BY <2>1, SavedLocal
  <2>3. local'[browser[p]][r] = <<browser[p]>>
    BY <1>0, <2>2
  <2> QED BY <1>0, <2>1, <2>2, <2>3, GrownLemma
<1>2. ASSUME NEW p \in Tabs, NEW r \in Records, update(p, r)
      PROVE  Grown(local, local') /\ OneMaker(local')
  <2> DEFINE b == browser[p]
  <2>1. Saved(p, r, Append(local[b][r], b)) /\ local[b][r] # <<>>
    BY <1>2 DEF update
  <2>2. \A c \in Browsers, s \in Records :
          local'[c][s] = IF c = b /\ s = r THEN Append(local[b][r], b) ELSE local[c][s]
    BY <2>1, SavedLocal
  <2>3. local'[b][r] = Append(local[b][r], b) /\ local[b][r] \in Seq(Browsers) /\ b \in Browsers
    BY <1>0, <2>2 DEF Storages
  <2>4. local'[b][r] # <<>> /\ local'[b][r][1] = local[b][r][1] /\ Began(local[b][r], local'[b][r])
    BY <2>1, <2>3, AppendLemma, Zenon
  <2>5. Maker(local, r, local'[b][r][1])
    BY <2>1, <2>3, <2>4 DEF OneMaker
  <2> HIDE DEF b
  <2> QED BY <1>0, <2>2, <2>3, <2>4, <2>5, GrownLemma
<1>3. ASSUME NEW p \in Tabs, restore(p)
      PROVE  Grown(local, local') /\ OneMaker(local')
  <2> DEFINE b == browser[p]  r == pull[p].record  s == pull[p].remote
  <2>1. CASE local' = local
    BY <1>0, <2>1 DEF Grown, Began, Storages
  <2>2. CASE Newer(p)
    <3>1. r \in Records /\ s \in Seq(Browsers) /\ b \in Browsers /\ local[b][r] \in Seq(Browsers)
      BY <1>0, <1>3, MirrorParts DEF restore, Storages
    <3>2. Len(local[b][r]) < Len(s)
      BY <2>2 DEF Newer
    <3>3. s # <<>>
      BY <3>1, <3>2
    <3>4. Version(local, r, s)
      BY <1>3, <3>1, <3>3, BoundsLemma DEF PullOK, restore
    <3>5. s[1] \in Browsers /\ Maker(local, r, s[1])
      BY <1>0, <3>1, <3>4, VersionMaker
    <3>6. local' = [local EXCEPT ![b][r] = s]
      BY <1>3, <2>2 DEF restore
    <3>7. ~Maker(local, r, b)
      <4>1. ASSUME Maker(local, r, b)
            PROVE  FALSE
        <5>1. s[1] = b
          BY <3>1, <3>5, <4>1 DEF OneMaker, Maker
        <5>2. Began(s, local[b][r])
          BY <3>4, <5>1 DEF Version
        <5> QED BY <3>1, <3>2, <5>2 DEF Began
      <4> QED BY <4>1
    <3> HIDE DEF b, r, s
    <3>8. \A c \in Browsers, t \in Records : local'[c][t] = IF c = b /\ t = r THEN s ELSE local[c][t]
      BY <1>0, <3>1, <3>6 DEF Storages
    <3>9. local'[b][r] = s
      BY <3>1, <3>8
    <3> QED BY <1>0, <3>1, <3>3, <3>5, <3>7, <3>8, <3>9, GrownLemma
  <2> QED BY <1>3, <2>1, <2>2 DEF restore
<1>4. CASE local' = local
  BY <1>0, <1>4 DEF Grown, Began, Storages
<1> QED BY <1>1, <1>2, <1>3, <1>4, QuietLemma, QuietPage, QuietOthers DEF MirrorNext

\* What was true of versions stays true as the makers' records grow.
LEMMA CopyStep ==
  ASSUME VersionInv, MirrorTypeOK', Grown(local, local'), [MirrorNext]_mirrorVars
  PROVE  CopyOK'
<1>0. local \in Storages /\ local' \in Storages /\ MirrorTypeOK
  BY MirrorParts, StoragesNext DEF VersionInv, MirrorTypes
<1>1. \A r \in Records : copy[r] # <<>> => Version(local', r, copy[r])
  BY <1>0, MirrorParts, VersionStays DEF VersionInv, CopyOK
<1>2. ASSUME NEW m \in puts, Serve(m), Applied(m) \in {"created", "saved"}
      PROVE  Version(local', m.record, m.upload.body)
  <2>1. m.record \in Records /\ m.upload \in Upload /\ m.token \in BOOLEAN
    BY <1>0, MirrorParts
  <2>2. m.token \/ m.upload.expected = 0
    BY <1>2, <2>1 DEF Applied, canWrite
  <2>3. Version(local, m.record, m.upload.body)
    BY <2>2 DEF VersionInv, PutOK
  <2> QED BY <1>0, <2>1, <2>3, UploadLemma, VersionStays
<1>3. ASSUME NEW m \in puts, Serve(m)
      PROVE  CopyOK'
  <2>1. copy' = IF Applied(m) \in {"created", "saved"} THEN [copy EXCEPT ![m.record] = m.upload.body] ELSE copy
    BY <1>3 DEF Serve
  <2> QED BY <1>0, <1>1, <1>2, <1>3, <2>1 DEF CopyOK, MirrorTypeOK
<1>4. CASE copy' = copy
  BY <1>1, <1>4 DEF CopyOK
<1> QED BY <1>3, <1>4, QuietLemma, QuietPage, QuietOthers DEF MirrorNext

LEMMA PullStep ==
  ASSUME VersionInv, MirrorTypeOK', Grown(local, local'), [MirrorNext]_mirrorVars
  PROVE  PullOK'
<1>0. local \in Storages /\ local' \in Storages /\ MirrorTypeOK /\ pull \in [Tabs -> Pull]
  BY MirrorParts, StoragesNext DEF VersionInv, MirrorTypes, MirrorTypeOK
<1>1. \A p \in Tabs :
        pull[p].record # Nobody /\ pull[p].remote # Unserved /\ pull[p].remote # <<>> =>
          Version(local', pull[p].record, pull[p].remote)
  BY <1>0, MirrorParts, VersionStays DEF VersionInv, PullOK, NoPull
<1>2. ASSUME NEW p \in Tabs, restore(p) \/ Reload(p)
      PROVE  PullOK'
  BY <1>0, <1>1, <1>2 DEF PullOK, restore, Reload, NoPull
<1>3. ASSUME NEW p \in Tabs, ServeCopy(p)
      PROVE  PullOK'
  <2>1. PICK answer \in {copy[pull[p].record], <<>>} : pull' = [pull EXCEPT ![p].remote = answer]
    BY <1>3 DEF ServeCopy
  <2>2. pull[p].record \in Records
    BY <1>0, <1>3, MirrorParts DEF ServeCopy
  <2>3. answer # <<>> => Version(local', pull[p].record, answer)
    BY <1>0, <2>2, MirrorParts, VersionStays DEF VersionInv, CopyOK
  <2>4. pull'[p].record = pull[p].record /\ pull'[p].remote = answer
    BY <1>0, <2>1, <2>2 DEF Pull
  <2> QED BY <1>0, <1>1, <2>1, <2>3, <2>4 DEF PullOK
<1>4. CASE pull' = pull
  BY <1>1, <1>4 DEF PullOK
<1>5. ASSUME NEW p \in Tabs, NEW r \in Records, AskCopy(p, r)
      PROVE  PullOK'
  BY <1>0, <1>1, <1>5 DEF PullOK, AskCopy
<1> QED BY <1>2, <1>3, <1>4, <1>5, QuietLemma, QuietPage, QuietOthers DEF MirrorNext

LEMMA TokenStep ==
  ASSUME VersionInv, Grown(local, local'), [MirrorNext]_mirrorVars
  PROVE  TokenOK'
<1>0. /\ MirrorTypeOK /\ InFlight /\ TokenOK /\ QueueOK
      /\ tokens \in [Tabs -> Seq(Records)] /\ kept \in [Browsers -> SeqOf(Records, MAX_TOKENS)]
      /\ \A b \in Browsers : kept[b] \in Seq(Records)
      /\ \A p \in Tabs : browser[p] \in Browsers
  BY KeptLemma, BoundsLemma DEF VersionInv, MirrorTypes, MirrorTypeOK
<1>1. /\ \A p \in Tabs, r \in Records : Contains(tokens[p], r) => Maker(local', r, browser[p])
      /\ \A b \in Browsers, r \in Records : Contains(kept[b], r) => Maker(local', r, b)
  BY <1>0 DEF TokenOK, Grown
<1>2. ASSUME NEW p \in Tabs, NEW r \in Records, HearAnswer(p, r), turn[p][r] = "created"
      PROVE  Maker(local', r, browser[p])
  <2>1. queue[p][r] \in Seq(Upload) /\ queue[p][r] # <<>>
    BY <1>0, <1>2 DEF InFlight, MirrorTypeOK
  <2>2. 1 \in 1..Len(queue[p][r])
    BY <2>1
  <2>3. queue[p][r][1].expected = 0 /\ Waits(local, p, r, queue[p][r][1])
    BY <1>0, <1>2, <2>2 DEF QueueOK
  <2>4. Maker(local, r, browser[p])
    BY <2>3 DEF Waits, Right
  <2> QED BY <1>0, <2>4 DEF Grown
<1>3. ASSUME NEW p \in Tabs, NEW r \in Records, remember(p, r), Maker(local', r, browser[p])
      PROVE  TokenOK'
  <2> DEFINE known == IF Contains(tokens[p], r) THEN tokens[p] ELSE Append(tokens[p], r)
             cut == IF Len(known) <= MAX_TOKENS THEN known ELSE SubSeq(known, Len(known) - MAX_TOKENS + 1, Len(known))
  <2>1. tokens' = [tokens EXCEPT ![p] = known] /\ kept' \in {kept, [kept EXCEPT ![browser[p]] = cut]}
    BY <1>3 DEF remember
  <2>2. known \in Seq(Records) /\ \A s \in Records : Contains(known, s) => s = r \/ Contains(tokens[p], s)
    BY <1>0 DEF Contains
  <2> HIDE DEF known
  <2>3. \A s \in Records : Contains(cut, s) => Contains(known, s)
    <3>1. MAX_TOKENS \in Nat
      BY BoundsLemma
    <3> QED BY <2>2, <3>1 DEF Contains
  <2> HIDE DEF cut
  <2>4. \A s \in Records : Contains(known, s) => Maker(local', s, browser[p])
    BY <1>1, <1>3, <2>2
  <2>5. \A o \in Tabs : tokens'[o] = IF o = p THEN known ELSE tokens[o]
    BY <1>0, <2>1
  <2>6. \A b \in Browsers : kept'[b] = kept[b] \/ (b = browser[p] /\ kept'[b] = cut)
    BY <1>0, <2>1
  <2> QED BY <1>1, <2>3, <2>4, <2>5, <2>6 DEF TokenOK
<1>4. CASE UNCHANGED <<tokens, kept>>
  BY <1>1, <1>4 DEF TokenOK
<1>5. ASSUME NEW p \in Tabs, Reload(p)
      PROVE  TokenOK'
  BY <1>0, <1>1, <1>5 DEF TokenOK, Reload
<1>6. ASSUME NEW p \in Tabs, NEW r \in Records, HearAnswer(p, r)
      PROVE  TokenOK'
  BY <1>2, <1>3, <1>4, <1>6 DEF HearAnswer
<1> QED BY <1>4, <1>5, <1>6, QuietLemma, QuietPage, QuietOthers DEF MirrorNext

\* A save puts at most the version saved behind the uploads that wait.
LEMMA SavedQueue ==
  ASSUME MirrorTypeOK, NEW p \in Tabs, NEW r \in Records, NEW body, Saved(p, r, body),
         NEW o \in Tabs, NEW s \in Records
  PROVE  \/ queue'[o][s] = queue[o][s]
         \/ /\ o = p /\ s = r /\ copyOn[browser[p]]
            /\ queue'[o][s] = Append(queue[o][s], [body |-> body, expected |-> Len(body) - 1])
<1> DEFINE u == [body |-> body, expected |-> Len(body) - 1]
<1>1. queue' = IF copyOn[browser[p]] THEN [queue EXCEPT ![p][r] = Append(queue[p][r], u)] ELSE queue
  BY DEF Saved, Mirrored, Queued, Expected
<1> HIDE DEF u
<1>2. queue \in [Tabs -> [Records -> Seq(Upload)]]
  BY DEF MirrorTypeOK
<1>3. CASE o = p /\ s = r
  BY <1>1, <1>2, <1>3 DEF u
<1>4. CASE ~(o = p /\ s = r)
  <2>1. CASE o = p
    BY <1>1, <1>2, <1>4, <2>1
  <2>2. CASE o # p
    BY <1>1, <1>2, <2>2
  <2> QED BY <2>1, <2>2
<1> QED BY <1>3, <1>4

LEMMA SavedElse ==
  ASSUME MirrorTypeOK, NEW p \in Tabs, NEW r \in Records, NEW body, Saved(p, r, body),
         NEW o \in Tabs, NEW s \in Records, ~(o = p /\ s = r /\ copyOn[browser[p]])
  PROVE  queue'[o][s] = queue[o][s]
<1>1. /\ queue \in [Tabs -> [Records -> Seq(Upload)]]
      /\ queue' = IF copyOn[browser[p]]
           THEN [queue EXCEPT ![p][r] = Append(queue[p][r], [body |-> body, expected |-> Expected(body)])] ELSE queue
  BY DEF MirrorTypeOK, Saved, Mirrored, Queued
<1>2. CASE o = p
  BY <1>1, <1>2
<1>3. CASE o # p
  BY <1>1, <1>3
<1> QED BY <1>2, <1>3

LEMMA QueueStep ==
  ASSUME VersionInv, MirrorTypeOK', Grown(local, local'), OneMaker(local'), [MirrorNext]_mirrorVars
  PROVE  QueueOK'
<1>0. /\ local \in Storages /\ local' \in Storages /\ MirrorTypeOK /\ InFlight /\ QueueOK /\ \A p \in Tabs : browser[p] \in Browsers
      /\ queue \in [Tabs -> [Records -> Seq(Upload)]]
      /\ turn \in [Tabs -> [Records -> {"idle", "out"} \cup Results]]
  BY MirrorParts, StoragesNext DEF VersionInv, MirrorTypes, MirrorTypeOK
<1>1. ASSUME NEW p \in Tabs, NEW r \in Records, NEW i \in 1..Len(queue[p][r])
      PROVE  Waits(local', p, r, queue[p][r][i])
  <2>1. queue[p][r][i] \in Upload
    BY <1>0
  <2>2. Waits(local, p, r, queue[p][r][i])
    BY <1>0 DEF QueueOK
  <2> QED BY <1>0, <2>1, <2>2, UploadLemma, WaitsStays
<1>2. ASSUME NEW p \in Tabs, NEW r \in Records, NEW body \in Seq(Browsers), body # <<>>, Saved(p, r, body),
             Len(body) = 1 => body[1] = browser[p]
      PROVE  QueueOK'
  <2> DEFINE u == [body |-> body, expected |-> Len(body) - 1]
  <2>1. local'[browser[p]][r] = body
    BY <1>0, <1>2, SavedLocal
  <2>2. Began(body, body) /\ Len(body) \in Nat
    BY DEF Began
  <2>3. Maker(local', r, body[1])
    BY <1>0, <1>2, <2>1 DEF OneMaker
  <2>4. u.body = body /\ u.expected = Len(body) - 1
    OBVIOUS
  <2> HIDE DEF u
  <2>5. Waits(local', p, r, u)
    BY <1>2, <2>1, <2>2, <2>3, <2>4 DEF Waits, Right, Version
  <2>6. ASSUME NEW o \in Tabs, NEW s \in Records
        PROVE  /\ \A i \in 1..Len(queue'[o][s]) : Waits(local', o, s, queue'[o][s][i])
               /\ turn'[o][s] = "created" => queue'[o][s][1].expected = 0
    <3>1. queue[o][s] \in Seq(Upload) /\ turn' = turn /\ (turn[o][s] = "created" => queue[o][s] # <<>>)
      BY <1>0, <1>2 DEF InFlight, Saved
    <3>2. queue'[o][s] = queue[o][s] \/ (o = p /\ s = r /\ queue'[o][s] = Append(queue[o][s], u))
      BY <1>0, <1>2, SavedQueue DEF u
    <3>3. turn[o][s] = "created" => queue[o][s][1].expected = 0
      BY <1>0 DEF QueueOK
    <3>4. CASE queue'[o][s] = queue[o][s]
      BY <1>1, <3>1, <3>3, <3>4
    <3>5. CASE o = p /\ s = r /\ queue'[o][s] = Append(queue[o][s], u)
      <4>1. \A i \in 1..Len(queue'[o][s]) : Waits(local', o, s, queue'[o][s][i])
        <5>1. ASSUME NEW i \in 1..Len(queue'[o][s])
              PROVE  Waits(local', o, s, queue'[o][s][i])
          <6>1. CASE i \in 1..Len(queue[o][s])
            <7>1. queue'[o][s][i] = queue[o][s][i]
              BY <3>1, <3>5, <6>1
            <7> QED BY <1>1, <6>1, <7>1
          <6>2. CASE i \notin 1..Len(queue[o][s])
            <7>1. queue'[o][s][i] = u
              BY <3>1, <3>5, <6>2
            <7> QED BY <2>5, <3>5, <7>1
          <6> QED BY <6>1, <6>2
        <5> QED BY <5>1
      <4>2. queue[o][s] # <<>> => queue'[o][s][1] = queue[o][s][1]
        BY <3>1, <3>5
      <4> QED BY <3>1, <3>3, <4>1, <4>2
    <3> QED BY <3>2, <3>4, <3>5
  <2> QED BY <2>6 DEF QueueOK
<1>3. ASSUME NEW p \in Tabs, NEW r \in Records, create(p, r)
      PROVE  QueueOK'
  <2>1. <<browser[p]>> \in Seq(Browsers) /\ <<browser[p]>> # <<>> /\ <<browser[p]>>[1] = browser[p]
    BY <1>0
  <2> QED BY <1>2, <1>3, <2>1 DEF create
<1>4. ASSUME NEW p \in Tabs, NEW r \in Records, update(p, r)
      PROVE  QueueOK'
  <2> DEFINE L == local[browser[p]][r]
  <2>1. L \in Seq(Browsers) /\ L # <<>> /\ browser[p] \in Browsers
    BY <1>0, <1>4 DEF Storages, update
  <2>2. Saved(p, r, Append(L, browser[p]))
    BY <1>4 DEF update
  <2> HIDE DEF L
  <2>3. Append(L, browser[p]) \in Seq(Browsers) /\ Append(L, browser[p]) # <<>> /\ Len(Append(L, browser[p])) = Len(L) + 1
    BY <2>1, AppendLemma, Zenon
  <2>4. Len(L) + 1 # 1
    BY <2>1
  <2> QED BY <1>2, <2>2, <2>3, <2>4
<1>5. ASSUME NEW p \in Tabs, NEW r \in Records, HearAnswer(p, r)
      PROVE  QueueOK'
  <2>1. queue[p][r] \in Seq(Upload) /\ queue[p][r] # <<>>
    BY <1>0, <1>5 DEF InFlight, HearAnswer, Results
  <2>2. /\ \A o \in Tabs, s \in Records : queue'[o][s] = IF o = p /\ s = r THEN Tail(queue[p][r]) ELSE queue[o][s]
        /\ \A o \in Tabs, s \in Records : turn'[o][s] = IF o = p /\ s = r THEN "idle" ELSE turn[o][s]
    BY <1>0, <1>5 DEF HearAnswer, After
  <2>3. \A i \in 1..Len(Tail(queue[p][r])) : i + 1 \in 1..Len(queue[p][r]) /\ Tail(queue[p][r])[i] = queue[p][r][i + 1]
    BY <2>1
  <2>4. \A i \in 1..Len(Tail(queue[p][r])) : Waits(local', p, r, Tail(queue[p][r])[i])
    BY <1>1, <2>3
  <2>5. ASSUME NEW o \in Tabs, NEW s \in Records
        PROVE  /\ \A i \in 1..Len(queue'[o][s]) : Waits(local', o, s, queue'[o][s][i])
               /\ turn'[o][s] = "created" => queue'[o][s][1].expected = 0
    <3>1. CASE o = p /\ s = r
      BY <2>2, <2>4, <3>1
    <3>2. CASE ~(o = p /\ s = r)
      BY <1>0, <1>1, <2>2, <3>2 DEF QueueOK
    <3> QED BY <3>1, <3>2
  <2> QED BY <2>5 DEF QueueOK
<1>6. ASSUME NEW p \in Tabs, Reload(p)
      PROVE  QueueOK'
  BY <1>0, <1>1, <1>6 DEF QueueOK, Reload
<1>7. CASE queue' = queue /\ \A p \in Tabs, r \in Records : turn'[p][r] = "created" => queue[p][r][1].expected = 0
  BY <1>1, <1>7 DEF QueueOK
<1>8. ASSUME NEW m \in puts, Serve(m)
      PROVE  queue' = queue /\ \A p \in Tabs, r \in Records : turn'[p][r] = "created" => queue[p][r][1].expected = 0
  <2>1. m.page # Nobody => m.page \in Tabs /\ m.record \in Records /\ m.upload = Head(queue[m.page][m.record])
                                  /\ queue[m.page][m.record] \in Seq(Upload) /\ queue[m.page][m.record] # <<>>
    BY <1>0, MirrorParts DEF InFlight
  <2>2. Applied(m) = "created" => m.upload.expected = 0
    BY DEF Applied
  <2> QED BY <1>0, <1>8, <2>1, <2>2 DEF Serve, QueueOK
<1>9. ASSUME NEW p \in Tabs, NEW r \in Records, Send(p, r) \/ GiveUp(p, r) \/ BodyLost(p, r)
      PROVE  queue' = queue /\ \A o \in Tabs, s \in Records : turn'[o][s] = "created" => queue[o][s][1].expected = 0
  <2>1. queue' = queue
    BY <1>9, QuietLemma
  <2>2. PICK x \in {"out", "unavailable", "saved"} : turn' = [turn EXCEPT ![p][r] = x]
    BY <1>9 DEF Send, GiveUp, BodyLost
  <2>3. \A o \in Tabs, s \in Records : turn'[o][s] = IF o = p /\ s = r THEN x ELSE turn[o][s]
    BY <1>0, <2>2
  <2>4. ASSUME NEW o \in Tabs, NEW s \in Records, turn'[o][s] = "created"
        PROVE  queue[o][s][1].expected = 0
    <3>1. x # "created"
      OBVIOUS
    <3>2. turn[o][s] = "created"
      BY <2>3, <2>4, <3>1
    <3> QED BY <1>0, <3>2 DEF QueueOK
  <2> QED BY <2>1, <2>4
<1>10. CASE UNCHANGED <<queue, turn>>
  BY <1>0, <1>7, <1>10 DEF QueueOK
<1> QED BY <1>3, <1>4, <1>5, <1>6, <1>7, <1>8, <1>9, <1>10, QuietLemma, QuietPage, QuietOthers DEF MirrorNext

LEMMA PutStep ==
  ASSUME VersionInv, MirrorTypeOK', Grown(local, local'), [MirrorNext]_mirrorVars
  PROVE  PutOK'
<1>0. /\ local \in Storages /\ local' \in Storages /\ MirrorTypeOK /\ InFlight /\ PutOK /\ QueueOK /\ TokenOK /\ OneMaker(local)
      /\ \A p \in Tabs : browser[p] \in Browsers
      /\ \A m \in puts : m \in Put /\ m.record \in Records /\ m.upload \in Upload
  BY MirrorParts, StoragesNext DEF VersionInv, MirrorTypes, MirrorTypeOK
<1>1. \A m \in puts :
        /\ Right(local', m.record, m.upload)
        /\ m.token \/ m.upload.expected = 0 => Version(local', m.record, m.upload.body)
  <2>1. ASSUME NEW m \in puts
        PROVE  Right(local', m.record, m.upload)
    <3>1. m.upload.body[1] \in Browsers
      BY <1>0, UploadLemma
    <3> QED BY <1>0, <3>1 DEF PutOK, Right, Grown
  <2>2. ASSUME NEW m \in puts, m.token \/ m.upload.expected = 0
        PROVE  Version(local', m.record, m.upload.body)
    BY <1>0, <2>2, UploadLemma, VersionStays DEF PutOK
  <2> QED BY <2>1, <2>2
<1>2. ASSUME NEW p \in Tabs, NEW r \in Records, Send(p, r)
      PROVE  PutOK'
  <2> DEFINE u == Head(queue[p][r])  t == u.expected > 0 /\ Contains(tokens[p], r)
             x == [page |-> p, record |-> r, upload |-> u, token |-> t]
  <2>1. queue[p][r] \in Seq(Upload) /\ queue[p][r] # <<>>
    BY <1>0, <1>2 DEF Send, MirrorTypeOK
  <2>2. u \in Upload /\ u = queue[p][r][1] /\ 1 \in 1..Len(queue[p][r])
    BY <2>1
  <2>3. Waits(local, p, r, u)
    BY <1>0, <2>2 DEF QueueOK
  <2>4. puts' = puts \cup {x} /\ local' = local
    BY <1>2 DEF Send
  <2>5. t => Maker(local, r, browser[p])
    BY <1>0 DEF TokenOK
  <2> HIDE DEF u, t
  <2>6. u.body[1] \in Browsers
    BY <2>2, UploadLemma
  <2>7. t \/ u.expected = 0 => u.body[1] = browser[p]
    BY <1>0, <2>3, <2>5, <2>6 DEF Waits, Right, OneMaker, Maker
  <2>8. Right(local, r, u) /\ (t \/ u.expected = 0 => Version(local, r, u.body))
    BY <2>3, <2>7 DEF Waits
  <2>9. ASSUME NEW m \in puts'
        PROVE  Right(local', m.record, m.upload) /\ (m.token \/ m.upload.expected = 0 => Version(local', m.record, m.upload.body))
    <3>1. CASE m \in puts
      BY <1>1, <3>1
    <3>2. CASE m = x
      BY <2>4, <2>8, <3>2
    <3> QED BY <2>4, <3>1, <3>2
  <2> QED BY <2>9 DEF PutOK
<1>3. ASSUME \A n \in puts' : \E m \in puts : n = m \/ n = Adrift(m)
      PROVE  PutOK'
  <2>1. ASSUME NEW n \in puts'
        PROVE  Right(local', n.record, n.upload) /\ (n.token \/ n.upload.expected = 0 => Version(local', n.record, n.upload.body))
    <3>1. PICK m \in puts : n = m \/ n = Adrift(m)
      BY <1>3
    <3>2. n.record = m.record /\ n.upload = m.upload /\ n.token = m.token
      BY <1>0, <3>1, AdriftLemma
    <3> QED BY <1>1, <3>2
  <2> QED BY <2>1 DEF PutOK
<1>4. ASSUME NEW p \in Tabs, NEW r \in Records, GiveUp(p, r)
      PROVE  \A n \in puts' : \E m \in puts : n = m \/ n = Adrift(m)
  BY <1>4 DEF GiveUp
<1>5. ASSUME NEW p \in Tabs, Reload(p)
      PROVE  \A n \in puts' : \E m \in puts : n = m \/ n = Adrift(m)
  BY <1>5 DEF Reload
<1>6. ASSUME NEW m \in puts, Serve(m)
      PROVE  \A n \in puts' : n \in puts
  BY <1>6 DEF Serve
<1>7. CASE \A n \in puts' : n \in puts
  BY <1>3, <1>7
<1> QED BY <1>2, <1>3, <1>4, <1>5, <1>6, <1>7, QuietLemma, QuietPage, QuietOthers DEF MirrorNext

LEMMA VersionInvAlways ==
  MirrorSpec => []VersionInv
<1>1. ASSUME MirrorInit
      PROVE  VersionInv
  <2>1. MirrorTypes
    BY <1>1, MirrorTypeInit DEF MirrorInit, MirrorTypes, InFlight
  <2>2. \A r \in Records : ~Contains(<<>>, r)
    BY DEF Contains
  <2>3. TokenOK
    BY <1>1, <2>2, BoundsLemma DEF MirrorInit, TokenOK
  <2> QED BY <1>1, <2>1, <2>3, BoundsLemma DEF MirrorInit, VersionInv, OneMaker, CopyOK, PullOK, NoPull, QueueOK, PutOK
<1>2. ASSUME VersionInv, [MirrorNext]_mirrorVars
      PROVE  VersionInv'
  <2>1. MirrorTypeOK' /\ InFlight'
    BY <1>2, MirrorTypeStep, InFlightStep DEF VersionInv, MirrorTypes
  <2>2. Grown(local, local') /\ OneMaker(local')
    BY <1>2, <2>1, LocalStep DEF VersionInv, MirrorTypes
  <2> QED BY <1>2, <2>1, <2>2, CopyStep, PullStep, TokenStep, QueueStep, PutStep DEF VersionInv, MirrorTypes
<1> QED BY <1>1, <1>2, PTL DEF MirrorSpec

LEMMA CopyChange ==
  ASSUME VersionInv, VersionInv', [MirrorNext]_mirrorVars, NEW r \in Records, copy'[r] # copy[r]
  PROVE  /\ Len(copy'[r]) = Len(copy[r]) + 1 /\ IsPrefix(copy[r], copy'[r])
         /\ IsPrefix(copy'[r], local'[Head(copy'[r])][r])
<1>0. /\ MirrorTypeOK /\ local \in Storages /\ OneMaker(local) /\ CopyOK /\ PutOK
      /\ copy \in [Records -> Lineage] /\ copy[r] \in Seq(Browsers)
  BY MirrorParts DEF VersionInv, MirrorTypes, MirrorTypeOK
<1>1. PICK m \in puts : Serve(m)
  BY QuietLemma, QuietPage, QuietOthers DEF MirrorNext
<1>2. m.record \in Records /\ m.upload \in Upload /\ m.token \in BOOLEAN
  BY <1>0, MirrorParts
<1> DEFINE body == m.upload.body
<1>3. /\ Applied(m) \in {"created", "saved"} /\ m.record = r /\ copy'[r] = body
      /\ local' = local
  BY <1>0, <1>1, <1>2 DEF Serve
<1>4. /\ m.upload.expected = Len(copy[r]) /\ (m.token \/ m.upload.expected = 0)
  <2>1. Len(<<>>) = 0
    OBVIOUS
  <2> QED BY <1>2, <1>3, <2>1 DEF Applied, Matches, canWrite
<1>5. Right(local, r, m.upload) /\ Version(local, r, body)
  BY <1>3, <1>4, <1>0 DEF PutOK
<1>6. body \in Seq(Browsers) /\ body # <<>> /\ body[1] \in Browsers /\ Len(body) \in Nat
  BY <1>2, UploadLemma
<1>7. Len(body) = Len(copy[r]) + 1
  BY <1>0, <1>4, <1>5, <1>6 DEF Right
<1>8. local[body[1]][r] \in Seq(Browsers) /\ Began(body, local[body[1]][r])
  BY <1>0, <1>5, <1>6 DEF Version, Storages
<1>9. Began(copy[r], body)
  <2>1. CASE copy[r] = <<>>
    BY <1>6, <2>1 DEF Began
  <2>2. CASE copy[r] # <<>>
    <3>1. Version(local, r, copy[r])
      BY <1>0, <2>2 DEF CopyOK
    <3>2. copy[r][1] \in Browsers /\ Maker(local, r, copy[r][1])
      BY <1>0, <3>1, VersionMaker
    <3>3. copy[r][1] = body[1]
      BY <1>0, <1>5, <1>6, <3>2, VersionMaker DEF OneMaker, Maker
    <3> HIDE DEF body
    <3>4. Began(copy[r], local[body[1]][r])
      BY <3>1, <3>3 DEF Version
    <3> QED BY <1>0, <1>6, <1>7, <1>8, <3>4, BeganBoth
  <2> QED BY <2>1, <2>2
<1> HIDE DEF body
<1>10. IsPrefix(copy[r], body) /\ IsPrefix(body, local[body[1]][r])
  BY <1>0, <1>6, <1>8, <1>9, PrefixLemma
<1>11. Head(body) = body[1]
  BY <1>6
<1> QED BY <1>3, <1>7, <1>10, <1>11

\* Whatever is lost, given up, served late or sent by browsers that brought the record back, the
\* server's copy only ever becomes its next version, as the browser that made the move held it.
THEOREM CopyIsTheCreatorsAlways ==
  MirrorSpec => CopyIsTheCreators
<1>1. VersionInv /\ VersionInv' /\ [MirrorNext]_mirrorVars =>
        [\A r \in Records : copy'[r] # copy[r] =>
           /\ Len(copy'[r]) = Len(copy[r]) + 1 /\ IsPrefix(copy[r], copy'[r])
           /\ IsPrefix(copy'[r], local'[Head(copy'[r])][r])]_mirrorVars
  BY CopyChange
<1> QED BY <1>1, VersionInvAlways, PTL DEF MirrorSpec, CopyIsTheCreators

\* A copy brought back never takes a browser's record back, although the record may have been
\* written since the copy was asked for.
THEOREM NewerIsKeptAlways ==
  MirrorSpec => NewerIsKept
<1>1. ASSUME MirrorTypeOK, MirrorTypeOK', [MirrorNext]_mirrorVars, NEW b \in Browsers, NEW r \in Records, local'[b][r] # local[b][r]
      PROVE  Len(local'[b][r]) > Len(local[b][r])
  <2>0. local \in Storages /\ local[b][r] \in Seq(Browsers) /\ \A p \in Tabs : browser[p] \in Browsers
    BY <1>1, MirrorParts
  <2>1. ASSUME NEW p \in Tabs, NEW s \in Records, create(p, s)
        PROVE  Len(local'[b][r]) > Len(local[b][r])
    <3>1. local'[b][r] = <<browser[p]>> /\ local[b][r] = <<>>
      BY <1>1, <2>1, SavedLocal DEF create
    <3> QED BY <3>1
  <2>2. ASSUME NEW p \in Tabs, NEW s \in Records, update(p, s)
        PROVE  Len(local'[b][r]) > Len(local[b][r])
    <3> DEFINE body == Append(local[browser[p]][s], browser[p])
    <3>1. Saved(p, s, body)
      BY <2>2 DEF update
    <3> HIDE DEF body
    <3>2. local'[b][r] = IF b = browser[p] /\ r = s THEN body ELSE local[b][r]
      BY <1>1, <3>1, SavedLocal
    <3>3. b = browser[p] /\ r = s /\ local'[b][r] = body
      BY <1>1, <3>2
    <3>4. local'[b][r] = Append(local[b][r], b)
      BY <3>3 DEF body
    <3> QED BY <2>0, <3>4
  <2>3. ASSUME NEW p \in Tabs, restore(p)
        PROVE  Len(local'[b][r]) > Len(local[b][r])
    <3>1. /\ Newer(p) /\ local' = [local EXCEPT ![browser[p]][pull[p].record] = pull[p].remote]
          /\ pull[p].record \in Records
      BY <1>1, <2>3, MirrorParts DEF restore
    <3>2. b = browser[p] /\ r = pull[p].record /\ local'[b][r] = pull[p].remote
      BY <1>1, <2>0, <3>1 DEF Storages
    <3>3. pull[p].remote \in Seq(Browsers)
      BY <1>1, <2>3, MirrorParts DEF restore
    <3> QED BY <2>0, <3>1, <3>2, <3>3 DEF Newer
  <2> QED BY <1>1, <2>1, <2>2, <2>3, QuietLemma, QuietPage, QuietOthers DEF MirrorNext
<1>2. MirrorTypeOK /\ MirrorTypeOK' /\ [MirrorNext]_mirrorVars =>
        [\A b \in Browsers, r \in Records : local'[b][r] # local[b][r] => Len(local'[b][r]) > Len(local[b][r])]_mirrorVars
  BY <1>1
<1> QED BY <1>2, MirrorTypeCorrect, PTL DEF MirrorSpec, NewerIsKept

-----------------------------------------------------------------------------
(* A record of one page whose uploads were all heard: the uploads that     *)
(* wait are its last versions in order, and the copy is the one before.    *)

Heard(p, r) == IF turn[p][r] \in {"created", "saved"} THEN 1 ELSE 0

\* No request of r but page p's can change the copy, and page p's can.
OnlyFrom(p, r, ms) ==
  \A m \in ms : m.record = r =>
    IF m.page = p THEN m.token \/ m.upload.expected = 0 ELSE ~m.token /\ m.upload.expected # 0

SmoothOK(r, p) ==
  LET b == browser[p]  q == queue[p][r]  last == Len(local[b][r]) IN
  /\ Maker(local, r, b)
  /\ \A i \in 1..Len(q) : Len(q[i].body) = last - Len(q) + i
  /\ Len(copy[r]) = last - Len(q) + Heard(p, r)
  /\ turn[p][r] \notin {"conflict", "unavailable"}
  /\ copy[r] # <<>> /\ turn[p][r] # "created" => Contains(tokens[p], r)
  /\ \A o \in Tabs \ {p} : browser[o] = b => queue[o][r] = <<>>
  /\ OnlyFrom(p, r, puts)

SmoothInv == VersionInv /\ \A r \in Records, p \in Tabs : smooth[r] = p => SmoothOK(r, p)

\* What a step must leave alone for a smooth record to stay one.
LEMMA SmoothFrame ==
  ASSUME NEW r \in Records, NEW p \in Tabs, SmoothOK(r, p),
         local'[browser[p]][r] = local[browser[p]][r], queue'[p][r] = queue[p][r], turn'[p][r] = turn[p][r],
         copy'[r] = copy[r], Contains(tokens[p], r) => Contains(tokens'[p], r),
         \A o \in Tabs \ {p} : browser[o] = browser[p] => queue'[o][r] = <<>>,
         OnlyFrom(p, r, puts')
  PROVE  SmoothOK(r, p)'
BY DEF SmoothOK, Heard, Maker

\* The maker's own record is never brought back.
LEMMA RestoreLocal ==
  ASSUME MirrorTypeOK, OneMaker(local), PullOK, NEW o \in Tabs, restore(o),
         NEW b \in Browsers, NEW r \in Records, Maker(local, r, b)
  PROVE  local'[b][r] = local[b][r]
<1>0. local \in Storages /\ \A p \in Tabs : browser[p] \in Browsers
  BY MirrorParts
<1> DEFINE c == browser[o]  t == pull[o].record  s == pull[o].remote
<1>1. CASE local' = local
  BY <1>1
<1>2. CASE Newer(o)
  <2>1. t \in Records /\ s \in Seq(Browsers) /\ c \in Browsers /\ local[c][t] \in Seq(Browsers)
    BY <1>0, MirrorParts DEF restore, Storages
  <2>2. Len(local[c][t]) < Len(s)
    BY <1>2 DEF Newer
  <2>3. s # <<>>
    BY <2>1, <2>2
  <2>4. Version(local, t, s)
    BY <2>1, <2>3, BoundsLemma DEF PullOK, restore
  <2>5. s[1] \in Browsers /\ Maker(local, t, s[1])
    BY <1>0, <2>1, <2>4, VersionMaker
  <2>6. ~(b = c /\ r = t)
    <3>1. ASSUME b = c, r = t
          PROVE  FALSE
      <4>1. s[1] = c
        BY <2>1, <2>5, <3>1 DEF OneMaker, Maker
      <4>2. Began(s, local[c][t])
        BY <2>4, <4>1 DEF Version
      <4> QED BY <2>1, <2>2, <4>2 DEF Began
    <3> QED BY <3>1
  <2>7. local' = [local EXCEPT ![c][t] = s]
    BY <1>2 DEF restore
  <2> HIDE DEF c, t, s
  <2> QED BY <1>0, <2>1, <2>6, <2>7 DEF Storages
<1> QED BY <1>1, <1>2 DEF restore

\* One record has one maker.
LEMMA MakerLemma ==
  ASSUME NEW l, OneMaker(l), NEW b \in Browsers, NEW c \in Browsers, NEW r \in Records, Maker(l, r, b),
         l[c][r] # <<>>
  PROVE  l[c][r][1] = b
BY DEF OneMaker, Maker

LEMMA AdriftFrom ==
  ASSUME NEW p \in Tabs, NEW r \in Records, Nobody \notin Tabs, NEW ms \in SUBSET Put, OnlyFrom(p, r, ms), NEW ns,
         \A n \in ns : \E m \in ms : n = m \/ (n = Adrift(m) /\ ~(m.page = p /\ m.record = r))
  PROVE  OnlyFrom(p, r, ns)
<1>1. ASSUME NEW n \in ns, n.record = r
      PROVE  IF n.page = p THEN n.token \/ n.upload.expected = 0 ELSE ~n.token /\ n.upload.expected # 0
  <2>1. PICK m \in ms : n = m \/ (n = Adrift(m) /\ ~(m.page = p /\ m.record = r))
    OBVIOUS
  <2>2. CASE n = m
    BY <1>1, <2>2 DEF OnlyFrom
  <2>3. CASE n = Adrift(m) /\ ~(m.page = p /\ m.record = r)
    <3>1. n.page = Nobody /\ n.record = m.record /\ n.upload = m.upload /\ n.token = m.token
      BY <2>3, AdriftLemma
    <3> QED BY <1>1, <2>3, <3>1 DEF OnlyFrom
  <2> QED BY <2>1, <2>2, <2>3
<1> QED BY <1>1 DEF OnlyFrom

\* A record just made.
LEMMA SmoothCreate ==
  ASSUME VersionInv, VersionInv', NEW p \in Tabs, NEW r \in Records, create(p, r), smooth'[r] = p
  PROVE  SmoothOK(r, p)'
<1> DEFINE b == browser[p]
<1>0. /\ MirrorTypeOK /\ local \in Storages /\ b \in Browsers /\ CopyOK /\ QueueOK /\ PutOK /\ InFlight
      /\ \A o \in Tabs : queue[o][r] \in Seq(Upload)
      /\ smooth \in [Records -> Tabs \cup {Nobody}] /\ OneMaker(local')
  BY MirrorParts DEF VersionInv, MirrorTypes, MirrorTypeOK
<1>1. Saved(p, r, <<b>>) /\ (\A c \in Browsers : ~Maker(local, r, c)) /\ copyOn[b]
  BY <1>0, BoundsLemma DEF create, Maker
<1>2. ASSUME NEW o \in Tabs
      PROVE  queue[o][r] = <<>>
  <2>1. ASSUME queue[o][r] # <<>>
        PROVE  FALSE
    <3>1. queue[o][r][1] \in Upload /\ 1 \in 1..Len(queue[o][r])
      BY <1>0, <2>1
    <3>2. Maker(local, r, queue[o][r][1].body[1])
      BY <1>0, <3>1 DEF QueueOK, Waits, Right
    <3> QED BY <1>1, <3>1, <3>2, UploadLemma
  <2> QED BY <2>1
<1>3. copy[r] = <<>>
  <2>1. ASSUME copy[r] # <<>>
        PROVE  FALSE
    <3>1. Version(local, r, copy[r]) /\ copy[r] \in Seq(Browsers)
      BY <1>0, <2>1, MirrorParts DEF CopyOK
    <3> QED BY <1>0, <1>1, <3>1, VersionMaker
  <2> QED BY <2>1
<1>4. \A m \in puts : m.record # r
  <2>1. ASSUME NEW m \in puts, m.record = r
        PROVE  FALSE
    <3>1. Maker(local, r, m.upload.body[1]) /\ m.upload \in Upload
      BY <1>0, <2>1, MirrorParts DEF PutOK, Right
    <3> QED BY <1>1, <3>1, UploadLemma
  <2> QED BY <2>1
<1>5. turn[p][r] = "idle"
  BY <1>0, <1>2 DEF InFlight
<1>6. local'[b][r] = <<b>> /\ UNCHANGED <<turn, puts, copy, tokens>>
  BY <1>0, <1>1, SavedLocal, QuietLemma
<1>7. queue'[p][r] = <<[body |-> <<b>>, expected |-> Len(<<b>>) - 1]>>
  <2> DEFINE u == [body |-> <<b>>, expected |-> Len(<<b>>) - 1]
  <2>1. queue' = [queue EXCEPT ![p][r] = Append(queue[p][r], u)]
    BY <1>1 DEF Saved, Mirrored, Queued, Expected
  <2> HIDE DEF u
  <2>2. queue'[p][r] = Append(<<>>, u)
    BY <1>0, <1>2, <2>1 DEF MirrorTypeOK
  <2>3. Append(<<>>, u) = <<u>>
    OBVIOUS
  <2> QED BY <2>2, <2>3 DEF u
<1>8. \A o \in Tabs \ {p} : queue'[o][r] = <<>>
  <2>1. ASSUME NEW o \in Tabs, o # p
        PROVE  queue'[o][r] = queue[o][r]
    <3>1. Saved(p, r, <<b>>) /\ MirrorTypeOK
      BY <1>0, <1>1
    <3>2. ~(o = p /\ r = r /\ copyOn[browser[p]])
      BY <2>1
    <3> QED BY <3>1, <3>2, SavedElse
  <2> QED BY <1>2, <2>1
<1>9. Maker(local', r, b)
  BY <1>6 DEF Maker
<1>10. /\ Len(queue'[p][r]) = 1 /\ Len(local'[b][r]) = 1 /\ Len(copy'[r]) = 0
       /\ Len(queue'[p][r][1].body) = 1
  BY <1>3, <1>6, <1>7
<1>11. OnlyFrom(p, r, puts') /\ Heard(p, r)' = 0
  BY <1>4, <1>5, <1>6 DEF OnlyFrom, Heard
<1>12. \A i \in 1..Len(queue'[p][r]) : Len(queue'[p][r][i].body) = Len(local'[b][r]) - Len(queue'[p][r]) + i
  BY <1>10
<1>13. copy'[r] = <<>> /\ turn'[p][r] = "idle"
  BY <1>3, <1>5, <1>6
<1> QED BY <1>8, <1>9, <1>10, <1>11, <1>12, <1>13 DEF SmoothOK

\* A smooth record is written, by its page or by a browser that has it from there.
LEMMA SmoothUpdate ==
  ASSUME VersionInv, NEW p \in Tabs, NEW r \in Records, SmoothOK(r, p), smooth[r] = p, smooth'[r] = p,
         NEW o \in Tabs, NEW s \in Records, update(o, s)
  PROVE  SmoothOK(r, p)'
<1> DEFINE b == browser[p]  c == browser[o]  L == local[b][r]  q == queue[p][r]
           body == Append(local[c][s], c)  u == [body |-> body, expected |-> Len(body) - 1]
<1>0. /\ MirrorTypeOK /\ local \in Storages /\ b \in Browsers /\ c \in Browsers /\ OneMaker(local)
      /\ q \in Seq(Upload) /\ L \in Seq(Browsers) /\ Maker(local, r, b)
      /\ smooth \in [Records -> Tabs \cup {Nobody}] /\ copyOn \in [Browsers -> BOOLEAN]
      /\ queue \in [Tabs -> [Records -> Seq(Upload)]] /\ copy[r] \in Seq(Browsers)
  BY MirrorParts DEF VersionInv, MirrorTypes, MirrorTypeOK, SmoothOK, Storages
<1>1. Saved(o, s, body) /\ local[c][s] # <<>> /\ UNCHANGED <<turn, copy, tokens, puts>>
  BY QuietLemma DEF update
<1>2. s = r => c # Head(local[c][r]) \/ (copyOn[c] /\ o = p)
  BY <1>0, BoundsLemma DEF update
<1>3. c # Head(local[c][r]) /\ s = r => c # b
  <2>1. local[c][s] \in Seq(Browsers)
    BY <1>0 DEF Storages
  <2>2. s = r => Head(local[c][r]) = b
    BY <1>0, <1>1, <2>1, MakerLemma
  <2>3. Maker(local, r, b) => local[b][r][1] = b
    BY DEF Maker
  <2> QED BY <1>0, <2>2, <2>3
<1>4. OnlyFrom(p, r, puts') /\ Heard(p, r)' = Heard(p, r) /\ Heard(p, r) \in Nat
  BY <1>1 DEF SmoothOK, Heard, OnlyFrom
<1>5. \A a \in Tabs \ {p} : browser[a] = b => queue'[a][r] = <<>>
  <2>1. ASSUME NEW a \in Tabs \ {p}, browser[a] = b
        PROVE  queue'[a][r] = queue[a][r]
    <3>1. ~(a = o /\ r = s /\ copyOn[c])
      BY <1>2, <1>3, <2>1
    <3>2. Saved(o, s, body) /\ MirrorTypeOK /\ a \in Tabs
      BY <1>0, <1>1
    <3> QED BY <3>1, <3>2, SavedElse
  <2> QED BY <2>1 DEF SmoothOK
<1>6. CASE o = p /\ s = r
  <2>1. copyOn[c] /\ c = b /\ body = Append(L, b)
    BY <1>2, <1>3, <1>6
  <2>2. local'[b][r] = Append(L, b)
    <3>1. c = b /\ body = Append(L, b)
      BY <2>1
    <3>2. \A d \in Browsers, e \in Records : local'[d][e] = IF d = browser[o] /\ e = s THEN body ELSE local[d][e]
      <4>1. Saved(o, s, body) /\ MirrorTypeOK
        BY <1>0, <1>1
      <4> QED BY <4>1, SavedLocal
    <3>3. local'[b][r] = body
      BY <1>0, <1>6, <3>1, <3>2
    <3> QED BY <3>1, <3>3
  <2>3. queue'[p][r] = Append(q, u)
    <3>1. queue' = [queue EXCEPT ![p][r] = Append(queue[p][r], u)]
      BY <1>1, <1>6, <2>1 DEF Saved, Mirrored, Queued, Expected
    <3> HIDE DEF u
    <3> QED BY <1>0, <3>1
  <2>4. u.body = Append(L, b)
    BY <2>1
  <2>5. /\ \A i \in 1..Len(q) : Len(q[i].body) = Len(L) - Len(q) + i
        /\ Len(copy[r]) = Len(L) - Len(q) + Heard(p, r)
        /\ turn[p][r] \notin {"conflict", "unavailable"}
        /\ copy[r] # <<>> /\ turn[p][r] # "created" => Contains(tokens[p], r)
    BY DEF SmoothOK
  <2> HIDE DEF u, q, L, b
  <2>6. /\ Append(L, b) # <<>> /\ Len(Append(L, b)) = Len(L) + 1 /\ Len(L) \in Nat
        /\ (L # <<>> => Append(L, b)[1] = L[1])
    BY <1>0, AppendLemma, Zenon
  <2>7. Len(Append(q, u)) = Len(q) + 1 /\ Len(q) \in Nat /\ Append(q, u)[Len(q) + 1] = u
        /\ \A i \in 1..Len(q) : Append(q, u)[i] = q[i]
    BY <1>0
  <2>8. \A i \in 1..Len(Append(q, u)) : Len(Append(q, u)[i].body) = Len(Append(L, b)) - Len(Append(q, u)) + i
    <3>1. ASSUME NEW i \in 1..Len(Append(q, u))
          PROVE  Len(Append(q, u)[i].body) = Len(Append(L, b)) - Len(Append(q, u)) + i
      <4>1. CASE i \in 1..Len(q)
        <5>1. Append(q, u)[i].body = q[i].body /\ Len(q[i].body) = Len(L) - Len(q) + i
          BY <2>5, <2>7, <4>1
        <5> QED BY <2>6, <2>7, <5>1
      <4>2. CASE i = Len(q) + 1
        <5>1. Append(q, u)[i].body = Append(L, b)
          BY <2>4, <2>7, <4>2
        <5> QED BY <2>6, <2>7, <4>2, <5>1
      <4> QED BY <2>7, <4>1, <4>2
    <3> QED BY <3>1
  <2>9. Len(copy[r]) = Len(Append(L, b)) - Len(Append(q, u)) + Heard(p, r)
    BY <1>4, <2>5, <2>6, <2>7
  <2>10. Maker(local', r, b)
    BY <1>0, <2>2, <2>6 DEF Maker, L
  <2> QED BY <1>1, <1>4, <1>5, <2>2, <2>3, <2>5, <2>8, <2>9, <2>10 DEF SmoothOK, b
<1>7. CASE ~(o = p /\ s = r)
  <2>1. ~(c = b /\ s = r)
    BY <1>2, <1>3, <1>7
  <2>2. local'[b][r] = L
    BY <1>0, <1>1, <2>1, SavedLocal
  <2>3. queue'[p][r] = q
    <3>1. Saved(o, s, body) /\ MirrorTypeOK /\ ~(p = o /\ r = s /\ copyOn[browser[o]])
      BY <1>0, <1>1, <1>7
    <3> QED BY <3>1, SavedElse
  <2> QED BY <1>1, <1>4, <1>5, <2>2, <2>3, SmoothFrame
<1> QED BY <1>6, <1>7

\* The next upload of a smooth record is sent with the token it needs; of others none could count.
LEMMA SmoothSend ==
  ASSUME VersionInv, NEW p \in Tabs, NEW r \in Records, SmoothOK(r, p), smooth'[r] = p,
         NEW o \in Tabs, NEW s \in Records, Send(o, s)
  PROVE  SmoothOK(r, p)'
<1> DEFINE b == browser[p]  L == local[b][r]  q == queue[p][r]
           u == Head(queue[o][s])  t == u.expected > 0 /\ Contains(tokens[o], s)
           x == [page |-> o, record |-> s, upload |-> u, token |-> t]
<1>0. /\ MirrorTypeOK /\ local \in Storages /\ OneMaker(local) /\ TokenOK /\ QueueOK
      /\ queue[o][s] \in Seq(Upload) /\ queue[o][s] # <<>> /\ turn[o][s] = "idle"
      /\ turn' = [turn EXCEPT ![o][s] = "out"] /\ puts' = puts \cup {x}
      /\ turn \in [Tabs -> [Records -> {"idle", "out"} \cup Results]]
      /\ browser[o] \in Browsers /\ b \in Browsers /\ L \in Seq(Browsers) /\ copy[r] \in Seq(Browsers)
      /\ UNCHANGED <<local, kept, tokens, queue, copy>>
  BY MirrorParts, QuietLemma DEF VersionInv, MirrorTypes, MirrorTypeOK, Send, Storages
<1>1. /\ Maker(local, r, b) /\ OnlyFrom(p, r, puts)
      /\ \A i \in 1..Len(q) : Len(q[i].body) = Len(L) - Len(q) + i
      /\ Len(copy[r]) = Len(L) - Len(q) + Heard(p, r)
      /\ copy[r] # <<>> /\ turn[p][r] # "created" => Contains(tokens[p], r)
      /\ \A a \in Tabs \ {p} : browser[a] = b => queue[a][r] = <<>>
  BY DEF SmoothOK
<1>2. u = queue[o][s][1] /\ 1 \in 1..Len(queue[o][s]) /\ u \in Upload /\ Waits(local, o, s, u)
  BY <1>0 DEF QueueOK
<1>3. u.body[1] \in Browsers /\ u.expected \in Nat /\ u.expected = Len(u.body) - 1
  BY <1>2, UploadLemma DEF Waits, Right
<1>4. CASE s = r /\ o = p
  <2>1. Heard(p, r) = 0
    BY <1>0, <1>4 DEF Heard
  <2>2. u.expected = Len(copy[r])
    <3>1. Len(u.body) = Len(L) - Len(q) + 1
      BY <1>1, <1>2, <1>4
    <3>2. Len(L) \in Nat /\ Len(q) \in Nat
      BY <1>0, <1>4
    <3>3. Len(copy[r]) = Len(L) - Len(q) + Heard(p, r) /\ u.expected = Len(u.body) - 1
      BY <1>1, <1>3
    <3> HIDE DEF u, L, q
    <3> QED BY <2>1, <3>1, <3>2, <3>3
  <2>3. u.expected > 0 => copy[r] # <<>>
    BY <2>2
  <2>4. t \/ u.expected = 0
    BY <1>0, <1>1, <1>3, <1>4, <2>3
  <2> HIDE DEF u, t
  <2>5. OnlyFrom(p, r, puts')
    BY <1>0, <1>1, <1>4, <2>4 DEF OnlyFrom
  <2>6. turn'[p][r] = "out" /\ Heard(p, r)' = 0
    BY <1>0, <1>4 DEF Heard
  <2> QED BY <1>0, <1>1, <2>1, <2>5, <2>6 DEF SmoothOK
<1>5. CASE ~(s = r /\ o = p)
  <2>1. s = r => browser[o] # b
    BY <1>0, <1>1, <1>5
  <2>2. s = r => ~t
    BY <1>0, <1>1, <2>1, MakerLemma DEF TokenOK, Maker
  <2>3. s = r => u.expected # 0
    <3>1. SUFFICES ASSUME s = r, u.expected = 0 PROVE FALSE
      OBVIOUS
    <3>2. Maker(local, r, u.body[1]) /\ u.body[1] = browser[o]
      BY <1>2, <3>1 DEF Waits, Right
    <3>3. Maker(local, r, browser[o])
      BY <3>2
    <3>4. local[b][r] # <<>> /\ local[b][r][1] = b
      BY <1>1 DEF Maker
    <3>5. OneMaker(local) /\ browser[o] \in Browsers /\ b \in Browsers
      BY <1>0 DEF VersionInv
    <3> HIDE DEF b, u
    <3>6. local[b][r][1] = browser[o]
      BY <3>3, <3>4, <3>5, MakerLemma
    <3> QED BY <2>1, <3>1, <3>4, <3>6
  <2> HIDE DEF u, t
  <2>4. OnlyFrom(p, r, puts')
    BY <1>0, <1>1, <1>5, <2>2, <2>3 DEF OnlyFrom
  <2>5. turn'[p][r] = turn[p][r]
    BY <1>0, <1>5
  <2> QED BY <1>0, <1>1, <2>4, <2>5, SmoothFrame
<1> QED BY <1>4, <1>5

\* Tokens are never forgotten by a page that stays open.
LEMMA TokensGrow ==
  ASSUME MirrorTypeOK, NEW o \in Tabs, NEW s \in Records, HearAnswer(o, s),
         NEW p \in Tabs, NEW r \in Records
  PROVE  /\ Contains(tokens[p], r) => Contains(tokens'[p], r)
         /\ turn[o][s] = "created" => Contains(tokens'[o], s)
<1>1. tokens \in [Tabs -> Seq(Records)]
  BY DEF MirrorTypeOK
<1>2. CASE UNCHANGED tokens /\ turn[o][s] # "created"
  BY <1>2
<1>3. CASE remember(o, s)
  <2> DEFINE known == IF Contains(tokens[o], s) THEN tokens[o] ELSE Append(tokens[o], s)
  <2>1. tokens' = [tokens EXCEPT ![o] = known]
    BY <1>3 DEF remember
  <2>2. tokens[o] \in Seq(Records)
    BY <1>1
  <2>3. Contains(known, s) /\ (Contains(tokens[o], r) => Contains(known, r))
    <3>1. CASE Contains(tokens[o], s)
      BY <3>1
    <3>2. CASE ~Contains(tokens[o], s)
      <4>1. known = Append(tokens[o], s)
        BY <3>2
      <4>2. Len(known) = Len(tokens[o]) + 1 /\ known[Len(tokens[o]) + 1] = s /\ Len(tokens[o]) \in Nat
            /\ \A i \in 1..Len(tokens[o]) : known[i] = tokens[o][i]
        BY <2>2, <4>1
      <4> HIDE DEF known
      <4> QED BY <4>2 DEF Contains
    <3> QED BY <3>1, <3>2
  <2> HIDE DEF known
  <2> QED BY <1>1, <2>1, <2>3
<1> QED BY <1>2, <1>3 DEF HearAnswer

\* An upload of a smooth record was heard, or one of another record or page.
LEMMA SmoothAnswered ==
  ASSUME VersionInv, NEW p \in Tabs, NEW r \in Records, SmoothOK(r, p),
         NEW o \in Tabs, NEW s \in Records, HearAnswer(o, s)
  PROVE  SmoothOK(r, p)'
<1> DEFINE b == browser[p]  L == local[b][r]  q == queue[p][r]
<1>0. /\ MirrorTypeOK /\ InFlight /\ local \in Storages /\ b \in Browsers
      /\ q \in Seq(Upload) /\ L \in Seq(Browsers) /\ queue[o][s] # <<>> /\ turn[o][s] \in Results
      /\ queue \in [Tabs -> [Records -> Seq(Upload)]]
      /\ turn \in [Tabs -> [Records -> {"idle", "out"} \cup Results]]
      /\ UNCHANGED <<local, puts, copy>>
  BY MirrorParts, QuietLemma DEF VersionInv, MirrorTypes, InFlight, MirrorTypeOK, HearAnswer, Results, Storages
<1>1. /\ Maker(local, r, b) /\ OnlyFrom(p, r, puts)
      /\ \A i \in 1..Len(q) : Len(q[i].body) = Len(L) - Len(q) + i
      /\ Len(copy[r]) = Len(L) - Len(q) + Heard(p, r)
      /\ turn[p][r] \notin {"conflict", "unavailable"}
      /\ copy[r] # <<>> /\ turn[p][r] # "created" => Contains(tokens[p], r)
      /\ \A a \in Tabs \ {p} : browser[a] = b => queue[a][r] = <<>>
  BY DEF SmoothOK
<1>2. /\ \A a \in Tabs, t \in Records : queue'[a][t] = IF a = o /\ t = s THEN Tail(queue[o][s]) ELSE queue[a][t]
      /\ \A a \in Tabs, t \in Records : turn'[a][t] = IF a = o /\ t = s THEN "idle" ELSE turn[a][t]
  BY <1>0 DEF HearAnswer, After
<1>3. Contains(tokens[p], r) => Contains(tokens'[p], r)
  BY <1>0, TokensGrow
<1>4. \A a \in Tabs \ {p} : browser[a] = b => queue'[a][r] = <<>>
  BY <1>0, <1>1, <1>2
<1>5. CASE o = p /\ s = r
  <2>1. turn[p][r] \in {"created", "saved"} /\ Heard(p, r) = 1
    BY <1>0, <1>1, <1>5 DEF Heard, Results
  <2>2. queue'[p][r] = Tail(q) /\ turn'[p][r] = "idle" /\ Heard(p, r)' = 0
    BY <1>2, <1>5 DEF Heard
  <2>3. copy[r] # <<>> => Contains(tokens'[p], r)
    BY <1>0, <1>1, <1>3, <1>5, TokensGrow
  <2>4. q # <<>>
    BY <1>0, <1>5
  <2> DEFINE rest == Tail(q)
  <2> HIDE DEF q, L, b
  <2>5. /\ Len(rest) = Len(q) - 1 /\ Len(q) \in Nat /\ Len(L) \in Nat
        /\ \A i \in 1..Len(rest) : i + 1 \in 1..Len(q) /\ rest[i] = q[i + 1]
    BY <1>0, <2>4
  <2>15. queue'[p][r] = rest
    BY <2>2
  <2> HIDE DEF rest
  <2>6. \A i \in 1..Len(rest) : Len(rest[i].body) = Len(L) - Len(rest) + i
    <3>1. ASSUME NEW i \in 1..Len(rest)
          PROVE  Len(rest[i].body) = Len(L) - Len(rest) + i
      <4>1. Len(rest[i].body) = Len(L) - Len(q) + (i + 1)
        BY <1>1, <2>5
      <4> QED BY <2>5, <4>1
    <3> QED BY <3>1
  <2>7. Len(copy[r]) = Len(L) - Len(rest) + 0
    BY <1>1, <2>1, <2>5
  <2>8. Maker(local', r, b) /\ OnlyFrom(p, r, puts') /\ copy' = copy /\ local'[b][r] = L
    BY <1>0, <1>1 DEF L
  <2> QED BY <1>4, <2>2, <2>15, <2>3, <2>6, <2>7, <2>8 DEF SmoothOK, b
<1>6. CASE ~(o = p /\ s = r)
  <2>1. queue'[p][r] = q /\ turn'[p][r] = turn[p][r]
    BY <1>2, <1>6
  <2> QED BY <1>0, <1>1, <1>3, <1>4, <2>1, SmoothFrame
<1> QED BY <1>5, <1>6

\* The server takes the next upload of a smooth record, and refuses all others of it.
LEMMA SmoothServe ==
  ASSUME VersionInv, NEW p \in Tabs, NEW r \in Records, SmoothOK(r, p),
         NEW m \in puts, Serve(m)
  PROVE  SmoothOK(r, p)'
<1> DEFINE b == browser[p]  L == local[b][r]  q == queue[p][r]
<1>0. /\ MirrorTypeOK /\ InFlight /\ local \in Storages /\ b \in Browsers /\ QueueOK
      /\ q \in Seq(Upload) /\ L \in Seq(Browsers) /\ copy[r] \in Seq(Browsers)
      /\ m.record \in Records /\ m.upload \in Upload /\ m.token \in BOOLEAN
      /\ turn \in [Tabs -> [Records -> {"idle", "out"} \cup Results]] /\ copy \in [Records -> Lineage]
      /\ UNCHANGED <<local, tokens, queue>>
  BY MirrorParts, QuietOthers DEF VersionInv, MirrorTypes, MirrorTypeOK, Storages
<1>1. /\ Maker(local, r, b) /\ OnlyFrom(p, r, puts)
      /\ \A i \in 1..Len(q) : Len(q[i].body) = Len(L) - Len(q) + i
      /\ Len(copy[r]) = Len(L) - Len(q) + Heard(p, r)
      /\ turn[p][r] \notin {"conflict", "unavailable"}
      /\ copy[r] # <<>> /\ turn[p][r] # "created" => Contains(tokens[p], r)
      /\ \A a \in Tabs \ {p} : browser[a] = b => queue[a][r] = <<>>
  BY DEF SmoothOK
<1>2. puts' \subseteq puts /\ OnlyFrom(p, r, puts')
  BY <1>1 DEF Serve, OnlyFrom
<1>3. CASE m.page = p /\ m.record = r
  <2>1. turn[p][r] = "out" /\ m.upload = Head(q) /\ q # <<>>
    BY <1>0, <1>3, BoundsLemma DEF InFlight
  <2>2. 1 \in 1..Len(q) /\ m.upload = q[1]
    BY <1>0, <2>1
  <2>3. Len(m.upload.body) = Len(L) - Len(q) + 1 /\ m.upload.expected = Len(m.upload.body) - 1
    <3>1. Len(q[1].body) = Len(L) - Len(q) + 1
      BY <1>1, <2>2
    <3>2. Waits(local, p, r, q[1])
      BY <1>0, <2>2 DEF QueueOK
    <3> QED BY <2>2, <3>1, <3>2 DEF Waits, Right
  <2>4. Heard(p, r) = 0
    BY <2>1 DEF Heard
  <2>5. m.token \/ m.upload.expected = 0
    BY <1>1, <1>3 DEF OnlyFrom
  <2> HIDE DEF L, q, b
  <2>6. m.upload.expected = Len(copy[r]) /\ Len(copy[r]) \in Nat /\ Len(L) \in Nat /\ Len(q) \in Nat
    BY <1>0, <1>1, <2>3, <2>4
  <2>7. copy[r] = <<>> <=> Len(copy[r]) = 0
    BY <1>0
  <2>8. Applied(m) = IF copy[r] = <<>> THEN "created" ELSE "saved"
    BY <1>3, <2>5, <2>6, <2>7 DEF Applied, Matches, canWrite
  <2>9. /\ copy'[r] = m.upload.body
        /\ turn'[p][r] = IF copy[r] = <<>> THEN "created" ELSE "saved"
    BY <1>0, <1>3, <2>8, BoundsLemma DEF Serve
  <2>10. Heard(p, r)' = 1
    BY <2>9 DEF Heard
  <2>11. Len(copy'[r]) = Len(L) - Len(q) + 1
    BY <2>3, <2>9
  <2>12. turn'[p][r] # "created" => Contains(tokens'[p], r)
    BY <1>0, <1>1, <2>1, <2>9
  <2>13. turn'[p][r] \notin {"conflict", "unavailable"}
    BY <2>9
  <2>14. queue'[p][r] = q /\ local'[b][r] = L /\ Maker(local', r, b) /\ \A a \in Tabs \ {p} : browser[a] = b => queue'[a][r] = <<>>
    BY <1>0, <1>1 DEF q, L
  <2> QED BY <1>1, <1>2, <2>10, <2>11, <2>12, <2>13, <2>14 DEF SmoothOK, b
<1>4. CASE m.record = r /\ m.page # p
  <2>1. ~m.token /\ m.upload.expected # 0
    BY <1>1, <1>4 DEF OnlyFrom
  <2>2. m.upload.expected > 0
    BY <1>0, <2>1, UploadLemma
  <2>3. Applied(m) = "unavailable"
    BY <2>1, <2>2 DEF Applied, canWrite
  <2>4. copy' = copy /\ turn'[p][r] = turn[p][r]
    BY <1>0, <1>4, <2>3 DEF Serve
  <2> QED BY <1>0, <1>1, <1>2, <2>4, SmoothFrame
<1>5. CASE m.record # r
  <2>1. copy'[r] = copy[r] /\ turn'[p][r] = turn[p][r]
    BY <1>0, <1>5 DEF Serve
  <2> QED BY <1>0, <1>1, <1>2, <2>1, SmoothFrame
<1> QED BY <1>3, <1>4, <1>5

\* A page other than the smooth record's gives an upload up, or is opened again.
LEMMA SmoothAway ==
  ASSUME VersionInv, NEW p \in Tabs, NEW r \in Records, SmoothOK(r, p), smooth'[r] = p,
         NEW o \in Tabs, Reload(o) \/ \E s \in Records : GiveUp(o, s) \/ BodyLost(o, s)
  PROVE  SmoothOK(r, p)'
<1>0. /\ MirrorTypeOK /\ Nobody \notin Tabs /\ puts \in SUBSET Put
      /\ queue \in [Tabs -> [Records -> Seq(Upload)]] /\ tokens \in [Tabs -> Seq(Records)]
      /\ turn \in [Tabs -> [Records -> {"idle", "out"} \cup Results]]
      /\ smooth \in [Records -> Tabs \cup {Nobody}]
  BY BoundsLemma DEF VersionInv, MirrorTypes, MirrorTypeOK
<1>1. OnlyFrom(p, r, puts) /\ \A a \in Tabs \ {p} : browser[a] = browser[p] => queue[a][r] = <<>>
  BY DEF SmoothOK
<1>2. CASE Reload(o)
  <2>1. o # p
    BY <1>0, <1>2 DEF Reload
  <2>2. \A n \in puts' : \E m \in puts : n = m \/ (n = Adrift(m) /\ ~(m.page = p /\ m.record = r))
    BY <1>2, <2>1 DEF Reload
  <2>3. OnlyFrom(p, r, puts')
    BY <1>0, <1>1, <2>2, AdriftFrom
  <2>4. UNCHANGED <<local, copy>> /\ tokens'[p] = tokens[p] /\ queue'[p][r] = queue[p][r] /\ turn'[p][r] = turn[p][r]
    BY <1>0, <1>2, <2>1 DEF Reload
  <2>5. \A a \in Tabs \ {p} : browser[a] = browser[p] => queue'[a][r] = <<>>
    BY <1>0, <1>1, <1>2 DEF Reload
  <2> QED BY <2>3, <2>4, <2>5, SmoothFrame
<1>3. ASSUME NEW s \in Records, GiveUp(o, s)
      PROVE  SmoothOK(r, p)'
  <2>1. ~(o = p /\ s = r)
    BY <1>0, <1>3 DEF GiveUp
  <2>2. \A n \in puts' : \E m \in puts : n = m \/ (n = Adrift(m) /\ ~(m.page = p /\ m.record = r))
    BY <1>3, <2>1 DEF GiveUp
  <2>3. OnlyFrom(p, r, puts')
    BY <1>0, <1>1, <2>2, AdriftFrom
  <2>4. UNCHANGED <<local, copy, tokens, queue>> /\ turn'[p][r] = turn[p][r]
    BY <1>0, <1>3, <2>1 DEF GiveUp
  <2> QED BY <1>1, <2>3, <2>4, SmoothFrame
<1>4. ASSUME NEW s \in Records, BodyLost(o, s)
      PROVE  SmoothOK(r, p)'
  <2>1. ~(o = p /\ s = r)
    BY <1>0, <1>4 DEF BodyLost
  <2>2. UNCHANGED <<local, copy, tokens, queue, puts>> /\ turn'[p][r] = turn[p][r]
    BY <1>0, <1>4, <2>1 DEF BodyLost
  <2> QED BY <1>1, <2>2, SmoothFrame
<1> QED BY <1>2, <1>3, <1>4

\* Another record is made.
LEMMA SmoothOther ==
  ASSUME VersionInv, NEW p \in Tabs, NEW r \in Records, SmoothOK(r, p),
         NEW o \in Tabs, NEW s \in Records, create(o, s)
  PROVE  SmoothOK(r, p)'
<1>0. MirrorTypeOK /\ browser[p] \in Browsers /\ Maker(local, r, browser[p])
  BY BoundsLemma DEF VersionInv, MirrorTypes, SmoothOK
<1>1. Saved(o, s, <<browser[o]>>) /\ s # r /\ UNCHANGED <<turn, copy, tokens, puts>>
  BY <1>0, QuietLemma DEF create, Maker
<1>2. local'[browser[p]][r] = local[browser[p]][r]
  BY <1>0, <1>1, SavedLocal
<1>3. \A a \in Tabs : queue'[a][r] = queue[a][r]
  BY <1>0, <1>1, SavedElse
<1> QED BY <1>1, <1>2, <1>3, SmoothFrame DEF SmoothOK

\* Which page a record is smooth for, and how that may change.
LEMMA SmoothStays ==
  ASSUME MirrorTypeOK, [MirrorNext]_mirrorVars, NEW r \in Records, NEW p \in Tabs, smooth'[r] = p
  PROVE  smooth[r] = p \/ create(p, r)
<1>0. smooth \in [Records -> Tabs \cup {Nobody}] /\ Nobody \notin Tabs
  BY BoundsLemma DEF MirrorTypeOK
<1>1. ASSUME NEW o \in Tabs, NEW s \in Records, create(o, s)
      PROVE  smooth[r] = p \/ create(p, r)
  BY <1>0, <1>1 DEF create
<1>2. ASSUME NEW o \in Tabs, NEW s \in Records, update(o, s) \/ GiveUp(o, s) \/ BodyLost(o, s)
      PROVE  smooth[r] = p
  BY <1>0, <1>2 DEF update, GiveUp, BodyLost
<1>3. ASSUME NEW o \in Tabs, Reload(o)
      PROVE  smooth[r] = p
  BY <1>0, <1>3 DEF Reload
<1> QED BY <1>1, <1>2, <1>3, QuietLemma, QuietPage, QuietOthers DEF MirrorNext

LEMMA SmoothStep ==
  ASSUME VersionInv, VersionInv', [MirrorNext]_mirrorVars, NEW r \in Records, NEW p \in Tabs,
         SmoothOK(r, p), smooth[r] = p, smooth'[r] = p
  PROVE  SmoothOK(r, p)'
<1>0. MirrorTypeOK /\ OneMaker(local) /\ PullOK /\ browser[p] \in Browsers
  BY BoundsLemma DEF VersionInv, MirrorTypes
<1>1. /\ Maker(local, r, browser[p]) /\ OnlyFrom(p, r, puts)
      /\ \A a \in Tabs \ {p} : browser[a] = browser[p] => queue[a][r] = <<>>
  BY DEF SmoothOK
<1>2. ASSUME UNCHANGED <<local, tokens, queue, turn, puts, copy>>
      PROVE  SmoothOK(r, p)'
  BY <1>1, <1>2, SmoothFrame
<1>3. ASSUME NEW o \in Tabs, restore(o)
      PROVE  SmoothOK(r, p)'
  <2>1. local'[browser[p]][r] = local[browser[p]][r]
    BY <1>0, <1>1, <1>3, RestoreLocal
  <2> QED BY <1>1, <1>3, <2>1, QuietPage, SmoothFrame
<1>4. ASSUME NEW o \in Tabs, NEW s \in Records,
             \/ create(o, s) \/ update(o, s) \/ Send(o, s) \/ GiveUp(o, s)
             \/ HearAnswer(o, s) \/ BodyLost(o, s) \/ AskCopy(o, s)
      PROVE  SmoothOK(r, p)'
  BY <1>2, <1>4, SmoothOther, SmoothUpdate, SmoothSend, SmoothAway, SmoothAnswered, QuietLemma
<1>5. ASSUME NEW m \in puts, Serve(m)
      PROVE  SmoothOK(r, p)'
  BY <1>5, SmoothServe
<1>6. ASSUME NEW o \in Tabs, ServeCopy(o)
      PROVE  SmoothOK(r, p)'
  BY <1>2, <1>6, QuietPage
<1>7. ASSUME NEW o \in Tabs, Reload(o)
      PROVE  SmoothOK(r, p)'
  BY <1>7, SmoothAway
<1>8. ASSUME NEW b \in Browsers, setCopy(b)
      PROVE  SmoothOK(r, p)'
  BY <1>2, <1>8, QuietOthers
<1>9. CASE UNCHANGED mirrorVars
  BY <1>2, <1>9, QuietOthers
<1> QED BY <1>3, <1>4, <1>5, <1>6, <1>7, <1>8, <1>9 DEF MirrorNext

LEMMA SmoothInvAlways ==
  MirrorSpec => []SmoothInv
<1>1. ASSUME MirrorInit, VersionInv
      PROVE  SmoothInv
  BY <1>1, BoundsLemma DEF MirrorInit, SmoothInv
<1>2. ASSUME SmoothInv, VersionInv', [MirrorNext]_mirrorVars
      PROVE  SmoothInv'
  <2>1. ASSUME NEW r \in Records, NEW p \in Tabs, smooth'[r] = p
        PROVE  SmoothOK(r, p)'
    <3>1. VersionInv /\ MirrorTypeOK /\ (smooth[r] = p => SmoothOK(r, p))
      BY <1>2 DEF SmoothInv, VersionInv, MirrorTypes
    <3>2. smooth[r] = p \/ create(p, r)
      BY <1>2, <2>1, <3>1, SmoothStays
    <3>3. CASE smooth[r] = p
      BY <1>2, <2>1, <3>1, <3>3, SmoothStep
    <3>4. CASE create(p, r)
      BY <1>2, <2>1, <3>1, <3>4, SmoothCreate
    <3> QED BY <3>2, <3>3, <3>4
  <2> QED BY <1>2, <2>1 DEF SmoothInv
<1> QED BY <1>1, <1>2, VersionInvAlways, PTL DEF MirrorSpec

\* When one page made every version of a record and heard of every upload, the server's copy is
\* the record itself as soon as nothing waits: none was overtaken, refused or left out.
THEOREM UnbrokenIsSavedAlways ==
  MirrorSpec => []UnbrokenIsSaved
<1>1. ASSUME SmoothInv
      PROVE  UnbrokenIsSaved
  <2>1. ASSUME NEW r \in Records, smooth[r] # Nobody, queue[smooth[r]][r] = <<>>
        PROVE  copy[r] = local[browser[smooth[r]]][r]
    <3> DEFINE p == smooth[r]  L == local[browser[p]][r]
    <3>1. p \in Tabs /\ VersionInv /\ SmoothOK(r, p)
      BY <1>1, <2>1 DEF SmoothInv, VersionInv, MirrorTypes, MirrorTypeOK
    <3>2. /\ MirrorTypeOK /\ InFlight /\ CopyOK /\ OneMaker(local) /\ local \in Storages
          /\ browser[p] \in Browsers /\ L \in Seq(Browsers) /\ copy[r] \in Seq(Browsers)
      BY <3>1, MirrorParts DEF VersionInv, MirrorTypes
    <3>3. Maker(local, r, browser[p]) /\ Len(copy[r]) = Len(L) - Len(queue[p][r]) + Heard(p, r)
      BY <3>1 DEF SmoothOK
    <3>4. Heard(p, r) = 0 /\ Len(queue[p][r]) = 0
      BY <2>1, <3>1, <3>2 DEF InFlight, Heard
    <3>5. Len(copy[r]) = Len(L) /\ copy[r] # <<>>
      BY <3>2, <3>3, <3>4 DEF Maker
    <3>6. Version(local, r, copy[r])
      BY <3>2, <3>5 DEF CopyOK
    <3>7. copy[r][1] \in Browsers /\ Maker(local, r, copy[r][1])
      BY <3>2, <3>6, VersionMaker
    <3>8. copy[r][1] = browser[p]
      BY <3>2, <3>3, <3>7 DEF OneMaker, Maker
    <3>9. Began(copy[r], L)
      BY <3>6, <3>8 DEF Version
    <3> HIDE DEF L
    <3>10. copy[r] = L
      BY <3>2, <3>5, <3>9, BeganAll
    <3> QED BY <3>10 DEF L
  <2> QED BY <2>1 DEF UnbrokenIsSaved
<1> QED BY <1>1, SmoothInvAlways, PTL
=============================================================================
