--------------------------- MODULE SettlementMove ---------------------------
(***************************************************************************)
(* What a cross-chain move promises, whatever its implementation: where    *)
(* the funds are, and what the user is told.  The report may lag behind    *)
(* the funds and never runs ahead of them.                                 *)
(*                                                                         *)
(* "failedSafe" (a failure reported as "no funds were moved") carries no   *)
(* promise about the funds here, because the code does not keep that one:  *)
(* see FailedSafeMeansFundsStayed in MoveScreen.                           *)
(***************************************************************************)

CONSTANT Moves

VARIABLES
  funds,   \* where the funds of each move are
  report   \* what the record of each move says

Places == {"source", "burned", "destination", "returned"}
Reports == {"open", "inTransit", "arrived", "failedSafe", "failedAtRisk",
            "expired", "refunded"}

TypeOK == funds \in [Moves -> Places] /\ report \in [Moves -> Reports]

Init ==
  /\ funds = [m \in Moves |-> "source"]
  /\ report = [m \in Moves |-> "open"]

\* The funds go forward only, and never leave once the move was reported expired.
FundsMove(m) ==
  /\ \E from, to \in Places :
       /\ <<from, to>> \in {<<"source", "burned">>, <<"burned", "destination">>,
                            <<"burned", "returned">>}
       /\ funds[m] = from
       /\ funds' = [funds EXCEPT ![m] = to]
  /\ report[m] # "expired"
  /\ UNCHANGED report

Says(m, from, to) ==
  /\ report[m] = from
  /\ report' = [report EXCEPT ![m] = to]
  /\ UNCHANGED funds

Expire(m) == funds[m] = "source" /\ Says(m, "open", "expired")
FailEarly(m) == Says(m, "open", "failedSafe")
ReportBurn(m) == funds[m] # "source" /\ Says(m, "open", "inTransit")
ReportArrival(m) == funds[m] = "destination" /\ Says(m, "inTransit", "arrived")
ReportReturn(m) ==
  funds[m] = "returned" /\ \E r \in {"failedAtRisk", "refunded"} : Says(m, "inTransit", r)

Next ==
  \E m \in Moves :
    \/ FundsMove(m)
    \/ Expire(m) \/ FailEarly(m)
    \/ ReportBurn(m) \/ ReportArrival(m) \/ ReportReturn(m)

Spec == Init /\ [][Next]_<<funds, report>>
=============================================================================
