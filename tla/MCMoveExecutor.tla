--------------------------- MODULE MCMoveExecutor ---------------------------
(* Small instances of MoveExecutor. *)
EXTENDS MoveExecutor, TLC

AllSteps == <<"approve", "fee", "burn">>
SolanaSteps == <<"burn">>
=============================================================================
