---------------------------- MODULE MCMoveScreen ----------------------------
(* Small instances of MoveScreen. *)
EXTENDS MoveScreen, TLC

EvmSteps == <<"fee", "burn">>
\* Bound: one burn is sent, and followed until it ends.
OneBurn ==
  /\ \A x \in Execs : chain[x]["burn"][1] \in {"unsent", "inflight"}
  /\ \E x \in Execs : \A y \in Execs \ {x} : chain[y]["burn"][1] = "unsent"
Symmetry == Permutations(Execs)
=============================================================================
