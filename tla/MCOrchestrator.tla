--------------------------- MODULE MCOrchestrator ---------------------------
(* Small instances of Orchestrator. *)
EXTENDS Orchestrator, TLC

EvmSteps == <<"fee", "burn">>
\* Bound: the fee is sent once and lands, before the burn, while one tab works alone;
\* one tab remembers a fee, and no longer than until the burn is sent.
FeeFirst ==
  \A x \in Execs :
    LET unburned == \A n \in 1..MaxSends : chain[x]["burn"][n] = "unsent" IN
    /\ \/ rec[x].steps["fee"].status = "confirmed" /\ chain[x]["fee"][2] = "unsent"
       \/ /\ unburned
          /\ chain[x]["fee"] \in {<<sent, "unsent">> : sent \in {"unsent", "inflight", "confirmed"}}
          /\ \E p \in Pages : \A q \in Pages \ {p} : Free(q, x)
    /\ \E p \in Pages : \A q \in Pages : ledger[q] => q = p /\ unburned
Symmetry == Permutations(Pages)
=============================================================================
