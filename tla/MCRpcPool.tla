----------------------------- MODULE MCRpcPool -----------------------------
EXTENDS RpcPool, TLC

CONSTANTS n1, n2, logs, block

\* A log range that is not kept (it ends at the newest block), and a block that is kept for a while.
MCMethod == (logs :> "eth_getLogs") @@ (block :> "eth_getBlockByNumber")
MCLogRange == (logs :> 2) @@ (block :> 0)
MCTtl == (logs :> 0) @@ (block :> 1)

\* A busy node, and one that does not do everything.
MCTroubles == (n1 :> {"limited", "breaks"}) @@ (n2 :> {"refuses", "too_big"})
Symmetry == Permutations(Callers)
=============================================================================
