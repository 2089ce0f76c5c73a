------------------------------- MODULE MCPool -------------------------------
EXTENDS Pool

\* Of the ids that may be opened, an owner's address and a key that signs for itself.
CONSTANTS a1, a2, key

MCOpening(x0, y0, l0, vx0, sniper_bps, decay_secs) ==
  [x0 |-> x0, y0 |-> y0, l0 |-> l0, fee_bps |-> 2, vx0 |-> vx0, sniper_bps |-> sniper_bps,
   decay_secs |-> decay_secs]

\* From tokens alone, with a launch fee and a price range; and four that are refused: too
\* little liquidity, a range too wide, a launch fee below the base, more SOL than there is.
MCOpenings ==
  {MCOpening(2, 0, 3, 2, 4, 1), MCOpening(3, 0, 1, 0, 0, 0), MCOpening(2, 0, 2, 5, 0, 0),
   MCOpening(3, 0, 2, 0, 1, 1), MCOpening(2, 6, 3, 0, 0, 0)}

\* Bound: only the position at the fresh key is handed on and followed further.
OwnIsKept == pos[a1] # None => pos[a1].owner = a1 /\ pos[a1].recipient = a1
=============================================================================
