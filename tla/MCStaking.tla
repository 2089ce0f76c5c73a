----------------------------- MODULE MCStaking -----------------------------
EXTENDS Staking, TLC

CONSTANTS alice, bob, upgrader, treasury

\* Two tables that differ in what they offer, and one an authority mistypes.
MCTables ==
  {[tiers |-> <<0, 2, 4>>, days |-> <<1, 2>>, multiplier |-> <<100, 200>>],
   [tiers |-> <<0, 3, 4>>, days |-> <<1, 3>>, multiplier |-> <<100, 150>>],
   [tiers |-> <<0, 1, 2>>, days |-> <<1, 2>>, multiplier |-> <<50, 100>>]}
=============================================================================
