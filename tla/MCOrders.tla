------------------------------ MODULE MCOrders ------------------------------
EXTENDS Orders

CONSTANTS amm, token_program

\* Two schedules with roundings of their own, and one above the caps.
MCFees ==
  {[cancel |-> 1, buy |-> 3, sell |-> 2, keeper |-> 5],
   [cancel |-> 0, buy |-> 1, sell |-> 3, keeper |-> 2],
   [cancel |-> 9, buy |-> 9, sell |-> 9, keeper |-> 9]}

AnyAccounts == [payment : SUBSET {"open", "frozen"}, launch : BOOLEAN]

\* Bound: where an account is missing or frozen, small orders and one schedule will do.
AccountsInOrder == feeAccounts = [payment |-> {"open"}, launch |-> TRUE] /\ frozen = {}
Simple == [cancel |-> 1, buy |-> 3, sell |-> 2, keeper |-> 5]
Small ==
  /\ config # Unset => config.fees = Simple
  /\ \A o \in Orders :
       /\ order[o].fees = Simple /\ order[o].in_total <= 2 /\ deal[o].min_out <= 2
       /\ vault[o].in <= 3 /\ vault[o].out <= 3 /\ deal[o].got <= 3
Bounded == AccountsInOrder \/ Small

\* The closed accounts all begin alike: an order's first fees are never read.
MCInit == Init /\ \A o \in Orders : order[o].fees = Simple
MCSpec == MCInit /\ [][Next]_vars
=============================================================================
