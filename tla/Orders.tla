------------------------------- MODULE Orders -------------------------------
(***************************************************************************)
(* The limit order program (program/aretia-orders).  An owner escrows what *)
(* they pay with; anyone may fill a slice of it through a venue the admin  *)
(* listed; the program measures what the venue left behind and accepts the *)
(* fill or undoes it.  An instruction happens whole or not at all, so each *)
(* is one step, and a refused one is no step.                              *)
(*                                                                         *)
(* A buy's escrow (`in`) is the payment asset and its output (`out`) the   *)
(* launch token; a sell's are the other way round.  Accounts the handlers  *)
(* pin by address, and the mint checks of create_order, which no state     *)
(* here can change, are left out.  The owner's own two token accounts are  *)
(* taken to be there: who signs the cancel can open them in it.            *)
(***************************************************************************)
EXTENDS ProgramMath, Integers, FiniteSets

CONSTANTS
  Orders,       \* order addresses, one per owner and nonce
  Programs,     \* the programs an admin may list as venues
  Forbidden,    \* is_forbidden_venue: token programs, loaders, this program
  MAX_VENUES,
  BPS,          \* 10,000
  MAX_CANCEL_FEE_BPS, MAX_BUY_FEE_BPS, MAX_SELL_FEE_BPS, MAX_KEEPER_SHARE_BPS,
  SLICES,       \* 20: a slice is at least this part of the order
  Fees,         \* the fees an admin may ask for
  Minimums,     \* the minimum amounts an admin may set
  FeeAccounts,  \* bound: what token accounts the fee wallet may have
  Freezable,    \* bound: the payment accounts of an order an issuer may freeze
  MaxAmount,    \* bound: an amount escrowed or asked for
  MaxVault,     \* bound: what a venue may leave in a vault
  MaxStray      \* bound: what strangers send to the vaults of one order

ASSUME FeesAssumption ==
  Fees \subseteq [cancel : Nat, buy : Nat, sell : Nat, keeper : Nat]
ASSUME AccountsAssumption ==
  /\ FeeAccounts \subseteq [payment : SUBSET {"open", "frozen"}, launch : BOOLEAN]
  /\ Freezable \subseteq {"escrow", "owner"}
ASSUME CapsAssumption ==
  /\ BPS \in Nat \ {0} /\ SLICES \in Nat
  /\ MAX_CANCEL_FEE_BPS \in 0..BPS /\ MAX_BUY_FEE_BPS \in 0..BPS
  /\ MAX_SELL_FEE_BPS \in 0..BPS /\ MAX_KEEPER_SHARE_BPS \in 0..BPS
ASSUME BoundsAssumption == Minimums \subseteq Nat /\ {MaxAmount, MaxVault, MaxStray} \subseteq Nat

VARIABLES
  config,     \* Config, or Unset
  asset,      \* the payment asset's listing
  feeAccounts, \* the fee wallet's accounts for the two assets: a payment one may be frozen
  frozen,     \* the payment accounts of orders, the order's own or its owner's, that are frozen
  order,      \* order[o]: the order's account; a closed one keeps its last values here
  vault,      \* vault[o]: what the order's two vaults hold
  deal        \* deal[o]: what was agreed and what happened, for the properties alone

vars == <<config, asset, feeAccounts, frozen, order, vault, deal>>

Config == [fees : Fees, paused : BOOLEAN, venues : SUBSET (Programs \ Forbidden)]
Unset == [fees |-> "none"]

Asset == [min_amount : Nat, enabled : BOOLEAN]

Sides == {"buy", "sell"}
Order ==
  [status : {"open", "closed"}, side : Sides, fees : Fees, in_total : Nat, in_remaining : Nat,
   min_out_remaining : Nat, fee_base_cum : Nat, fee_paid : Nat]

\* What was agreed (min_out, the fees on the day), what the owner received of the
\* output, what a cancel cost, and what strangers sent to the vaults.
Deal ==
  [min_out : Nat, fees : Fees, got : Nat, cancel_fee : Nat, stray_in : Nat, stray_out : Nat]

-----------------------------------------------------------------------------
(* Arithmetic.                                                             *)

fee_ceil(amount, bps) == CeilDiv(amount * bps, BPS)

share_floor(amount, bps) == (amount * bps) \div BPS

\* Mutant: rounded in the keeper's favour.
required_floor(slice, in_remaining, min_out_remaining) ==
  IF slice = in_remaining THEN min_out_remaining
  ELSE (slice * min_out_remaining) \div in_remaining

\* What a slice of what is left owes the owner.
required_out(slice, in_remaining, min_out_remaining) ==
  IF slice = in_remaining THEN min_out_remaining
  ELSE CeilDiv(slice * min_out_remaining, in_remaining)

slice_allowed(slice, in_remaining, in_total) ==
  /\ slice > 0 /\ slice <= in_remaining
  /\ slice = in_remaining \/ slice * SLICES >= in_total

FeeBps(r) == IF r.side = "buy" THEN r.fees.buy ELSE r.fees.sell

\* Mutant: every slice is charged on its own.
FeeOfSlice(r, base) == fee_ceil(base, FeeBps(r))

\* The fee on `base` more: the ceiling of the whole so far, less what was paid.
FeeDue(r, base) == SatSub(fee_ceil(r.fee_base_cum + base, FeeBps(r)), r.fee_paid)

\* Mutant: a buy's fee comes on top of its slice.
SwapWhole(slice, buy_fee) == slice

\* What the venue must spend: a buy's fee is part of its slice.
SwapIn(slice, buy_fee) == slice - buy_fee

-----------------------------------------------------------------------------
(* The admin's instructions.                                               *)

check_fees(f) ==
  /\ f.cancel <= MAX_CANCEL_FEE_BPS /\ f.buy <= MAX_BUY_FEE_BPS
  /\ f.sell <= MAX_SELL_FEE_BPS /\ f.keeper <= MAX_KEEPER_SHARE_BPS

\* `accounts` are those of the fee wallet named.
initialize_config(f, accounts) ==
  /\ config = Unset /\ check_fees(f)
  /\ config' = [fees |-> f, paused |-> FALSE, venues |-> {}]
  /\ feeAccounts' = accounts
  /\ UNCHANGED <<asset, frozen, order, vault, deal>>

update_config(f, paused, accounts) ==
  /\ config # Unset /\ check_fees(f)
  /\ config' = [config EXCEPT !.fees = f, !.paused = paused]
  /\ feeAccounts' = accounts
  /\ UNCHANGED <<asset, frozen, order, vault, deal>>

set_venues(venues) ==
  /\ config # Unset
  /\ Cardinality(venues) <= MAX_VENUES /\ venues \cap Forbidden = {}
  /\ config' = [config EXCEPT !.venues = venues]
  /\ UNCHANGED <<asset, feeAccounts, frozen, order, vault, deal>>

set_asset(min_amount, enabled) ==
  /\ config # Unset
  /\ asset' = [min_amount |-> min_amount, enabled |-> enabled]
  /\ UNCHANGED <<config, feeAccounts, frozen, order, vault, deal>>

-----------------------------------------------------------------------------
(* Orders.                                                                 *)

\* A frozen token account neither pays nor receives: `through` passes the order's payment
\* account, `to_owner` of it goes on to the owner's.
PaymentMoves(o, through, to_owner) ==
  /\ through > 0 => <<o, "escrow">> \notin frozen
  /\ to_owner > 0 => <<o, "owner">> \notin frozen

\* The address is free, and the two vaults are new accounts.
create_order(o, side, amount_in, min_out) ==
  /\ config # Unset /\ ~config.paused
  /\ order[o].status = "closed"
  /\ amount_in > 0 /\ min_out > 0
  /\ asset.enabled
  /\ side = "buy" => <<o, "owner">> \notin frozen
  /\ (IF side = "buy" THEN amount_in ELSE min_out) >= asset.min_amount
  /\ order' = [order EXCEPT ![o] =
       [status |-> "open", side |-> side, fees |-> config.fees, in_total |-> amount_in,
        in_remaining |-> amount_in, min_out_remaining |-> min_out,
        fee_base_cum |-> 0, fee_paid |-> 0]]
  /\ vault' = [vault EXCEPT ![o] = [in |-> amount_in, out |-> 0]]
  /\ deal' = [deal EXCEPT ![o] = [min_out |-> min_out, fees |-> config.fees, got |-> 0,
                                  cancel_fee |-> 0, stray_in |-> 0, stray_out |-> 0]]
  /\ frozen' = frozen \ {<<o, "escrow">>}
  /\ UNCHANGED <<config, asset, feeAccounts>>

\* A payment account of the fee wallet is handed in, and takes the fee.
FeeAccountTakes(fee) ==
  /\ feeAccounts.payment # {}
  /\ fee > 0 => "open" \in feeAccounts.payment

Empty == [in |-> 0, out |-> 0]

\* The venue leaves `in_after` and `out_after` in the vaults, and perhaps a vault whose
\* owner, delegate or close authority changed (`tampered`).  A buy's fee leaves before
\* the venue is called, a sell's after.
fill_order(o, venue, slice, in_after, out_after, tampered) ==
  LET r == order[o]
      v == vault[o]
      required == required_out(slice, r.in_remaining, r.min_out_remaining)
      buy_fee == IF r.side = "buy" THEN FeeDue(r, slice) ELSE 0
      received == out_after - v.out
      sell_fee == IF r.side = "buy" THEN 0 ELSE FeeDue(r, received)
      net == received - sell_fee
      keeper_reward == share_floor(net - required, r.fees.keeper)
      remaining == r.in_remaining - slice
      left == IF remaining > 0 THEN 0 ELSE IF r.side = "buy" THEN in_after ELSE v.out
  IN
  /\ config # Unset /\ ~config.paused
  /\ r.status = "open" /\ venue \in config.venues
  /\ slice_allowed(slice, r.in_remaining, r.in_total)
  /\ r.side = "buy" => buy_fee < slice /\ buy_fee <= v.in
  /\ FeeAccountTakes(buy_fee + sell_fee)
  /\ IF r.side = "buy" THEN PaymentMoves(o, slice, left)
     ELSE PaymentMoves(o, received + left, net - keeper_reward + left)
  /\ ~tampered
  /\ v.in - buy_fee - in_after = SwapIn(slice, buy_fee)
  /\ received >= 0 /\ sell_fee <= received /\ net >= required
  /\ order' = [order EXCEPT ![o].in_remaining = remaining,
                            ![o].min_out_remaining = @ - required,
                            ![o].fee_base_cum = @ + (IF r.side = "buy" THEN slice ELSE received),
                            ![o].fee_paid = @ + buy_fee + sell_fee,
                            ![o].status = IF remaining = 0 THEN "closed" ELSE "open"]
  /\ vault' = [vault EXCEPT ![o] = IF remaining = 0 THEN Empty
                                   ELSE [in |-> in_after, out |-> out_after - received]]
  /\ deal' = [deal EXCEPT ![o].got = @ + net - keeper_reward]
  /\ UNCHANGED <<config, asset, feeAccounts, frozen>>

\* The escrow, less `fee`, and all else the vaults hold go to the owner.
Refund(o, fee) ==
  /\ order' = [order EXCEPT ![o].status = "closed"]
  /\ vault' = [vault EXCEPT ![o] = Empty]
  /\ deal' = [deal EXCEPT ![o].cancel_fee = fee]
  /\ UNCHANGED <<config, asset, feeAccounts, frozen>>

\* Mutant: the fee of today.
CancelFeeToday(o) == AtMost(fee_ceil(order[o].in_remaining, config.fees.cancel), order[o].in_remaining)

CancelFee(o) == AtMost(fee_ceil(order[o].in_remaining, order[o].fees.cancel), order[o].in_remaining)

\* What the order's payment account holds: a buy's escrow, or a sell's stray payments.
PaymentIn(o) == IF order[o].side = "buy" THEN vault[o].in ELSE vault[o].out

\* Both cancels name an account of the fee wallet for each asset, also the one they do not
\* use.  A launch token has no freeze authority.
CancelAccounts(o) ==
  /\ config # Unset /\ order[o].status = "open"
  /\ feeAccounts.payment # {} /\ feeAccounts.launch

MayCancel(o) ==
  /\ CancelAccounts(o)
  /\ CancelFee(o) <= vault[o].in
  /\ IF order[o].side = "buy"
       THEN FeeAccountTakes(CancelFee(o)) /\ PaymentMoves(o, PaymentIn(o), PaymentIn(o) - CancelFee(o))
       ELSE PaymentMoves(o, PaymentIn(o), PaymentIn(o))

cancel_order(o) == MayCancel(o) /\ Refund(o, CancelFee(o))

\* Mutant: the waiver answers to the pause.
MayCancelUnpaused(o) ==
  /\ CancelAccounts(o) /\ ~config.paused
  /\ order[o].side = "buy" /\ "frozen" \in feeAccounts.payment
  /\ PaymentMoves(o, PaymentIn(o), PaymentIn(o))

MayCancelFeeFrozen(o) ==
  /\ CancelAccounts(o)
  /\ order[o].side = "buy" /\ "frozen" \in feeAccounts.payment
  /\ PaymentMoves(o, PaymentIn(o), PaymentIn(o))

cancel_order_fee_frozen(o) == MayCancelFeeFrozen(o) /\ Refund(o, 0)

-----------------------------------------------------------------------------
(* What others do.                                                         *)

\* Anyone may send tokens to a vault.
SendToVault(o, stray_in, stray_out) ==
  /\ order[o].status = "open" /\ stray_in + stray_out > 0
  /\ deal[o].stray_in + deal[o].stray_out + stray_in + stray_out <= MaxStray
  /\ vault' = [vault EXCEPT ![o].in = @ + stray_in, ![o].out = @ + stray_out]
  /\ deal' = [deal EXCEPT ![o].stray_in = @ + stray_in, ![o].stray_out = @ + stray_out]
  /\ PaymentMoves(o, IF order[o].side = "buy" THEN stray_in ELSE stray_out, 0)
  /\ UNCHANGED <<config, asset, feeAccounts, frozen, order>>

\* An account of the fee wallet is opened (anyone may), closed, frozen or thawed.
FeeAccountsChange(accounts) ==
  /\ feeAccounts' = accounts
  /\ UNCHANGED <<config, asset, frozen, order, vault, deal>>

\* The issuer of the payment asset freezes an account, or thaws it.
Freeze(o, which) ==
  /\ \/ frozen' = frozen \cup {<<o, which>>}
     \/ frozen' = frozen \ {<<o, which>>}
  /\ UNCHANGED <<config, asset, feeAccounts, order, vault, deal>>

-----------------------------------------------------------------------------

Init ==
  /\ config = Unset
  /\ asset = [min_amount |-> 0, enabled |-> FALSE]
  /\ feeAccounts \in FeeAccounts /\ frozen = {}
  /\ order \in [Orders -> {[status |-> "closed", side |-> "buy", fees |-> f, in_total |-> 0,
                            in_remaining |-> 0, min_out_remaining |-> 0, fee_base_cum |-> 0,
                            fee_paid |-> 0] : f \in Fees}]
  /\ vault = [o \in Orders |-> Empty]
  /\ deal = [o \in Orders |-> [min_out |-> 0, fees |-> order[o].fees, got |-> 0,
                               cancel_fee |-> 0, stray_in |-> 0, stray_out |-> 0]]

Next ==
  \/ \E f \in Fees, accounts \in FeeAccounts :
       initialize_config(f, accounts) \/ \E paused \in BOOLEAN : update_config(f, paused, accounts)
  \/ \E venues \in SUBSET Programs : set_venues(venues)
  \/ \E min_amount \in Minimums, enabled \in BOOLEAN : set_asset(min_amount, enabled)
  \/ \E o \in Orders, side \in Sides, amount_in, min_out \in 0..MaxAmount :
       create_order(o, side, amount_in, min_out)
  \/ \E o \in Orders, venue \in Programs, slice \in 0..MaxAmount,
        in_after, out_after \in 0..MaxVault, tampered \in BOOLEAN :
       fill_order(o, venue, slice, in_after, out_after, tampered)
  \/ \E o \in Orders : cancel_order(o) \/ cancel_order_fee_frozen(o)
  \/ \E o \in Orders, stray_in, stray_out \in 0..1 : SendToVault(o, stray_in, stray_out)
  \/ \E accounts \in FeeAccounts : FeeAccountsChange(accounts)
  \/ \E o \in Orders, which \in Freezable : Freeze(o, which)

Spec == Init /\ [][Next]_vars

-----------------------------------------------------------------------------
(* Properties                                                              *)

\* Every variable stays within its type.
TypeOK ==
  /\ config \in Config \cup {Unset}
  /\ asset \in Asset
  /\ feeAccounts \in FeeAccounts /\ frozen \subseteq Orders \X Freezable
  /\ order \in [Orders -> Order]
  /\ vault \in [Orders -> [in : Nat, out : Nat]]
  /\ deal \in [Orders -> Deal]

\* Whatever venues did, an open order's vaults hold to the unit what is left of its
\* escrow and what strangers sent: a fill takes its slice and nothing else, so the next
\* one, or the cancel, finds its money.  A closed order's vaults hold nothing.
VaultsAccounted ==
  \A o \in Orders :
    IF order[o].status = "closed" THEN vault[o] = Empty
    ELSE /\ vault[o].in = order[o].in_remaining + deal[o].stray_in
         /\ vault[o].out = deal[o].stray_out

\* However an order is sliced, and wherever it stops, the owner has received at least the
\* agreed share of the output for what was spent (math.rs:20, "the rate never drifts").
LimitKept ==
  \A o \in Orders :
    deal[o].got * order[o].in_total
      >= deal[o].min_out * (order[o].in_total - order[o].in_remaining)

\* Slicing never inflates a fee: what was paid is the ceiling of the whole, at the rates
\* of the day the order was made, whatever the admin has set since.
FeesAsAgreed ==
  \A o \in Orders :
    LET r == order[o]  f == deal[o].fees IN
    /\ r.fee_paid = fee_ceil(r.fee_base_cum, IF r.side = "buy" THEN f.buy ELSE f.sell)
    /\ deal[o].cancel_fee <= fee_ceil(r.in_remaining, f.cancel)

\* The owner of an open order can have the rest back, whatever the admin pauses or changes
\* and whatever was filled, if the fee wallet has its two accounts, frozen or not, and no
\* payment would have to pass a frozen account of the order's or the owner's.  (Each cancel
\* is the guard named here and assignments, so this is when one of them is enabled.)
OwnerCanLeave ==
  \A o \in Orders :
    /\ order[o].status = "open"
    /\ feeAccounts.payment # {} /\ feeAccounts.launch
    /\ PaymentIn(o) > 0 => {<<o, "escrow">>, <<o, "owner">>} \cap frozen = {}
    => MayCancel(o) \/ MayCancelFeeFrozen(o)

\* The owner of an open order can always have the rest back (lib.rs:15, "a cancel always
\* works (pauses never block it)").
CancelAlwaysWorks ==
  \A o \in Orders : order[o].status = "open" => MayCancel(o) \/ MayCancelFeeFrozen(o)
=============================================================================
