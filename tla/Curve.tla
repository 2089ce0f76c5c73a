------------------------------- MODULE Curve -------------------------------
(***************************************************************************)
(* The bonding curve of one launched token (program/aretia-curve and its   *)
(* curve-math crate).  Anyone buys and sells against a constant product of *)
(* virtual reserves until the last token is sold; the raise then moves     *)
(* into a Meteora pool, or, when it cannot, holders sell back.             *)
(*                                                                         *)
(* An instruction happens whole or not at all, so each is one step.  A     *)
(* trader's own limit (min_tokens_out, min_lamports_out) can only refuse a *)
(* trade and is left out.  Amounts stay below the supplies of SOL and of   *)
(* the token, so nothing computed in u128 overflows.                       *)
(***************************************************************************)
EXTENDS ProgramMath, Integers

CONSTANTS
  BPS,                                  \* 10,000
  FEE_BPS,                              \* 58
  V_SOL_NUM, V_SOL_DEN,                 \* 6 and 17
  MIN_TARGET_LAMPORTS, MAX_TARGET_LAMPORTS,
  ABORT_AFTER_SECS,                     \* seven days
  MIGRATION_DUST_BPS,                   \* 10
  Supply,                               \* the token's fixed supply
  Rents,                                \* what a vault's rent may be, over time
  MaxTarget,                            \* bound: the target asked for
  MaxOffer,                             \* bound: the offer of one buy
  MaxGifts,                             \* bound: what strangers send
  MaxTime                               \* bound: the clock

ASSUME FeeAssumption == BPS \in Nat \ {0} /\ FEE_BPS \in 0..(BPS - 1) /\ MIGRATION_DUST_BPS \in 0..BPS
ASSUME ShapeAssumption == {V_SOL_NUM, V_SOL_DEN} \subseteq Nat \ {0} /\ MIN_TARGET_LAMPORTS \in Nat \ {0}
ASSUME BoundsAssumption ==
  /\ {MAX_TARGET_LAMPORTS, ABORT_AFTER_SECS, Supply, MaxTarget, MaxOffer, MaxGifts, MaxTime} \subseteq Nat
  /\ Rents \subseteq Nat

VARIABLES
  status,       \* the curve's Status, or "none" before it is created
  start,        \* what derive fixed at creation, and the rent the creator paid
  curve,        \* the four live numbers
  sold_out_at,
  sol_vault,    \* lamports in the curve's SOL vault
  vault,        \* tokens in the curve's token vault
  held,         \* tokens anybody else holds
  migrator,     \* what the migrator's two accounts hold
  pool,         \* what the Meteora pool took at migration
  pool_taken,   \* does a pool exist at the one address migrate can use?
  pool_fees,    \* fees the locked position has earned
  rent,         \* Rent::minimum_balance now
  now,
  gifts         \* what strangers sent so far

Trade == <<status, curve, sold_out_at, sol_vault, vault, held>>
Around == <<migrator, pool, pool_taken, pool_fees, rent, now, gifts>>
vars == <<start, Trade, Around>>

Statuses == {"none", "Trading", "SoldOut", "Migrated", "Aborted"}
Selling == status \in {"Trading", "Aborted"}
Open == status \in {"Trading", "SoldOut", "Aborted"}

Reserves == [v_sol : Nat, v_tok : Nat, real_sol : Nat, real_tok : Nat]
Derived == [v_sol0 : Nat, v_tok0 : Nat, curve_tokens : Nat, lp_tokens : Nat, paid : Nat]

-----------------------------------------------------------------------------
(* curve-math.                                                             *)

derive(total_tokens, s) ==
  LET v0 == (s * V_SOL_NUM) \div V_SOL_DEN
      lp == (total_tokens * v0) \div (2 * v0 + s)
      c == total_tokens - lp
  IN  [v_sol0 |-> v0, v_tok0 |-> CeilDiv((v0 + s) * c, s), curve_tokens |-> c, lp_tokens |-> lp]

\* What derive accepts (a total above MAX_TOTAL_TOKENS is more than Supply and never asked for).
derivable(s, d) ==
  /\ s >= MIN_TARGET_LAMPORTS /\ s <= MAX_TARGET_LAMPORTS
  /\ d.v_sol0 > 0 /\ d.lp_tokens > 0 /\ d.curve_tokens > 0 /\ d.v_tok0 > d.curve_tokens

fee_up(amount) == CeilDiv(amount * FEE_BPS, BPS)

k(c) == c.v_sol * c.v_tok

Net(gross) == gross - AtMost(fee_up(gross), gross)

\* What an offer of `gross` would buy of an endless curve.
Uncut(c, gross) == c.v_tok - CeilDiv(k(c), c.v_sol + Net(gross))

TakesAll(c, gross) == Uncut(c, gross) >= c.real_tok

\* Mutant: the last buy is priced rounding down.
CutNetFloor(c) == k(c) \div (c.v_tok - c.real_tok) - c.v_sol

\* The last buy is cut to what is left and priced backwards, rounding up.
CutNet(c) == CeilDiv(k(c), c.v_tok - c.real_tok) - c.v_sol

\* Mutant: one lamport to be safe.
CutGrossMore(net) == CeilDiv(net * BPS, BPS - FEE_BPS) + 1

CutGross(net) == CeilDiv(net * BPS, BPS - FEE_BPS)

BuyOf(c, gross) ==
  IF TakesAll(c, gross)
    THEN [gross |-> CutGross(CutNet(c)), net |-> CutNet(c), tokens_out |-> c.real_tok]
    ELSE [gross |-> gross, net |-> Net(gross), tokens_out |-> Uncut(c, gross)]

\* What buy accepts.
Buys(c, gross) ==
  LET b == BuyOf(c, gross) IN
  /\ gross > 0 /\ Net(gross) > 0 /\ c.real_tok > 0
  /\ TakesAll(c, gross) => c.v_tok # c.real_tok
  /\ b.tokens_out > 0 /\ b.gross <= gross

AfterBuy(c, b) ==
  [v_sol |-> c.v_sol + b.net, v_tok |-> c.v_tok - b.tokens_out,
   real_sol |-> c.real_sol + b.net, real_tok |-> c.real_tok - b.tokens_out]

SellGross(c, tokens_in) == c.v_sol - CeilDiv(k(c), c.v_tok + tokens_in)

\* A sale that would pay nothing, the fee taken, is refused.
Dust(gross) == gross = AtMost(fee_up(gross), gross)

AfterSell(c, tokens_in) ==
  LET gross == SellGross(c, tokens_in) IN
  [v_sol |-> c.v_sol - gross, v_tok |-> c.v_tok + tokens_in,
   real_sol |-> c.real_sol - gross, real_tok |-> c.real_tok + tokens_in]

migration_consumed_enough(reserved, left_over) == left_over * BPS <= reserved * MIGRATION_DUST_BPS

-----------------------------------------------------------------------------
(* The vault.                                                              *)

\* Mutant: the rent of today.
rent_floor_now(rent_now, surplus_before) == rent_now

vault_rent_floor(rent_now, surplus_before) == AtMost(rent_now, surplus_before)

vault_surplus == SatSub(sol_vault, curve.real_sol)

\* At the end of an instruction that leaves `lamports` in the vault.
require_solvent(lamports, real_sol, surplus_before) ==
  lamports >= vault_rent_floor(rent, surplus_before) + real_sol

-----------------------------------------------------------------------------
(* Instructions.                                                           *)

\* The creator hands over tokens, pays the SOL vault's rent, and the split is fixed.
create_curve(total_tokens, target) ==
  LET d == derive(total_tokens, target) IN
  /\ status = "none" /\ total_tokens <= held
  /\ total_tokens > 0 /\ target > 0 /\ derivable(target, d)
  /\ start' = [v_sol0 |-> d.v_sol0, v_tok0 |-> d.v_tok0, curve_tokens |-> d.curve_tokens,
               lp_tokens |-> d.lp_tokens, paid |-> rent]
  /\ curve' = [v_sol |-> d.v_sol0, v_tok |-> d.v_tok0, real_sol |-> 0, real_tok |-> d.curve_tokens]
  /\ status' = "Trading"
  /\ sol_vault' = sol_vault + rent
  /\ vault' = vault + total_tokens /\ held' = held - total_tokens
  /\ UNCHANGED <<sold_out_at, Around>>

MayBuy(gross_in) ==
  LET b == BuyOf(curve, gross_in) IN
  /\ status = "Trading" /\ Buys(curve, gross_in)
  /\ require_solvent(sol_vault + b.net, AfterBuy(curve, b).real_sol, vault_surplus)
  /\ b.tokens_out <= vault

buy(gross_in) ==
  LET b == BuyOf(curve, gross_in)
      next == AfterBuy(curve, b)
  IN
  /\ MayBuy(gross_in)
  /\ curve' = next
  /\ IF next.real_tok = 0 THEN status' = "SoldOut" /\ sold_out_at' = now
                          ELSE UNCHANGED <<status, sold_out_at>>
  /\ sol_vault' = sol_vault + b.net
  /\ vault' = vault - b.tokens_out /\ held' = held + b.tokens_out
  /\ UNCHANGED <<start, Around>>

MaySell(tokens_in) ==
  LET gross == SellGross(curve, tokens_in) IN
  /\ Selling
  /\ tokens_in > 0 /\ tokens_in <= held
  /\ curve.real_tok + tokens_in <= start.curve_tokens
  /\ gross >= 0 /\ gross <= curve.real_sol /\ ~Dust(gross)
  /\ gross <= sol_vault
  /\ require_solvent(sol_vault - gross, curve.real_sol - gross, vault_surplus)

\* The seller is paid gross less the fee, the fee wallet the fee.
sell(tokens_in) ==
  /\ MaySell(tokens_in)
  /\ curve' = AfterSell(curve, tokens_in)
  /\ sol_vault' = sol_vault - SellGross(curve, tokens_in)
  /\ vault' = vault + tokens_in /\ held' = held - tokens_in
  /\ UNCHANGED <<start, status, sold_out_at, Around>>

MayMigrate(tok_taken, sol_taken) ==
  /\ status = "SoldOut" /\ curve.real_tok = 0
  /\ ~pool_taken
  /\ curve.real_sol <= sol_vault /\ start.lp_tokens <= vault
  /\ require_solvent(sol_vault - curve.real_sol, 0, vault_surplus)
  /\ tok_taken <= start.lp_tokens /\ sol_taken <= curve.real_sol
  /\ migration_consumed_enough(start.lp_tokens, start.lp_tokens - tok_taken)
  /\ migration_consumed_enough(curve.real_sol, curve.real_sol - sol_taken)

\* The raise and the pool tokens pass through the migrator's accounts; the pool takes
\* what the caller's price makes it take, and nothing that was there before.
migrate(tok_taken, sol_taken) ==
  /\ MayMigrate(tok_taken, sol_taken)
  /\ status' = "Migrated" /\ curve' = [curve EXCEPT !.real_sol = 0]
  /\ sol_vault' = sol_vault - curve.real_sol /\ vault' = vault - start.lp_tokens
  /\ migrator' = [tok |-> migrator.tok + start.lp_tokens - tok_taken,
                  wsol |-> migrator.wsol + curve.real_sol - sol_taken]
  /\ pool' = [tok |-> tok_taken, sol |-> sol_taken]
  /\ pool_taken' = TRUE
  /\ UNCHANGED <<start, sold_out_at, held, pool_fees, rent, now, gifts>>

\* Mutant: the wait applies whatever happened to the pool's address.
MayAbortLater == status = "SoldOut" /\ now >= sold_out_at + ABORT_AFTER_SECS

MayAbort ==
  /\ status = "SoldOut"
  /\ pool_taken \/ now >= sold_out_at + ABORT_AFTER_SECS

abort_migration ==
  /\ MayAbort
  /\ status' = "Aborted"
  /\ UNCHANGED <<start, curve, sold_out_at, sol_vault, vault, held, Around>>

\* What the position earned passes through the migrator to the fee wallet.
claim_pool_fees ==
  /\ status = "Migrated" /\ pool_fees > 0
  /\ pool_fees' = 0
  /\ UNCHANGED <<start, Trade, migrator, pool, pool_taken, rent, now, gifts>>

-----------------------------------------------------------------------------
(* What others do.                                                         *)

\* Someone else opens the pool of this token first.
OpenPool ==
  /\ ~pool_taken /\ pool_taken' = TRUE
  /\ UNCHANGED <<start, Trade, migrator, pool, pool_fees, rent, now, gifts>>

PoolEarns ==
  /\ status = "Migrated" /\ pool_fees = 0 /\ pool_fees' = 1
  /\ UNCHANGED <<start, Trade, migrator, pool, pool_taken, rent, now, gifts>>

Gift ==
  /\ gifts < MaxGifts /\ gifts' = gifts + 1
  /\ \/ sol_vault' = sol_vault + 1 /\ UNCHANGED <<vault, held, migrator>>
     \/ held > 0 /\ held' = held - 1 /\ vault' = vault + 1 /\ UNCHANGED <<sol_vault, migrator>>
     \/ migrator' = [migrator EXCEPT !.wsol = @ + 1] /\ UNCHANGED <<sol_vault, vault, held>>
  /\ UNCHANGED <<start, status, curve, sold_out_at, pool, pool_taken, pool_fees, rent, now>>

SetRent(r) ==
  /\ rent' = r
  /\ UNCHANGED <<start, Trade, migrator, pool, pool_taken, pool_fees, now, gifts>>

Tick ==
  /\ now < MaxTime /\ now' = now + 1
  /\ UNCHANGED <<start, Trade, migrator, pool, pool_taken, pool_fees, rent, gifts>>

-----------------------------------------------------------------------------

Zero == [v_sol |-> 0, v_tok |-> 0, real_sol |-> 0, real_tok |-> 0]

Init ==
  /\ status = "none" /\ sold_out_at = 0
  /\ start = [v_sol0 |-> 0, v_tok0 |-> 0, curve_tokens |-> 0, lp_tokens |-> 0, paid |-> 0]
  /\ curve = Zero
  /\ sol_vault = 0 /\ vault = 0 /\ held = Supply
  /\ migrator = [tok |-> 0, wsol |-> 0] /\ pool = [tok |-> 0, sol |-> 0]
  /\ pool_taken = FALSE /\ pool_fees = 0
  /\ rent \in Rents /\ now = 0 /\ gifts = 0

Next ==
  \/ \E total_tokens \in 0..Supply, target \in 0..MaxTarget : create_curve(total_tokens, target)
  \/ \E gross_in \in 0..MaxOffer : buy(gross_in)
  \/ \E tokens_in \in 0..Supply : sell(tokens_in)
  \/ \E tok_taken \in 0..start.lp_tokens, sol_taken \in 0..curve.real_sol : migrate(tok_taken, sol_taken)
  \/ abort_migration \/ claim_pool_fees
  \/ OpenPool \/ PoolEarns \/ Gift \/ (\E r \in Rents : SetRent(r)) \/ Tick

Spec == Init /\ [][Next]_vars

-----------------------------------------------------------------------------
(* Properties                                                              *)

\* Every variable stays within its type.
TypeOK ==
  /\ status \in Statuses /\ start \in Derived /\ curve \in Reserves
  /\ sold_out_at \in Nat /\ sol_vault \in Nat /\ vault \in Nat /\ held \in Nat
  /\ migrator \in [tok : Nat, wsol : Nat] /\ pool \in [tok : Nat, sol : Nat]
  /\ pool_taken \in BOOLEAN /\ pool_fees \in 0..1
  /\ rent \in Rents /\ now \in 0..MaxTime /\ gifts \in 0..MaxGifts

\* Until the raise has moved, the vaults hold all the curve owes, the tokens of the pool
\* and the rent once paid; virtual and real reserves stay the same distance apart; and a
\* curve is sold out exactly when nothing is left on it.
Backed ==
  Open =>
    /\ sol_vault >= curve.real_sol + start.paid
    /\ vault >= curve.real_tok + start.lp_tokens
    /\ curve.v_sol = curve.real_sol + start.v_sol0
    /\ status = "Trading" => curve.real_tok > 0
    /\ status = "SoldOut" => curve.real_tok = 0

\* However trades were rounded, whatever holders bring back of what the curve sold is
\* priced at no more than the SOL the curve owes (curve-math: "a seller can never be paid
\* more than the vault holds").
NeverShort ==
  Open => \A tokens_in \in 1..(start.curve_tokens - curve.real_tok) :
            SellGross(curve, tokens_in) \in 0..curve.real_sol

\* No trade lowers the product: neither rounding nor the cut of the last buy gives away
\* any of what the others hold.
ProductKept == [][status # "none" => k(curve') >= k(curve)]_vars

\* The buy that would take more than is left is never refused, neither for its cut nor by
\* the vaults: any offer large enough sells the curve out.
LastBuyAccepted ==
  status = "Trading" =>
    \A gross \in 1..MaxOffer : TakesAll(curve, gross) => MayBuy(gross)

\* A sale is refused for nothing but dust: not for lack of SOL, and not by the solvency
\* check, whatever rent has become since the vault was opened.
CanSell ==
  Selling => \A tokens_in \in 1..AtMost(held, start.curve_tokens - curve.real_tok) :
               Dust(SellGross(curve, tokens_in)) \/ MaySell(tokens_in)

\* A sold-out curve is not stuck: it can migrate, or be unwound at once.
NoDeadEnd ==
  status = "SoldOut" =>
    (\E tok \in 0..start.lp_tokens, sol \in 0..curve.real_sol : MayMigrate(tok, sol)) \/ MayAbort

\* Nobody's tokens are ever stuck with the curve: before it is sold out, and after a
\* migration that failed, they can be sold; in between there is a way on.  (Each
\* instruction is its guard May... and assignments, so this is when it is enabled.)
WayOut == CanSell /\ NoDeadEnd

\* What migrated is in the pool: all but a sliver of the whole raise and of the tokens
\* set aside, whatever strangers had sent to the accounts on the way.
PoolGotTheRaise ==
  status = "Migrated" =>
    /\ pool.tok * BPS >= start.lp_tokens * (BPS - MIGRATION_DUST_BPS)
    /\ pool.sol * BPS >= (curve.v_sol - start.v_sol0) * (BPS - MIGRATION_DUST_BPS)
=============================================================================
