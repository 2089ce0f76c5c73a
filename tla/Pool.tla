-------------------------------- MODULE Pool --------------------------------
(***************************************************************************)
(* The swap pool of one token (program/aretia-pool and its pool-math       *)
(* crate): a constant product over real and virtual reserves, liquidity    *)
(* positions that may be locked, handed on and paid to another wallet, and *)
(* trading fees kept apart from the reserves.                              *)
(*                                                                         *)
(* An instruction happens whole or not at all, so each is one step.  A     *)
(* caller's own limit (min_out, max_tokens, max_sol) can only refuse and   *)
(* is left out, as are the flat creation fee and the mint checks, which no *)
(* state here can change.                                                  *)
(***************************************************************************)
EXTENDS ProgramMath, Integers, FiniteSetsExt

CONSTANTS
  Accounts,     \* wallets
  Ids,          \* position ids: an account's own address, or a fresh key that signs
  BPS, PROTOCOL_SHARE_BPS, ALLOWED_FEE_BPS, MAX_SNIPER_BPS, MAX_DECAY_SECS,
  MIN_TOKENS, MIN_LIQUIDITY, MIN_LIQUIDITY_DELTA, MAX_AMOUNT,
  U64_MAX,      \* the widest amount
  VX_RANGE,     \* 1,000: a virtual token reserve is this near to the deposit, either way
  ACC_ONE,      \* 2^64: one lamport per share, in the accumulator
  ACC_MOD,      \* 2^128: where the accumulator wraps
  Openings,     \* the pools a creator may ask for
  Supply,       \* bound: the tokens there are
  SolSupply,    \* bound: the lamports there are
  MaxGifts,     \* bound: what strangers send to the vaults
  MaxTime       \* bound: the clock

ASSUME BpsAssumption ==
  /\ BPS \in Nat \ {0} /\ PROTOCOL_SHARE_BPS \in 0..BPS
  /\ ALLOWED_FEE_BPS \subseteq 0..BPS /\ MAX_SNIPER_BPS \in 0..BPS
ASSUME LiquidityAssumption ==
  /\ {MIN_TOKENS, MIN_LIQUIDITY, MIN_LIQUIDITY_DELTA, VX_RANGE} \subseteq Nat \ {0}
  /\ MAX_AMOUNT \in Nat /\ U64_MAX \in Nat
ASSUME AccAssumption == ACC_ONE \in Nat \ {0} /\ ACC_MOD \in Nat \ {0}
ASSUME OpeningsAssumption ==
  Openings \subseteq [x0 : Nat, y0 : Nat, l0 : Nat, fee_bps : Nat, vx0 : Nat, sniper_bps : Nat,
                      decay_secs : Nat]
ASSUME BoundsAssumption == {MAX_DECAY_SECS, Supply, SolSupply, MaxGifts, MaxTime} \subseteq Nat

VARIABLES
  pool,       \* the pool's account, or NoPool before it is opened
  pos,        \* pos[i]: the position account at id i; None when there is none
  sol_vault,  \* lamports in the pool's wrapped-SOL vault
  vault,      \* tokens in its token vault
  held,       \* tokens anybody else holds
  sol_held,   \* lamports anybody else holds
  now,
  gifts       \* what strangers sent so far

vars == <<pool, pos, sol_vault, vault, held, sol_held, now, gifts>>

Pool ==
  [x : Nat, vx : Nat, y : Nat, l : Nat, fee_bps : ALLOWED_FEE_BPS, acc : 0..(ACC_MOD - 1),
   fee_reserve : Nat, created_at : Nat, fee_start_bps : Nat, decay_secs : Nat]
NoPool == [x |-> "none"]
IsOpen == pool # NoPool

Position ==
  [owner : Accounts, recipient : Accounts, shares : Nat, locked : Nat,
   checkpoint : 0..(ACC_MOD - 1), pending : Nat]
None == [owner |-> "none"]
Positions == {i \in Ids : pos[i] # None}

-----------------------------------------------------------------------------
(* pool-math.                                                              *)

fee_up(amount, bps) == CeilDiv(amount * bps, BPS)

protocol_part(fee) == (fee * PROTOCOL_SHARE_BPS) \div BPS

\* A launch fee falls in a straight line to the base fee.
effective_fee_bps(p) ==
  LET elapsed == SatSub(now, p.created_at) IN
  IF p.decay_secs = 0 \/ p.fee_start_bps <= p.fee_bps \/ elapsed >= p.decay_secs
    THEN p.fee_bps
    ELSE p.fee_bps + CeilDiv((p.fee_start_bps - p.fee_bps) * (p.decay_secs - elapsed), p.decay_secs)

adding_open(p) == effective_fee_bps(p) = p.fee_bps

schedule_ok(a) ==
  \/ a.sniper_bps = 0 /\ a.decay_secs = 0
  \/ /\ a.decay_secs > 0 /\ a.decay_secs <= MAX_DECAY_SECS
     /\ a.sniper_bps > a.fee_bps /\ a.sniper_bps <= MAX_SNIPER_BPS

\* What open_ranged accepts.
openable(a) ==
  /\ a.vx0 # 0 => /\ a.vx0 <= MAX_AMOUNT
                  /\ a.vx0 * VX_RANGE >= a.x0 /\ a.vx0 <= a.x0 * VX_RANGE
  /\ a.fee_bps \in ALLOWED_FEE_BPS /\ a.x0 >= MIN_TOKENS /\ a.l0 >= MIN_LIQUIDITY
  /\ a.x0 <= MAX_AMOUNT /\ a.y0 <= MAX_AMOUNT /\ a.l0 <= MAX_AMOUNT

big_y(p) == p.y + p.l
big_x(p) == p.x + p.vx
k(p) == big_x(p) * big_y(p)
in_range(p) == big_y(p) <= U64_MAX /\ big_x(p) <= U64_MAX /\ big_x(p) > 0 /\ p.l > 0

LpPart(fee) == fee - protocol_part(fee)

\* Mutant: the accumulator is rounded in the providers' favour.
PerShareUp(p, fee) == CeilDiv(LpPart(fee) * ACC_ONE, p.l)

PerShare(p, fee) == (LpPart(fee) * ACC_ONE) \div p.l

credit(p, fee) ==
  [p EXCEPT !.acc = (@ + PerShare(p, fee)) % ACC_MOD, !.fee_reserve = @ + LpPart(fee)]

\* The fee of either trade, on its SOL leg, at the fee in force now.
TradeFee(p, gross) == AtMost(fee_up(gross, effective_fee_bps(p)), gross)

\* Mutant: the tokens sold stay on the books.
AfterBuyKept(p, net, out, fee) == credit([p EXCEPT !.y = @ + net], fee)

AfterBuy(p, net, out, fee) == credit([p EXCEPT !.x = @ - out, !.y = @ + net], fee)

AfterSell(p, tokens_in, gross, fee) ==
  credit([p EXCEPT !.x = @ + tokens_in, !.y = @ - gross], fee)

\* Mutant: a buy is priced in the buyer's favour.
TokensOutUp(p, net) == big_x(p) - k(p) \div (big_y(p) + net)

TokensOut(p, net) == big_x(p) - CeilDiv(k(p), big_y(p) + net)

SolOut(p, tokens_in) == big_y(p) - CeilDiv(k(p), big_x(p) + tokens_in)

\* Mutant: the depositor keeps the remainder.
AddPartFloor(reserve, dl, l) == (reserve * dl) \div l

\* What add and remove move for dl of liquidity: the pool keeps every remainder.
AddPart(reserve, dl, l) == CeilDiv(reserve * dl, l)
RemovePart(reserve, dl, l) == (reserve * dl) \div l

Added(p, dl) ==
  [p EXCEPT !.x = @ + AddPart(p.x, dl, p.l), !.vx = @ + AddPart(p.vx, dl, p.l),
            !.y = @ + AddPart(p.y, dl, p.l), !.l = @ + dl]

Removed(p, dl) ==
  [p EXCEPT !.x = @ - RemovePart(p.x, dl, p.l), !.vx = @ - RemovePart(p.vx, dl, p.l),
            !.y = @ - RemovePart(p.y, dl, p.l), !.l = @ - dl]

\* What add accepts.
Addable(p, dl) ==
  LET next == Added(p, dl) IN
  /\ in_range(p) /\ dl >= MIN_LIQUIDITY_DELTA
  /\ next.x <= MAX_AMOUNT /\ next.vx <= MAX_AMOUNT /\ next.y <= MAX_AMOUNT /\ next.l <= MAX_AMOUNT
  /\ in_range(next)

\* Mutant: the smallest removal is asked of the last few shares too.
RemovableStrict(p, dl, available) ==
  /\ dl > 0 /\ dl <= p.l /\ p.l - dl >= MIN_LIQUIDITY
  /\ dl >= MIN_LIQUIDITY_DELTA

\* What remove accepts.
Removable(p, dl, available) ==
  /\ dl > 0 /\ dl <= p.l /\ p.l - dl >= MIN_LIQUIDITY
  /\ dl >= MIN_LIQUIDITY_DELTA \/ dl = available

\* wrapping_sub.
Since(acc, checkpoint) == (acc + ACC_MOD - checkpoint) % ACC_MOD

pending_fee(shares, acc, checkpoint) == (shares * Since(acc, checkpoint)) \div ACC_ONE

-----------------------------------------------------------------------------
(* Positions.                                                              *)

\* Mutant: what was settled before is overwritten.
settle_over(q, p) ==
  [q EXCEPT !.pending = pending_fee(q.shares, p.acc, q.checkpoint), !.checkpoint = p.acc]

settle(q, p) ==
  [q EXCEPT !.pending = @ + pending_fee(q.shares, p.acc, q.checkpoint), !.checkpoint = p.acc]

NewPosition(o, acc) ==
  [owner |-> o, recipient |-> o, shares |-> 0, locked |-> 0, checkpoint |-> acc, pending |-> 0]

Unlocked(q) == q.shares - q.locked

\* Mutant: shares are added before the position is settled.
AddSharesFirst(q, dl, p) == settle([q EXCEPT !.shares = @ + dl], p)

AddShares(q, dl, p) == [settle(q, p) EXCEPT !.shares = @ + dl]

\* The wrapped-SOL vault holds the reserve and every unclaimed fee.
require_solvent(lamports, p) == lamports >= p.y + p.fee_reserve

\* Bound: no position is left unsettled for a whole turn of the accumulator, which
\* would take 2^64 lamports of fees on each of its shares.
NoLap(p) ==
  \A i \in Positions :
    Since(pool.acc, pos[i].checkpoint) + Since(p.acc, pool.acc) < ACC_MOD

-----------------------------------------------------------------------------
(* Instructions.                                                           *)

\* Any wallet may be named the owner of the first position, and any id that signs for
\* itself, or is the owner's own address, may be opened: every id, then, by its holder.
create_pool(a, i, o, lock) ==
  /\ ~IsOpen /\ a.x0 <= held /\ a.y0 <= sol_held
  /\ openable(a) /\ schedule_ok(a)
  /\ pool' = [x |-> a.x0, vx |-> a.vx0, y |-> a.y0, l |-> a.l0, fee_bps |-> a.fee_bps, acc |-> 0,
              fee_reserve |-> 0, created_at |-> now, fee_start_bps |-> a.sniper_bps,
              decay_secs |-> a.decay_secs]
  /\ pos' = [pos EXCEPT ![i] = [NewPosition(o, 0) EXCEPT !.shares = a.l0,
                                                        !.locked = IF lock THEN a.l0 ELSE 0]]
  /\ vault' = vault + a.x0 /\ held' = held - a.x0
  /\ sol_vault' = sol_vault + a.y0 /\ sol_held' = sol_held - a.y0
  /\ UNCHANGED <<now, gifts>>

\* amount_in lamports for tokens; Aretia's part of the fee never enters the vault.
swap_buy(amount_in) ==
  LET fee == TradeFee(pool, amount_in)
      net == amount_in - fee
      out == TokensOut(pool, net)
      next == AfterBuy(pool, net, out, fee)
  IN
  /\ IsOpen /\ amount_in \in 1..sol_held
  /\ in_range(pool) /\ net > 0 /\ big_y(pool) + net <= U64_MAX
  /\ out > 0 /\ out < big_x(pool) /\ out <= pool.x
  /\ NoLap(next)
  /\ pool' = next
  /\ sol_vault' = sol_vault + amount_in - protocol_part(fee)
  /\ require_solvent(sol_vault', next)
  /\ sol_held' = sol_held - amount_in + protocol_part(fee)
  /\ vault' = vault - out /\ held' = held + out
  /\ UNCHANGED <<pos, now, gifts>>

\* amount_in tokens for lamports; refused when it would pay out more than came in.
swap_sell(amount_in) ==
  LET gross == SolOut(pool, amount_in)
      fee == TradeFee(pool, gross)
      next == AfterSell(pool, amount_in, gross, fee)
  IN
  /\ IsOpen /\ amount_in \in 1..held
  /\ in_range(pool) /\ big_x(pool) + amount_in <= U64_MAX
  /\ gross > 0 /\ gross <= pool.y
  /\ NoLap(next)
  /\ pool' = next
  /\ gross - LpPart(fee) <= sol_vault
  /\ sol_vault' = sol_vault - (gross - LpPart(fee))
  /\ require_solvent(sol_vault', next)
  /\ sol_held' = sol_held + gross - LpPart(fee)
  /\ vault' = vault + amount_in /\ held' = held - amount_in
  /\ UNCHANGED <<pos, now, gifts>>

\* The position at id i as add_liquidity finds it, or opens it for o.
Opened(i, o) == IF pos[i] = None THEN NewPosition(o, pool.acc) ELSE pos[i]

add_liquidity(i, o, dl) ==
  LET next == Added(pool, dl)
      q == Opened(i, o)
  IN
  /\ IsOpen /\ adding_open(pool)
  /\ q.owner = o
  /\ Addable(pool, dl)
  /\ next.x - pool.x <= held /\ next.y - pool.y <= sol_held
  /\ pool' = next
  /\ pos' = [pos EXCEPT ![i] = AddShares(q, dl, pool)]
  /\ vault' = vault + (next.x - pool.x) /\ held' = held - (next.x - pool.x)
  /\ sol_vault' = sol_vault + (next.y - pool.y) /\ sol_held' = sol_held - (next.y - pool.y)
  /\ require_solvent(sol_vault', next)
  /\ UNCHANGED <<now, gifts>>

MayRemove(i, dl) ==
  LET next == Removed(pool, dl)
      available == Unlocked(settle(pos[i], pool))
  IN
  /\ pos[i] # None /\ dl <= available
  /\ Removable(pool, dl, available)
  /\ pool.x - next.x <= vault /\ pool.y - next.y <= sol_vault
  /\ require_solvent(sol_vault - (pool.y - next.y), next)

remove_liquidity(i, dl) ==
  LET next == Removed(pool, dl) IN
  /\ MayRemove(i, dl)
  /\ pool' = next
  /\ pos' = [pos EXCEPT ![i] = [settle(pos[i], pool) EXCEPT !.shares = @ - dl]]
  /\ vault' = vault - (pool.x - next.x) /\ held' = held + (pool.x - next.x)
  /\ sol_vault' = sol_vault - (pool.y - next.y) /\ sol_held' = sol_held + (pool.y - next.y)
  /\ UNCHANGED <<now, gifts>>

\* The pool once `amount` of its fees has left.
Claimed(amount) == [pool EXCEPT !.fee_reserve = @ - amount]

MayClaim(i) ==
  LET amount == settle(pos[i], pool).pending IN
  /\ pos[i] # None /\ amount > 0 /\ amount <= pool.fee_reserve
  /\ amount <= sol_vault /\ require_solvent(sol_vault - amount, Claimed(amount))

claim_fees(i) ==
  LET amount == settle(pos[i], pool).pending IN
  /\ MayClaim(i)
  /\ pool' = Claimed(amount)
  /\ pos' = [pos EXCEPT ![i] = [settle(@, pool) EXCEPT !.pending = 0]]
  /\ sol_vault' = sol_vault - amount /\ sol_held' = sol_held + amount
  /\ UNCHANGED <<vault, held, now, gifts>>

\* The whole position goes, and with it where its fees are paid.  A wallet that nobody
\* can sign for (the default key, the pool itself) is refused and not in Accounts.
transfer_position(i, new_owner) ==
  /\ pos[i] # None
  /\ pos' = [pos EXCEPT ![i] = [settle(@, pool) EXCEPT !.owner = new_owner, !.recipient = new_owner]]
  /\ UNCHANGED <<pool, sol_vault, vault, held, sol_held, now, gifts>>

set_recipient(i, recipient) ==
  /\ pos[i] # None
  /\ pos' = [pos EXCEPT ![i].recipient = recipient]
  /\ UNCHANGED <<pool, sol_vault, vault, held, sol_held, now, gifts>>

lock_liquidity(i, amount) ==
  /\ pos[i] # None /\ amount > 0 /\ pos[i].locked + amount <= pos[i].shares
  /\ pos' = [pos EXCEPT ![i].locked = @ + amount]
  /\ UNCHANGED <<pool, sol_vault, vault, held, sol_held, now, gifts>>

-----------------------------------------------------------------------------
(* What others do.                                                         *)

Gift ==
  /\ gifts < MaxGifts /\ gifts' = gifts + 1
  /\ \/ /\ sol_held > 0 /\ sol_held' = sol_held - 1 /\ sol_vault' = sol_vault + 1
        /\ UNCHANGED <<vault, held>>
     \/ /\ held > 0 /\ held' = held - 1 /\ vault' = vault + 1
        /\ UNCHANGED <<sol_vault, sol_held>>
  /\ UNCHANGED <<pool, pos, now>>

Tick ==
  /\ now < MaxTime /\ now' = now + 1
  /\ UNCHANGED <<pool, pos, sol_vault, vault, held, sol_held, gifts>>

-----------------------------------------------------------------------------

Init ==
  /\ pool = NoPool /\ pos = [i \in Ids |-> None]
  /\ sol_vault = 0 /\ vault = 0 /\ held = Supply /\ sol_held = SolSupply
  /\ now = 0 /\ gifts = 0

Next ==
  \/ \E a \in Openings, i \in Ids, o \in Accounts, lock \in BOOLEAN : create_pool(a, i, o, lock)
  \/ \E amount_in \in 1..SolSupply : swap_buy(amount_in)
  \/ \E amount_in \in 1..Supply : swap_sell(amount_in)
  \/ \E i \in Ids, o \in Accounts, dl \in 1..MAX_AMOUNT : add_liquidity(i, o, dl)
  \/ \E i \in Ids, dl \in 1..MAX_AMOUNT : remove_liquidity(i, dl)
  \/ \E i \in Ids : claim_fees(i)
  \/ \E i \in Ids, a \in Accounts : transfer_position(i, a)
  \/ \E i \in Ids, a \in Accounts : set_recipient(i, a)
  \/ \E i \in Ids, amount \in 1..MAX_AMOUNT : lock_liquidity(i, amount)
  \/ Gift
  \/ Tick

Spec == Init /\ [][Next]_vars

-----------------------------------------------------------------------------
(* Properties                                                              *)

\* Every variable stays within its type, and no position has more shares locked than it has.
TypeOK ==
  /\ pool \in Pool \cup {NoPool} /\ pos \in [Ids -> Position \cup {None}]
  /\ sol_vault \in Nat /\ vault \in Nat /\ held \in Nat /\ sol_held \in Nat
  /\ now \in 0..MaxTime /\ gifts \in 0..MaxGifts
  /\ IsOpen => pool.l >= MIN_LIQUIDITY /\ big_x(pool) > 0
  /\ ~IsOpen => Positions = {}
  /\ \A i \in Positions : pos[i].locked <= pos[i].shares

\* The vaults hold both real reserves and every fee not claimed (require_solvent checks
\* the SOL side; nothing in the program checks the tokens).
Backed ==
  IsOpen => sol_vault >= pool.y + pool.fee_reserve /\ vault >= pool.x

Owed(i) == pos[i].pending + pending_fee(pos[i].shares, pool.acc, pos[i].checkpoint)

Shares(i) == pos[i].shares

\* The positions are what the pool takes them for: their shares add up to its liquidity,
\* and its fee reserve covers all they may claim, however credits and settlements were
\* rounded and wherever the accumulator wrapped.  The last to claim is paid in full.
PositionsCovered ==
  IsOpen => /\ MapThenSumSet(Shares, Positions) = pool.l
            /\ MapThenSumSet(Owed, Positions) <= pool.fee_reserve

\* A position's fees are its own: whatever anyone trades, adds, removes or hands on, what
\* it may claim never falls but by its owner claiming it.
FeesKept ==
  [][\A i \in Positions : pos'[i] # None /\ (Owed(i)' >= Owed(i) \/ claim_fees(i))]_vars

\* Neither trading nor a change of liquidity takes value from a share: X*Y over l^2 never
\* falls (pool-math's "the pool keeps the remainder").
ValuePerShareKept ==
  [][IsOpen => k(pool') * pool.l * pool.l >= k(pool) * pool'.l * pool'.l]_vars

\* A position can always take out all its unlocked shares, unless that would leave the
\* pool below its floor, and can always claim what it is owed.  (Both instructions are
\* the guard named here and assignments, so this is when they are enabled.)
CanLeave ==
  \A i \in Positions :
    /\ Unlocked(pos[i]) > 0 /\ pool.l - Unlocked(pos[i]) >= MIN_LIQUIDITY =>
         MayRemove(i, Unlocked(pos[i]))
    /\ Owed(i) > 0 => MayClaim(i)
=============================================================================
