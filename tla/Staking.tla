------------------------------ MODULE Staking ------------------------------
(***************************************************************************)
(* The ACT staking program (program/act-staking).  Every instruction is    *)
(* one transaction, so one step: it happens whole or not at all.           *)
(*                                                                         *)
(* Amounts are counted in base units and stay below the supply of ACT      *)
(* (10^18), so the program's u64, u128 and i64 arithmetic never overflows. *)
(***************************************************************************)
EXTENDS Integers, Sequences, FiniteSets, FiniteSetsExt, Functions

CONSTANTS
  Owners,            \* wallets that stake
  Keys,              \* keys that can hold the config's authority
  UpgradeAuthority,  \* the program's upgrade authority, one of Keys
  SECONDS_PER_DAY,   \* 86,400, or 2 in a test-fast-clock build
  MAX_DURATION_DAYS, MAX_DURATION_MULTIPLIER,
  Tables,            \* the tables an authority may try to set
  Balance,           \* ACT in each wallet at first
  MaxTime            \* bound: the clock

ASSUME ConstantsAssumption ==
  /\ UpgradeAuthority \in Keys
  /\ SECONDS_PER_DAY \in Nat \ {0}
  /\ MAX_DURATION_DAYS \in Nat /\ MAX_DURATION_MULTIPLIER \in Nat
  /\ Balance \in Nat /\ MaxTime \in Nat
ASSUME OwnersAssumption == IsFiniteSet(Owners)   \* there are finitely many keys
ASSUME TablesAssumption ==
  /\ Tables \subseteq [tiers : Seq(Nat), days : Seq(Nat), multiplier : Seq(Nat)]
  /\ \A t \in Tables : Len(t.tiers) > 0 /\ Len(t.multiplier) = Len(t.days)   \* fixed-size arrays

VARIABLES
  config,      \* StakeConfig, or Unset
  user_stake,  \* user_stake[o]: the position of o, None if o has no account
  vault,       \* ACT in the vault
  wallet,      \* wallet[o]: ACT in o's own account
  now          \* the clock

vars == <<config, user_stake, vault, wallet, now>>

StakeConfig ==
  [authority : Keys, table : Tables, paused : BOOLEAN, total_staked : Nat]
Unset == [authority |-> "nobody"]

UserStake == [amount : Nat, lock_days : Nat, staked_at : Int, unlock_at : Int, tier : Nat]
None == [amount |-> 0, lock_days |-> 0, staked_at |-> 0, unlock_at |-> 0, tier |-> 0]

-----------------------------------------------------------------------------
(* The tables and the tier.                                                *)

validate_tables(t) ==
  /\ t.tiers[1] = 0 /\ \A i \in 2..Len(t.tiers) : t.tiers[i] > t.tiers[i - 1]
  /\ \A i \in DOMAIN t.days :
       /\ t.days[i] \in 1..MAX_DURATION_DAYS
       /\ t.multiplier[i] \in 100..MAX_DURATION_MULTIPLIER
  /\ IsInjective(t.days)

\* The highest tier whose threshold is met; tier 0 has threshold 0.
tier_for_cas(cas, tiers) == Max({i \in DOMAIN tiers : cas >= tiers[i]}) - 1

Multiplier(days, t) ==
  IF \E i \in DOMAIN t.days : t.days[i] = days
    THEN t.multiplier[CHOOSE i \in DOMAIN t.days : t.days[i] = days]
    ELSE 100

effective_tier(amount, lock_days, unlock_at, at, t) ==
  LET multiplier == IF at < unlock_at THEN Multiplier(lock_days, t) ELSE 100
  IN  tier_for_cas((amount * multiplier) \div 100, t.tiers)

-----------------------------------------------------------------------------

Init ==
  /\ config = Unset
  /\ user_stake = [o \in Owners |-> None]
  /\ vault = 0
  /\ wallet = [o \in Owners |-> Balance]
  /\ now = 0

initialize_config(t) ==
  /\ config = Unset
  /\ validate_tables(t)
  /\ config' = [authority |-> UpgradeAuthority, table |-> t, paused |-> FALSE, total_staked |-> 0]
  /\ UNCHANGED <<user_stake, vault, wallet, now>>

\* The authority of the config signs.
Signed(k) == config # Unset /\ config.authority = k

update_tier_config(k, t) ==
  /\ Signed(k) /\ validate_tables(t)
  /\ config' = [config EXCEPT !.table = t]
  /\ UNCHANGED <<user_stake, vault, wallet, now>>

set_paused(k, paused) ==
  /\ Signed(k)
  /\ config' = [config EXCEPT !.paused = paused]
  /\ UNCHANGED <<user_stake, vault, wallet, now>>

set_config_authority(k, new) ==
  /\ Signed(k)
  /\ config' = [config EXCEPT !.authority = new]
  /\ UNCHANGED <<user_stake, vault, wallet, now>>

\* Mutant: whole days, rounded down.
RemainingFloor(s) == (IF s.unlock_at > now THEN s.unlock_at - now ELSE 0) \div SECONDS_PER_DAY

\* Whole days left of a lock, rounded up.
RemainingDays(s) ==
  ((IF s.unlock_at > now THEN s.unlock_at - now ELSE 0) + SECONDS_PER_DAY - 1) \div SECONDS_PER_DAY

\* Mutant: a top-up keeps the age of the position.
KeepsAge(s, net) == IF s.amount = 0 THEN now ELSE s.staked_at

\* When a position of s, topped up with net, counts as staked: the ages are averaged.
BlendedSince(s, net) ==
  IF s.amount = 0 THEN now
  ELSE now - (s.amount * (now - s.staked_at)) \div (s.amount + net)

\* `amount` leaves the wallet; the token's transfer fee, whatever it is now, is
\* withheld, and `net` arrives.
stake(o, amount, net, lock_days) ==
  LET s == user_stake[o]
      t == config.table
      until == now + lock_days * SECONDS_PER_DAY
  IN
  /\ config # Unset /\ ~config.paused
  /\ \E i \in DOMAIN t.days : t.days[i] = lock_days
  /\ s.amount > 0 => lock_days >= RemainingDays(s)
  /\ amount \in 1..wallet[o] /\ net \in 1..amount
  /\ wallet' = [wallet EXCEPT ![o] = @ - amount]
  /\ vault' = vault + net
  /\ user_stake' = [user_stake EXCEPT ![o] =
       [amount |-> s.amount + net, lock_days |-> lock_days,
        staked_at |-> BlendedSince(s, net), unlock_at |-> until,
        tier |-> effective_tier(s.amount + net, lock_days, until, now, t)]]
  /\ config' = [config EXCEPT !.total_staked = @ + net]
  /\ UNCHANGED now

\* Mutant: nobody leaves while staking is paused.
MayUnstakeUnpaused(o) ==
  LET s == user_stake[o] IN
  /\ config # Unset /\ ~config.paused
  /\ s.amount > 0 /\ now >= s.unlock_at
  /\ vault >= s.amount /\ config.total_staked >= s.amount

\* What unstake requires: a position, its lock run out, and neither the transfer nor
\* the subtraction failing.
MayUnstake(o) ==
  LET s == user_stake[o] IN
  /\ config # Unset
  /\ s.amount > 0 /\ now >= s.unlock_at
  /\ vault >= s.amount /\ config.total_staked >= s.amount

\* Mutant: the position is paid out and stays open.
unstake_open(o, net) ==
  LET s == user_stake[o] IN
  /\ MayUnstake(o)
  /\ net \in 0..s.amount
  /\ vault' = vault - s.amount
  /\ wallet' = [wallet EXCEPT ![o] = @ + net]
  /\ config' = [config EXCEPT !.total_staked = @ - s.amount]
  /\ UNCHANGED <<user_stake, now>>

\* The whole position leaves; its account is closed.
unstake(o, net) ==
  LET s == user_stake[o] IN
  /\ MayUnstake(o)
  /\ net \in 0..s.amount
  /\ vault' = vault - s.amount
  /\ wallet' = [wallet EXCEPT ![o] = @ + net]
  /\ config' = [config EXCEPT !.total_staked = @ - s.amount]
  /\ user_stake' = [user_stake EXCEPT ![o] = None]
  /\ UNCHANGED now

\* Anyone may send ACT to the vault; the program never counts it.
SendToVault(o, net) ==
  /\ net \in 1..wallet[o]
  /\ vault' = vault + net
  /\ wallet' = [wallet EXCEPT ![o] = @ - net]
  /\ UNCHANGED <<config, user_stake, now>>

Tick == now < MaxTime /\ now' = now + 1 /\ UNCHANGED <<config, user_stake, vault, wallet>>

Next ==
  \/ \E t \in Tables : initialize_config(t) \/ \E k \in Keys : update_tier_config(k, t)
  \/ \E k \in Keys, paused \in BOOLEAN : set_paused(k, paused)
  \/ \E k, new \in Keys : set_config_authority(k, new)
  \/ \E o \in Owners, amount, net \in 1..Balance, days \in 1..MAX_DURATION_DAYS :
       stake(o, amount, net, days)
  \/ \E o \in Owners, net \in 0..Balance : unstake(o, net) \/ SendToVault(o, net)
  \/ Tick

Spec == Init /\ [][Next]_vars

-----------------------------------------------------------------------------
(* Properties                                                              *)

\* Every variable stays within its type.
TypeOK ==
  /\ config \in StakeConfig \cup {Unset}
  /\ user_stake \in [Owners -> UserStake]
  /\ vault \in Nat
  /\ wallet \in [Owners -> Nat]
  /\ now \in 0..MaxTime

\* The vault holds every position at once, whatever the transfer fee did and whoever
\* else sent ACT to it, and total_staked is the sum of the positions.
Solvent ==
  config # Unset =>
    /\ config.total_staked = MapThenSumSet(LAMBDA o : user_stake[o].amount, Owners)
    /\ vault >= config.total_staked

\* Whoever's lock has run out can leave, paused or not (lib.rs: "`unstake` still works").
\* (unstake is MayUnstake and assignments, so this is when it is enabled.)
MaturedCanLeave ==
  \A o \in Owners :
    user_stake[o].amount > 0 /\ now >= user_stake[o].unlock_at => MayUnstake(o)

\* A lock in force is never shortened: while a position lives, its unlock time never
\* moves back, whatever durations the authority offers ("never shortened").
LockNeverShortened ==
  [][\A o \in Owners :
       user_stake[o].amount > 0 /\ user_stake[o].unlock_at > now /\ user_stake'[o].amount > 0
         => user_stake'[o].unlock_at >= user_stake[o].unlock_at]_vars

\* A locked position is not paid out, and does not shrink.
LockedStaysIn ==
  [][\A o \in Owners :
       user_stake[o].unlock_at > now => user_stake'[o].amount >= user_stake[o].amount]_vars

\* A top-up invents no age: what was staked, times how long, never grows by it.
AgeNotInvented ==
  [][\A o \in Owners : now' = now =>
       user_stake'[o].amount * (now' - user_stake'[o].staked_at)
         <= user_stake[o].amount * (now - user_stake[o].staked_at)]_vars
=============================================================================
