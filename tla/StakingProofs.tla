--------------------------- MODULE StakingProofs ---------------------------
(***************************************************************************)
(* What staking promises of locks and of the vault, for any length of day, *)
(* any tables and amounts, and any number of wallets.                      *)
(***************************************************************************)
EXTENDS Staking, ProgramMathProofs, TLAPS

-----------------------------------------------------------------------------
(* Days and ages.                                                          *)

\* A lock of at least the days that remain, rounded up, ends no earlier.
LEMMA RoundedUp ==
  ASSUME NEW s, s.unlock_at \in Int, now \in Nat, NEW days \in Nat, days >= RemainingDays(s)
  PROVE  now + days * SECONDS_PER_DAY >= s.unlock_at
<1> DEFINE left == IF s.unlock_at > now THEN s.unlock_at - now ELSE 0
           sum == left + SECONDS_PER_DAY - 1
           q == sum \div SECONDS_PER_DAY
<1>1. SECONDS_PER_DAY \in Nat \ {0} /\ left \in Nat /\ sum \in Nat
  BY ConstantsAssumption
<1>2. q \in Nat /\ sum < SECONDS_PER_DAY * q + SECONDS_PER_DAY
  BY <1>1, FloorLemma
<1>3. SECONDS_PER_DAY * q \in Nat /\ SECONDS_PER_DAY * days \in Nat
  BY <1>1, <1>2
<1>4. SECONDS_PER_DAY * q >= left
  BY <1>1, <1>2, <1>3
<1>5. days >= q
  BY DEF RemainingDays
<1> HIDE DEF q, sum, left
<1>6. SECONDS_PER_DAY * days >= SECONDS_PER_DAY * q
  BY <1>1, <1>2, <1>5, Z3
<1>7. now + days * SECONDS_PER_DAY >= now + left
  <2>1. days * SECONDS_PER_DAY = SECONDS_PER_DAY * days
    BY <1>1, Z3
  <2> QED BY <1>1, <1>3, <1>4, <1>6, <2>1
<1>8. now + left >= s.unlock_at
  BY DEF left
<1>9. days * SECONDS_PER_DAY \in Nat
  BY <1>1
<1> QED BY <1>1, <1>7, <1>8, <1>9

\* Averaging invents no age.
LEMMA AgeLemma ==
  ASSUME NEW s, s.amount \in Nat, s.staked_at \in Int, now \in Nat, s.staked_at <= now,
         NEW net \in Nat \ {0}
  PROVE  /\ BlendedSince(s, net) \in Int /\ BlendedSince(s, net) <= now
         /\ (s.amount + net) * (now - BlendedSince(s, net)) <= s.amount * (now - s.staked_at)
<1> DEFINE age == now - s.staked_at
           total == s.amount + net
           blended == (s.amount * age) \div total
<1>1. age \in Nat /\ total \in Nat \ {0}
  OBVIOUS
<1>2. s.amount * age \in Nat
  BY <1>1
<1>3. blended \in Nat /\ total * blended <= s.amount * age
  BY <1>1, <1>2, FloorLemma
<1>4. CASE s.amount = 0
  <2>1. BlendedSince(s, net) = now
    BY <1>4 DEF BlendedSince
  <2>2. total * (now - now) = 0 /\ s.amount * age = 0
    BY <1>1, <1>4
  <2> QED BY <2>1, <2>2
<1>5. CASE s.amount # 0
  <2>1. BlendedSince(s, net) = now - blended
    BY <1>5 DEF BlendedSince
  <2> HIDE DEF blended, total, age
  <2>2. now - (now - blended) = blended /\ now - blended <= now /\ now - blended \in Int
    BY <1>3
  <2>3. total * (now - BlendedSince(s, net)) <= s.amount * age
    BY <1>3, <2>1, <2>2
  <2> QED BY <2>1, <2>2, <2>3 DEF total, age
<1> QED BY <1>4, <1>5

-----------------------------------------------------------------------------
(* The numbers of the positions and of the vault.                          *)

\* What every property but the types needs.
StakeInv ==
  /\ now \in Nat /\ vault \in Nat
  /\ DOMAIN user_stake = Owners /\ user_stake = [o \in Owners |-> user_stake[o]]
  /\ \A o \in Owners :
       /\ user_stake[o].amount \in Nat
       /\ user_stake[o].staked_at \in Int /\ user_stake[o].staked_at <= now
       /\ user_stake[o].unlock_at \in Int
  /\ config \in StakeConfig \cup {Unset}
  /\ config # Unset => vault >= config.total_staked

LEMMA ConfigLemma ==
  ASSUME StakeInv, config # Unset
  PROVE  config \in StakeConfig /\ config.total_staked \in Nat
BY DEF StakeInv, StakeConfig

\* A config has every field of one.
LEMMA UnsetIsNone == Unset \notin StakeConfig
BY DEF Unset, StakeConfig

\* A changed field of the config leaves it a config.
LEMMA FieldLemma ==
  ASSUME NEW c \in StakeConfig
  PROVE  /\ \A t \in Tables : [c EXCEPT !.table = t] \in StakeConfig
                              /\ [c EXCEPT !.table = t].total_staked = c.total_staked
         /\ \A b \in BOOLEAN : [c EXCEPT !.paused = b] \in StakeConfig
                               /\ [c EXCEPT !.paused = b].total_staked = c.total_staked
         /\ \A k \in Keys : [c EXCEPT !.authority = k] \in StakeConfig
                            /\ [c EXCEPT !.authority = k].total_staked = c.total_staked
         /\ \A n \in Nat : [c EXCEPT !.total_staked = n] \in StakeConfig
                           /\ [c EXCEPT !.total_staked = n].total_staked = n
BY DEF StakeConfig

LEMMA StakeInit == Init => StakeInv
<1> SUFFICES ASSUME Init PROVE StakeInv
  OBVIOUS
<1>1. user_stake = [o \in Owners |-> None] /\ now = 0 /\ vault = 0 /\ config = Unset
  BY DEF Init
<1>2. None.amount = 0 /\ None.staked_at = 0 /\ None.unlock_at = 0
  BY DEF None
<1> QED BY <1>1, <1>2 DEF StakeInv

\* The authority's instructions touch no position.
LEMMA AuthorityLemma ==
  ASSUME StakeInv,
         \/ \E t \in Tables : initialize_config(t) \/ \E k \in Keys : update_tier_config(k, t)
         \/ \E k \in Keys, paused \in BOOLEAN : set_paused(k, paused)
         \/ \E k, new \in Keys : set_config_authority(k, new)
  PROVE  StakeInv' /\ UNCHANGED <<user_stake, vault, wallet, now>>
<1>1. UNCHANGED <<user_stake, vault, wallet, now>>
  BY DEF initialize_config, update_tier_config, set_paused, set_config_authority
<1>2. config' \in StakeConfig /\ vault >= config'.total_staked
  <2>1. ASSUME NEW t \in Tables, initialize_config(t)
        PROVE  config' \in StakeConfig /\ vault >= config'.total_staked
    BY <2>1, ConstantsAssumption DEF initialize_config, StakeConfig, StakeInv
  <2>2. ASSUME NEW k \in Keys, NEW t \in Tables, update_tier_config(k, t)
        PROVE  config' \in StakeConfig /\ vault >= config'.total_staked
    BY <2>2, ConfigLemma, FieldLemma DEF update_tier_config, Signed, StakeInv
  <2>3. ASSUME NEW k \in Keys, NEW b \in BOOLEAN, set_paused(k, b)
        PROVE  config' \in StakeConfig /\ vault >= config'.total_staked
    BY <2>3, ConfigLemma, FieldLemma DEF set_paused, Signed, StakeInv
  <2>4. ASSUME NEW k \in Keys, NEW new \in Keys, set_config_authority(k, new)
        PROVE  config' \in StakeConfig /\ vault >= config'.total_staked
    BY <2>4, ConfigLemma, FieldLemma DEF set_config_authority, Signed, StakeInv
  <2> QED BY <2>1, <2>2, <2>3, <2>4
<1> QED BY <1>1, <1>2 DEF StakeInv

\* A stake leaves the other positions alone and only adds to its own.
LEMMA StakeLemma ==
  ASSUME StakeInv, NEW o \in Owners, NEW amount \in 1..Balance, NEW net \in 1..Balance,
         NEW days \in 1..MAX_DURATION_DAYS, stake(o, amount, net, days)
  PROVE  /\ StakeInv' /\ now' = now
         /\ \A q \in Owners : q # o => user_stake'[q] = user_stake[q]
         /\ user_stake'[o].amount = user_stake[o].amount + net
         /\ user_stake[o].amount > 0 => user_stake'[o].unlock_at >= user_stake[o].unlock_at
         /\ user_stake'[o].amount * (now' - user_stake'[o].staked_at)
              <= user_stake[o].amount * (now - user_stake[o].staked_at)
<1> DEFINE s == user_stake[o]
           until == now + days * SECONDS_PER_DAY
<1>1. /\ now \in Nat /\ vault \in Nat /\ s.amount \in Nat /\ s.unlock_at \in Int
      /\ s.staked_at \in Int /\ s.staked_at <= now /\ net \in Nat \ {0} /\ days \in Nat
      /\ config \in StakeConfig /\ config.total_staked \in Nat /\ vault >= config.total_staked
  BY ConstantsAssumption, ConfigLemma DEF StakeInv, stake
<1> DEFINE r == [amount |-> s.amount + net, lock_days |-> days,
                 staked_at |-> BlendedSince(s, net), unlock_at |-> until,
                 tier |-> effective_tier(s.amount + net, days, until, now, config.table)]
<1>2. /\ user_stake' = [user_stake EXCEPT ![o] = r]
      /\ r.amount = s.amount + net /\ r.unlock_at = until
      /\ r.staked_at = BlendedSince(s, net)
  BY DEF stake
<1> HIDE DEF r
<1>3. /\ now' = now /\ vault' = vault + net
      /\ config' = [config EXCEPT !.total_staked = @ + net]
      /\ s.amount > 0 => days >= RemainingDays(s)
  BY DEF stake
<1>4. user_stake'[o] = r /\ \A q \in Owners : q # o => user_stake'[q] = user_stake[q]
  BY <1>2 DEF StakeInv
<1>5. DOMAIN user_stake' = Owners /\ user_stake' = [q \in Owners |-> user_stake'[q]]
  BY <1>2 DEF StakeInv
<1>6. until \in Int
  BY <1>1, ConstantsAssumption
<1>7. s.amount > 0 => until >= s.unlock_at
  BY <1>1, <1>3, RoundedUp
<1>8. r.staked_at \in Int /\ r.staked_at <= now
      /\ r.amount * (now - r.staked_at) <= s.amount * (now - s.staked_at)
  BY <1>1, <1>2, AgeLemma
<1>9. config' \in StakeConfig /\ vault' \in Nat /\ vault' >= config'.total_staked
  <2>1. config.total_staked + net \in Nat /\ vault + net >= config.total_staked + net
    BY <1>1
  <2> QED BY <1>1, <1>3, <2>1, FieldLemma
<1> HIDE DEF until
<1>10. StakeInv'
  BY <1>1, <1>2, <1>3, <1>4, <1>5, <1>6, <1>8, <1>9 DEF StakeInv
<1> QED BY <1>2, <1>3, <1>4, <1>7, <1>8, <1>10

\* An unstake closes its own position, which was not locked.
LEMMA UnstakeLemma ==
  ASSUME StakeInv, NEW o \in Owners, NEW net \in 0..Balance, unstake(o, net)
  PROVE  /\ StakeInv' /\ now' = now
         /\ \A q \in Owners : q # o => user_stake'[q] = user_stake[q]
         /\ user_stake'[o].amount = 0 /\ user_stake'[o].staked_at \in Int
         /\ user_stake[o].unlock_at <= now
<1> DEFINE s == user_stake[o]
<1>1. /\ now \in Nat /\ vault \in Nat /\ s.amount \in Nat /\ s.unlock_at \in Int
      /\ config \in StakeConfig /\ config.total_staked \in Nat /\ vault >= config.total_staked
      /\ vault >= s.amount /\ config.total_staked >= s.amount /\ now >= s.unlock_at
  BY ConfigLemma DEF StakeInv, unstake, MayUnstake
<1>2. /\ now' = now /\ vault' = vault - s.amount /\ user_stake' = [user_stake EXCEPT ![o] = None]
      /\ config' = [config EXCEPT !.total_staked = @ - s.amount]
  BY DEF unstake
<1>3. user_stake'[o] = None /\ \A q \in Owners : q # o => user_stake'[q] = user_stake[q]
  BY <1>2 DEF StakeInv
<1>4. DOMAIN user_stake' = Owners /\ user_stake' = [q \in Owners |-> user_stake'[q]]
  BY <1>2 DEF StakeInv
<1>5. None.amount = 0 /\ None.staked_at = 0 /\ None.unlock_at = 0
  BY DEF None
<1>6. config' \in StakeConfig /\ vault' \in Nat /\ vault' >= config'.total_staked
  <2>1. config.total_staked - s.amount \in Nat /\ vault - s.amount \in Nat
        /\ vault - s.amount >= config.total_staked - s.amount
    BY <1>1
  <2> QED BY <1>1, <1>2, <2>1, FieldLemma
<1>7. StakeInv'
  BY <1>1, <1>2, <1>3, <1>4, <1>5, <1>6 DEF StakeInv
<1> QED BY <1>1, <1>2, <1>3, <1>5, <1>7

LEMMA OtherLemma ==
  ASSUME StakeInv,
         (\E o \in Owners, net \in 0..Balance : SendToVault(o, net)) \/ Tick \/ UNCHANGED vars
  PROVE  StakeInv' /\ user_stake' = user_stake
<1>1. user_stake' = user_stake /\ config' = config
  BY DEF SendToVault, Tick, vars
<1>2. now' \in Nat /\ now' >= now
  BY DEF SendToVault, Tick, vars, StakeInv
<1>3. vault' \in Nat /\ vault' >= vault
  BY DEF SendToVault, Tick, vars, StakeInv
<1>4. config # Unset => vault' >= config.total_staked
  BY <1>3, ConfigLemma DEF StakeInv
<1>5. ASSUME NEW o \in Owners
      PROVE  user_stake[o].staked_at \in Int /\ user_stake[o].staked_at <= now'
  BY <1>2 DEF StakeInv
<1> QED BY <1>1, <1>2, <1>3, <1>4, <1>5 DEF StakeInv

LEMMA StakeNext == StakeInv /\ [Next]_vars => StakeInv'
BY AuthorityLemma, StakeLemma, UnstakeLemma, OtherLemma DEF Next

LEMMA StakeInvAlways == Spec => []StakeInv
<1> QED BY StakeInit, StakeNext, PTL DEF Spec

-----------------------------------------------------------------------------
(* The sum of the positions.                                               *)

Amounts == [o \in Owners |-> user_stake[o].amount]

\* total_staked counts every position, and before the config there is none.
SumInv ==
  /\ StakeInv
  /\ (IF config = Unset THEN 0 ELSE config.total_staked) = Total(Amounts, Owners)

LEMMA AmountsOk ==
  ASSUME StakeInv
  PROVE  \A o \in Owners : Amounts[o] = user_stake[o].amount /\ Amounts[o] \in Nat
BY DEF StakeInv, Amounts

\* A step that changes the position of o alone changes the sum by as much.
LEMMA SumChange ==
  ASSUME StakeInv, StakeInv', NEW o \in Owners,
         \A q \in Owners : q # o => user_stake'[q] = user_stake[q]
  PROVE  /\ Total(Amounts', Owners) = Total(Amounts, Owners) - user_stake[o].amount + user_stake'[o].amount
         /\ Total(Amounts, Owners) \in Int
<1> DEFINE f == Amounts
           g == Amounts'
<1>1. \A q \in Owners : f[q] = user_stake[q].amount /\ f[q] \in Nat
  BY AmountsOk
<1>2. \A q \in Owners : g[q] = user_stake'[q].amount /\ g[q] \in Nat
  BY DEF StakeInv, Amounts
<1> HIDE DEF f, g
<1>3. /\ \A q \in Owners : f[q] \in Int /\ g[q] \in Int
      /\ \A q \in Owners : q # o => g[q] = f[q]
  BY <1>1, <1>2
<1>4. Total(g, Owners) = Total(f, Owners) - f[o] + g[o] /\ Total(f, Owners) \in Int
  BY <1>3, OwnersAssumption, TotalChange
<1>5. f[o] = user_stake[o].amount /\ g[o] = user_stake'[o].amount
  BY <1>1, <1>2
<1> QED BY <1>4, <1>5 DEF f, g

LEMMA SumInit == Init => SumInv
<1> SUFFICES ASSUME Init PROVE SumInv
  OBVIOUS
<1>1. StakeInv /\ config = Unset /\ user_stake = [o \in Owners |-> None] /\ None.amount = 0
  BY StakeInit DEF Init, None
<1> DEFINE f == Amounts
<1>2. \A o \in Owners : f[o] = 0
  BY <1>1 DEF Amounts
<1> HIDE DEF f
<1>3. \A o \in Owners : f[o] \in Int /\ f[o] \in Int /\ f[o] = f[o] + 1 * f[o]
  BY <1>2
<1>4. Total(f, Owners) \in Int /\ Total(f, Owners) = Total(f, Owners) + 1 * Total(f, Owners)
  BY <1>3, OwnersAssumption, TotalLinear
<1>5. Total(f, Owners) = 0
  BY <1>4
<1> QED BY <1>1, <1>5 DEF SumInv, f

LEMMA SumNext == SumInv /\ [Next]_vars => SumInv'
<1> SUFFICES ASSUME SumInv, [Next]_vars PROVE SumInv'
  OBVIOUS
<1>1. /\ StakeInv /\ StakeInv'
      /\ (IF config = Unset THEN 0 ELSE config.total_staked) = Total(Amounts, Owners)
  BY StakeNext DEF SumInv
<1>2. CASE user_stake' = user_stake
  <2>1. Amounts' = Amounts
    BY <1>2 DEF Amounts
  <2>2. (IF config' = Unset THEN 0 ELSE config'.total_staked)
          = (IF config = Unset THEN 0 ELSE config.total_staked)
    <3>1. CASE \E t \in Tables : initialize_config(t)
      BY <3>1 DEF initialize_config
    <3>2. CASE config' = config
      BY <3>2
    <3>3. CASE config # Unset /\ config' # Unset /\ config'.total_staked = config.total_staked
      BY <3>3
    <3>4. CASE \E k \in Keys, t \in Tables : update_tier_config(k, t)
      BY <1>1, <3>4, ConfigLemma, FieldLemma, <3>3, UnsetIsNone DEF update_tier_config, Signed
    <3>5. CASE \E k \in Keys, paused \in BOOLEAN : set_paused(k, paused)
      BY <1>1, <3>5, ConfigLemma, FieldLemma, <3>3, UnsetIsNone DEF set_paused, Signed
    <3>6. CASE \E k, new \in Keys : set_config_authority(k, new)
      BY <1>1, <3>6, ConfigLemma, FieldLemma, <3>3, UnsetIsNone DEF set_config_authority, Signed
    <3>7. CASE \E o \in Owners, amount, net \in 1..Balance, days \in 1..MAX_DURATION_DAYS :
                 stake(o, amount, net, days)
      BY <1>1, <1>2, <3>7, StakeLemma DEF StakeInv
    <3>8. CASE \E o \in Owners, net \in 0..Balance : unstake(o, net)
      <4>1. PICK o \in Owners, net \in 0..Balance : unstake(o, net)
        BY <3>8
      <4>2. user_stake[o].amount > 0
        BY <4>1 DEF unstake, MayUnstake
      <4>3. user_stake'[o].amount = 0
        BY <1>1, <4>1, UnstakeLemma
      <4> QED BY <1>2, <4>2, <4>3
    <3> QED BY <3>1, <3>2, <3>4, <3>5, <3>6, <3>7, <3>8 DEF Next, SendToVault, Tick, vars
  <2> QED BY <1>1, <2>1, <2>2 DEF SumInv
<1>3. ASSUME NEW o \in Owners, NEW amount \in 1..Balance, NEW net \in 1..Balance,
             NEW days \in 1..MAX_DURATION_DAYS, stake(o, amount, net, days)
      PROVE  SumInv'
  <2>1. /\ \A q \in Owners : q # o => user_stake'[q] = user_stake[q]
        /\ user_stake'[o].amount = user_stake[o].amount + net
    BY <1>1, <1>3, StakeLemma
  <2>2. Total(Amounts', Owners) = Total(Amounts, Owners) + net
    <3>1. user_stake[o].amount \in Nat
      BY <1>1 DEF StakeInv
    <3> QED BY <1>1, <2>1, <3>1, SumChange
  <2>3. /\ config # Unset /\ config \in StakeConfig /\ config.total_staked + net \in Nat
        /\ config' = [config EXCEPT !.total_staked = @ + net]
    BY <1>1, <1>3, ConfigLemma DEF stake
  <2>4. config' \in StakeConfig /\ config'.total_staked = config.total_staked + net
    BY <2>3, FieldLemma
  <2>5. config' # Unset
    BY <2>4, UnsetIsNone
  <2> QED BY <1>1, <2>2, <2>3, <2>4, <2>5 DEF SumInv
<1>4. ASSUME NEW o \in Owners, NEW net \in 0..Balance, unstake(o, net)
      PROVE  SumInv'
  <2>1. /\ \A q \in Owners : q # o => user_stake'[q] = user_stake[q]
        /\ user_stake'[o].amount = 0 /\ user_stake[o].amount \in Nat
    BY <1>1, <1>4, UnstakeLemma DEF StakeInv
  <2>2. Total(Amounts', Owners) = Total(Amounts, Owners) - user_stake[o].amount
    BY <1>1, <2>1, SumChange
  <2>3. /\ config # Unset /\ config \in StakeConfig /\ config.total_staked - user_stake[o].amount \in Nat
        /\ config' = [config EXCEPT !.total_staked = @ - user_stake[o].amount]
    BY <1>1, <1>4, <2>1, ConfigLemma DEF unstake, MayUnstake
  <2>4. config' \in StakeConfig /\ config'.total_staked = config.total_staked - user_stake[o].amount
    BY <2>3, FieldLemma
  <2>5. config' # Unset
    BY <2>4, UnsetIsNone
  <2> QED BY <1>1, <2>2, <2>3, <2>4, <2>5 DEF SumInv
<1> QED BY <1>1, <1>2, <1>3, <1>4, AuthorityLemma, OtherLemma DEF Next

\* The fold the property is written with is that sum.
LEMMA SolventMeans ==
  ASSUME StakeInv
  PROVE  MapThenSumSet(LAMBDA o : user_stake[o].amount, Owners) = Total(Amounts, Owners)
<1> DEFINE it == CHOOSE g : g = [s \in SUBSET Owners |->
                   IF s = {} THEN 0 ELSE user_stake[Pick(s)].amount + g[s \ {Pick(s)}]]
<1>1. \A s \in SUBSET Owners : s # {} => Amounts[Pick(s)] = user_stake[Pick(s)].amount
  BY PickLemma DEF Amounts
<1>2. PICK g : SumRec(Amounts, Owners, g)
  BY SumRecExists, OwnersAssumption
<1>3. g = [s \in SUBSET Owners |->
             IF s = {} THEN 0 ELSE user_stake[Pick(s)].amount + g[s \ {Pick(s)}]]
  BY <1>1, <1>2 DEF SumRec
<1>4. it = [s \in SUBSET Owners |->
              IF s = {} THEN 0 ELSE user_stake[Pick(s)].amount + it[s \ {Pick(s)}]]
  BY <1>3, Zenon
<1>5. MapThenSumSet(LAMBDA o : user_stake[o].amount, Owners) = it[Owners]
  BY DEF MapThenSumSet, MapThenFoldSet, Pick
<1> HIDE DEF it
<1>6. SumRec(Amounts, Owners, it)
  BY <1>1, <1>4 DEF SumRec
<1>7. Total(Amounts, Owners) = it[Owners]
  BY <1>6, TotalRec, OwnersAssumption
<1> QED BY <1>5, <1>7

-----------------------------------------------------------------------------
(* Theorems.                                                               *)

\* total_staked is the sum of the positions, and the vault holds them all at once.
THEOREM SolventAlways == Spec => []Solvent
<1>1. SumInv => Solvent
  BY SolventMeans DEF SumInv, StakeInv, Solvent
<1>2. Spec => []SumInv
  BY SumInit, SumNext, PTL DEF Spec
<1> QED BY <1>1, <1>2, PTL

\* A position is covered by total_staked, and so by the vault.
LEMMA AmountCovered ==
  ASSUME SumInv, NEW o \in Owners, user_stake[o].amount > 0
  PROVE  config # Unset /\ config.total_staked >= user_stake[o].amount /\ vault >= config.total_staked
<1>1. StakeInv
  BY DEF SumInv
<1>2. \A q \in Owners : Amounts[q] \in Nat /\ Amounts[q] = user_stake[q].amount
  BY <1>1, AmountsOk
<1>3. user_stake[o].amount <= Total(Amounts, Owners) /\ Total(Amounts, Owners) \in Int
      /\ user_stake[o].amount \in Nat
  <2> DEFINE f == Amounts
  <2>1. \A q \in Owners : f[q] \in Nat
    BY <1>2
  <2> HIDE DEF f
  <2>2. f[o] <= Total(f, Owners) /\ Total(f, Owners) \in Int /\ f[o] \in Nat
    BY <2>1, OwnersAssumption, TotalMember
  <2> QED BY <1>2, <2>2 DEF f
<1>4. (IF config = Unset THEN 0 ELSE config.total_staked) = Total(Amounts, Owners)
  BY DEF SumInv
<1>5. config # Unset
  BY <1>3, <1>4
<1> QED BY <1>1, <1>3, <1>4, <1>5 DEF StakeInv

\* No unstake of a position whose lock has run out is refused: vault and total_staked
\* cover it, whatever was staked, paid out and withheld before.
THEOREM MaturedCanLeaveAlways == Spec => []MaturedCanLeave
<1>1. ASSUME SumInv PROVE MaturedCanLeave
  <2> SUFFICES ASSUME NEW o \in Owners, user_stake[o].amount > 0, now >= user_stake[o].unlock_at
               PROVE  MayUnstake(o)
    BY DEF MaturedCanLeave
  <2>1. /\ config # Unset /\ config.total_staked >= user_stake[o].amount
        /\ vault >= config.total_staked
    BY <1>1, AmountCovered
  <2>2. vault \in Nat /\ user_stake[o].amount \in Nat /\ config.total_staked \in Nat
    BY <1>1, <2>1, ConfigLemma DEF SumInv, StakeInv
  <2> QED BY <2>1, <2>2 DEF MayUnstake
<1>2. Spec => []SumInv
  BY SumInit, SumNext, PTL DEF Spec
<1> QED BY <1>1, <1>2, PTL

\* No step moves back the unlock time of a position that lives on.
THEOREM LockNeverShortenedAlways == Spec => LockNeverShortened
<1>1. ASSUME StakeInv, [Next]_vars, NEW o \in Owners,
             user_stake[o].amount > 0, user_stake'[o].amount > 0
      PROVE  user_stake'[o].unlock_at >= user_stake[o].unlock_at
  <2>1. user_stake[o].unlock_at \in Int
    BY <1>1 DEF StakeInv
  <2>2. CASE user_stake' = user_stake
    BY <2>1, <2>2
  <2>3. CASE \E q \in Owners, amount, net \in 1..Balance, days \in 1..MAX_DURATION_DAYS :
               stake(q, amount, net, days)
    BY <1>1, <2>1, <2>3, StakeLemma
  <2>4. CASE \E q \in Owners, net \in 0..Balance : unstake(q, net)
    BY <1>1, <2>1, <2>4, UnstakeLemma
  <2> QED BY <1>1, <2>2, <2>3, <2>4, AuthorityLemma, OtherLemma DEF Next
<1>2. StakeInv /\ [Next]_vars =>
        [\A o \in Owners :
           user_stake[o].amount > 0 /\ user_stake[o].unlock_at > now /\ user_stake'[o].amount > 0
             => user_stake'[o].unlock_at >= user_stake[o].unlock_at]_vars
  BY <1>1
<1> QED BY <1>2, StakeInvAlways, PTL DEF Spec, LockNeverShortened

\* No step takes anything out of a position whose lock runs.
THEOREM LockedStaysInAlways == Spec => LockedStaysIn
<1>1. ASSUME StakeInv, [Next]_vars, NEW o \in Owners, user_stake[o].unlock_at > now
      PROVE  user_stake'[o].amount >= user_stake[o].amount
  <2>1. user_stake[o].amount \in Nat /\ user_stake[o].unlock_at \in Int /\ now \in Nat
    BY <1>1 DEF StakeInv
  <2>2. CASE user_stake' = user_stake
    BY <2>1, <2>2
  <2>3. CASE \E q \in Owners, amount, net \in 1..Balance, days \in 1..MAX_DURATION_DAYS :
               stake(q, amount, net, days)
    <3>1. PICK q \in Owners, amount \in 1..Balance, net \in 1..Balance, days \in 1..MAX_DURATION_DAYS :
               stake(q, amount, net, days)
      BY <2>3
    <3>2. CASE q = o
      BY <1>1, <2>1, <3>1, <3>2, StakeLemma
    <3>3. CASE q # o
      BY <1>1, <2>1, <3>1, <3>3, StakeLemma
    <3> QED BY <3>2, <3>3
  <2>4. CASE \E q \in Owners, net \in 0..Balance : unstake(q, net)
    <3>1. PICK q \in Owners, net \in 0..Balance : unstake(q, net)
      BY <2>4
    <3>2. q # o
      BY <1>1, <2>1, <3>1, UnstakeLemma
    <3> QED BY <1>1, <2>1, <3>1, <3>2, UnstakeLemma
  <2> QED BY <1>1, <2>2, <2>3, <2>4, AuthorityLemma, OtherLemma DEF Next
<1>2. StakeInv /\ [Next]_vars =>
        [\A o \in Owners : user_stake[o].unlock_at > now =>
           user_stake'[o].amount >= user_stake[o].amount]_vars
  BY <1>1
<1> QED BY <1>2, StakeInvAlways, PTL DEF Spec, LockedStaysIn

\* No top-up makes what was staked, times how long, larger.
THEOREM AgeNotInventedAlways == Spec => AgeNotInvented
<1>1. ASSUME StakeInv, [Next]_vars, now' = now, NEW o \in Owners
      PROVE  user_stake'[o].amount * (now' - user_stake'[o].staked_at)
               <= user_stake[o].amount * (now - user_stake[o].staked_at)
  <2>1. /\ user_stake[o].amount \in Nat /\ user_stake[o].staked_at \in Int
        /\ user_stake[o].staked_at <= now /\ now \in Nat
    BY <1>1 DEF StakeInv
  <2> DEFINE age == now - user_stake[o].staked_at
  <2>2. age \in Nat /\ user_stake[o].amount * age \in Nat
    BY <2>1
  <2>3. CASE user_stake'[o] = user_stake[o]
    BY <1>1, <2>2, <2>3
  <2>4. CASE \E q \in Owners, amount, net \in 1..Balance, days \in 1..MAX_DURATION_DAYS :
               stake(q, amount, net, days)
    <3>1. PICK q \in Owners, amount \in 1..Balance, net \in 1..Balance, days \in 1..MAX_DURATION_DAYS :
               stake(q, amount, net, days)
      BY <2>4
    <3>2. CASE q = o
      BY <1>1, <3>1, <3>2, StakeLemma
    <3>3. CASE q # o
      BY <1>1, <2>3, <3>1, <3>3, StakeLemma
    <3> QED BY <3>2, <3>3
  <2>5. CASE \E q \in Owners, net \in 0..Balance : unstake(q, net)
    <3>1. PICK q \in Owners, net \in 0..Balance : unstake(q, net)
      BY <2>5
    <3>2. CASE q = o
      <4>1. user_stake'[o].amount = 0 /\ now' - user_stake'[o].staked_at \in Int
        BY <1>1, <2>1, <3>1, <3>2, UnstakeLemma
      <4>2. user_stake'[o].amount * (now' - user_stake'[o].staked_at) = 0
        BY <4>1
      <4> QED BY <2>2, <4>2
    <3>3. CASE q # o
      BY <1>1, <2>3, <3>1, <3>3, UnstakeLemma
    <3> QED BY <3>2, <3>3
  <2> QED BY <1>1, <2>3, <2>4, <2>5, AuthorityLemma, OtherLemma DEF Next
<1>2. StakeInv /\ [Next]_vars =>
        [\A o \in Owners : now' = now =>
           user_stake'[o].amount * (now' - user_stake'[o].staked_at)
             <= user_stake[o].amount * (now - user_stake[o].staked_at)]_vars
  BY <1>1
<1> QED BY <1>2, StakeInvAlways, PTL DEF Spec, AgeNotInvented

-----------------------------------------------------------------------------
(* Type correctness: a position always has a tier, because every table an  *)
(* instruction accepts meets the first threshold.                          *)

\* A set of positions of a table that is not empty has a last one.
LEMMA MaxLemma ==
  ASSUME NEW n \in Nat, NEW S \in SUBSET (1..n), S # {}
  PROVE  Max(S) \in S
<1> DEFINE T == {m \in Nat : n - m \in S}
<1>1. T # {}
  <2>1. PICK k \in S : TRUE
    OBVIOUS
  <2>2. n - k \in Nat /\ n - (n - k) = k
    BY <2>1
  <2> QED BY <2>1, <2>2
<1>2. PICK m \in T : \A l \in T : ~(<<l, m>> \in OpToRel(<, Nat))
  BY <1>1, WFMin, NatLessThanWellFounded
<1>3. \A l \in T : ~(l < m)
  BY <1>2 DEF OpToRel
<1>4. \A k \in S : n - m >= k
  <2>1. SUFFICES ASSUME NEW k \in S PROVE n - m >= k
    OBVIOUS
  <2>2. n - k \in Nat /\ n - (n - k) = k
    OBVIOUS
  <2>3. n - k \in T
    BY <2>2
  <2> QED BY <1>3, <2>3
<1>5. \E k \in S : \A l \in S : k >= l
  BY <1>4
<1> QED BY <1>5 DEF Max

LEMMA TierLemma ==
  ASSUME NEW t \in Tables, validate_tables(t), NEW cas \in Nat
  PROVE  tier_for_cas(cas, t.tiers) \in Nat
<1> DEFINE S == {i \in DOMAIN t.tiers : cas >= t.tiers[i]}
<1>1. t.tiers \in Seq(Nat) /\ Len(t.tiers) > 0
  BY TablesAssumption
<1>2. DOMAIN t.tiers = 1..Len(t.tiers) /\ Len(t.tiers) \in Nat
  BY <1>1
<1>3. t.tiers[1] = 0
  BY DEF validate_tables
<1>4. 1 \in S
  BY <1>1, <1>2, <1>3
<1>5. S \in SUBSET (1..Len(t.tiers)) /\ S # {}
  BY <1>2, <1>4
<1> HIDE DEF S
<1>6. Max(S) \in 1..Len(t.tiers)
  BY <1>2, <1>5, MaxLemma
<1>7. Max(S) - 1 \in Nat
  BY <1>6
<1> QED BY <1>7 DEF tier_for_cas, S

LEMMA MultiplierLemma ==
  ASSUME NEW t \in Tables, NEW days
  PROVE  Multiplier(days, t) \in Nat
<1>1. t.days \in Seq(Nat) /\ t.multiplier \in Seq(Nat) /\ Len(t.multiplier) = Len(t.days)
  BY TablesAssumption
<1>2. \A i \in DOMAIN t.days : t.multiplier[i] \in Nat
  BY <1>1
<1>3. CASE \E i \in DOMAIN t.days : t.days[i] = days
  <2>1. (CHOOSE i \in DOMAIN t.days : t.days[i] = days) \in DOMAIN t.days
    BY <1>3
  <2> QED BY <1>2, <1>3, <2>1 DEF Multiplier
<1> QED BY <1>3 DEF Multiplier

LEMMA EffectiveTierLemma ==
  ASSUME NEW t \in Tables, validate_tables(t), NEW amount \in Nat, NEW days, NEW until, NEW at
  PROVE  effective_tier(amount, days, until, at, t) \in Nat
<1> DEFINE m == IF at < until THEN Multiplier(days, t) ELSE 100
<1>1. m \in Nat
  BY MultiplierLemma
<1> HIDE DEF m
<1>2. amount * m \in Nat
  BY <1>1
<1>3. (amount * m) \div 100 \in Nat
  BY <1>2, FloorLemma
<1>4. tier_for_cas((amount * m) \div 100, t.tiers) \in Nat
  BY <1>3, TierLemma
<1> QED BY <1>4 DEF effective_tier, m

\* The types, and that the table in force was accepted by validate_tables.
TypeInv ==
  /\ StakeInv
  /\ \A o \in Owners : user_stake[o] \in UserStake
  /\ wallet \in [Owners -> Nat]
  /\ now <= MaxTime
  /\ config # Unset => validate_tables(config.table)

LEMMA TypeInit == Init => TypeInv
<1> SUFFICES ASSUME Init PROVE TypeInv
  OBVIOUS
<1>1. None \in UserStake
  BY DEF None, UserStake
<1>2. 0 <= MaxTime
  BY ConstantsAssumption
<1> QED BY <1>1, <1>2, StakeInit, ConstantsAssumption DEF Init, TypeInv

\* The table is only ever one that validate_tables accepts.
LEMMA TableStep ==
  ASSUME TypeInv, [Next]_vars, config' # Unset
  PROVE  validate_tables(config'.table)
<1>1. config # Unset => config \in StakeConfig /\ validate_tables(config.table)
  BY DEF TypeInv, StakeInv
<1>2. ASSUME NEW t \in Tables, initialize_config(t) PROVE config'.table = t /\ validate_tables(t)
  BY <1>2 DEF initialize_config
<1>3. ASSUME NEW t \in Tables, NEW k \in Keys, update_tier_config(k, t)
      PROVE  config'.table = t /\ validate_tables(t)
  BY <1>1, <1>3 DEF update_tier_config, Signed, StakeConfig
<1>4. ASSUME NEW k \in Keys, NEW paused \in BOOLEAN, set_paused(k, paused)
      PROVE  config # Unset /\ config'.table = config.table
  BY <1>1, <1>4 DEF set_paused, Signed, StakeConfig
<1>5. ASSUME NEW k \in Keys, NEW new \in Keys, set_config_authority(k, new)
      PROVE  config # Unset /\ config'.table = config.table
  BY <1>1, <1>5 DEF set_config_authority, Signed, StakeConfig
<1>6. ASSUME NEW o \in Owners, NEW amount \in 1..Balance, NEW net \in 1..Balance,
             NEW days \in 1..MAX_DURATION_DAYS, stake(o, amount, net, days)
      PROVE  config # Unset /\ config'.table = config.table
  BY <1>1, <1>6 DEF stake, StakeConfig
<1>7. ASSUME NEW o \in Owners, NEW net \in 0..Balance, unstake(o, net)
      PROVE  config # Unset /\ config'.table = config.table
  BY <1>1, <1>7 DEF unstake, MayUnstake, StakeConfig
<1>8. CASE config' = config
  BY <1>1, <1>8
<1> QED BY <1>1, <1>2, <1>3, <1>4, <1>5, <1>6, <1>7, <1>8 DEF Next, SendToVault, Tick, vars

\* What a step writes into a position is a position, and into a wallet an amount.
LEMMA HoldingsStep ==
  ASSUME TypeInv, [Next]_vars
  PROVE  /\ \A o \in Owners : user_stake'[o] \in UserStake
         /\ wallet' \in [Owners -> Nat]
         /\ now' <= MaxTime
<1>1. /\ StakeInv /\ wallet \in [Owners -> Nat] /\ now \in Nat /\ now <= MaxTime
      /\ \A o \in Owners : user_stake[o] \in UserStake
  BY DEF TypeInv, StakeInv
<1>2. ASSUME user_stake' = user_stake, wallet' = wallet
      PROVE  wallet' \in [Owners -> Nat] /\ \A o \in Owners : user_stake'[o] \in UserStake
  <2>1. wallet' \in [Owners -> Nat]
    BY <1>1, <1>2
  <2>2. \A o \in Owners : user_stake'[o] \in UserStake
    BY <1>1, <1>2, Zenon
  <2> QED BY <2>1, <2>2
<1>3. ASSUME NEW o \in Owners, NEW amount \in 1..Balance, NEW net \in 1..Balance,
             NEW days \in 1..MAX_DURATION_DAYS, stake(o, amount, net, days)
      PROVE  /\ \A q \in Owners : user_stake'[q] \in UserStake
             /\ wallet' \in [Owners -> Nat] /\ now' = now
  <2> DEFINE s == user_stake[o]
             until == now + days * SECONDS_PER_DAY
             tier == effective_tier(s.amount + net, days, until, now, config.table)
             r == [amount |-> s.amount + net, lock_days |-> days,
                   staked_at |-> BlendedSince(s, net), unlock_at |-> until, tier |-> tier]
  <2>1. /\ config \in StakeConfig /\ config.table \in Tables /\ validate_tables(config.table)
        /\ s.amount \in Nat /\ s.staked_at \in Int /\ s.staked_at <= now
        /\ net \in Nat \ {0} /\ days \in Nat /\ now' = now
    BY <1>1, <1>3, ConstantsAssumption DEF stake, StakeInv, StakeConfig, TypeInv
  <2>2. s.amount + net \in Nat /\ until \in Int
    BY <1>1, <2>1, ConstantsAssumption
  <2>3. BlendedSince(s, net) \in Int
    BY <1>1, <2>1, AgeLemma
  <2> HIDE DEF until
  <2>4. tier \in Nat
    BY <2>1, <2>2, EffectiveTierLemma
  <2>5. user_stake' = [user_stake EXCEPT ![o] = r]
    BY <1>3 DEF stake, until
  <2> HIDE DEF tier
  <2>6. r \in UserStake
    BY <2>1, <2>2, <2>3, <2>4 DEF UserStake
  <2> HIDE DEF r
  <2>7. \A q \in Owners : user_stake'[q] \in UserStake
    BY <1>1, <2>5, <2>6 DEF StakeInv
  <2>8. wallet' = [wallet EXCEPT ![o] = @ - amount] /\ amount \in 1..wallet[o]
    BY <1>3 DEF stake
  <2>9. wallet[o] - amount \in Nat
    BY <1>1, <2>8
  <2> QED BY <1>1, <2>1, <2>7, <2>8, <2>9
<1>4. ASSUME NEW o \in Owners, NEW net \in 0..Balance, unstake(o, net)
      PROVE  /\ \A q \in Owners : user_stake'[q] \in UserStake
             /\ wallet' \in [Owners -> Nat] /\ now' = now
  <2>1. None \in UserStake
    BY DEF None, UserStake
  <2>2. user_stake' = [user_stake EXCEPT ![o] = None] /\ now' = now
        /\ wallet' = [wallet EXCEPT ![o] = @ + net]
    BY <1>4 DEF unstake
  <2>3. \A q \in Owners : user_stake'[q] \in UserStake
    BY <1>1, <2>1, <2>2 DEF StakeInv
  <2>4. wallet[o] + net \in Nat
    BY <1>1, ConstantsAssumption
  <2> QED BY <1>1, <2>2, <2>3, <2>4
<1>5. ASSUME NEW o \in Owners, NEW net \in 0..Balance, SendToVault(o, net)
      PROVE  user_stake' = user_stake /\ wallet' \in [Owners -> Nat] /\ now' = now
  <2>1. /\ net \in 1..wallet[o] /\ wallet' = [wallet EXCEPT ![o] = @ - net]
        /\ user_stake' = user_stake /\ now' = now
    BY <1>5 DEF SendToVault
  <2>2. wallet[o] - net \in Nat
    BY <1>1, <2>1
  <2> QED BY <1>1, <2>1, <2>2
<1>55. ASSUME NEW o \in Owners, NEW net \in 0..Balance, SendToVault(o, net)
      PROVE  \A q \in Owners : user_stake'[q] \in UserStake
  BY <1>1, <1>5, <1>55, Zenon
<1>6. CASE Tick
  <2>1. user_stake' = user_stake /\ wallet' = wallet /\ now' = now + 1 /\ now < MaxTime
    BY <1>6 DEF Tick
  <2>2. now' <= MaxTime
    BY <1>1, <2>1, ConstantsAssumption
  <2> QED BY <1>2, <2>1, <2>2
<1>7. CASE \/ \E t \in Tables : initialize_config(t) \/ \E k \in Keys : update_tier_config(k, t)
           \/ \E k \in Keys, paused \in BOOLEAN : set_paused(k, paused)
           \/ \E k, new \in Keys : set_config_authority(k, new)
  <2>1. UNCHANGED <<user_stake, wallet, now>>
    BY <1>7 DEF initialize_config, update_tier_config, set_paused, set_config_authority
  <2> QED BY <1>1, <1>2, <2>1
<1>8. CASE UNCHANGED vars
  BY <1>1, <1>2, <1>8 DEF vars
<1> QED BY <1>1, <1>3, <1>4, <1>5, <1>55, <1>6, <1>7, <1>8 DEF Next

\* Every variable stays within its type; above all a position always has a tier
\* (tier_for_cas finds a threshold met in every table validate_tables accepts).
THEOREM StakingTypeCorrect == Spec => []TypeOK
<1>1. TypeInv /\ [Next]_vars => TypeInv'
  BY StakeNext, TableStep, HoldingsStep DEF TypeInv
<1>2. TypeInv => TypeOK
  BY ConstantsAssumption DEF TypeInv, StakeInv, TypeOK
<1>3. Spec => []TypeInv
  BY TypeInit, <1>1, PTL DEF Spec
<1> QED BY <1>2, <1>3, PTL
=============================================================================
