---------------------------- MODULE OrdersProofs ----------------------------
(***************************************************************************)
(* What the order program promises its owners, for any amounts, any fees   *)
(* under the caps, any venues and any number of orders.                    *)
(***************************************************************************)
EXTENDS Orders, ProgramMathProofs

-----------------------------------------------------------------------------
(* Arithmetic.                                                             *)

\* A slice owes no more than is owed, and at least its share of it.
LEMMA RequiredLemma ==
  ASSUME NEW R \in Nat \ {0}, NEW s \in 1..R, NEW m \in Nat
  PROVE  /\ required_out(s, R, m) \in 0..m
         /\ R * (m - required_out(s, R, m)) <= m * (R - s)
<1>1. CASE s = R
  <2>1. required_out(s, R, m) = m
    BY <1>1 DEF required_out
  <2>2. R * (m - m) = 0 /\ m * (R - s) = 0
    BY <1>1
  <2> QED BY <2>1, <2>2
<1>2. CASE s # R
  <2> DEFINE q == CeilDiv(s * m, R)
  <2>1. required_out(s, R, m) = q
    BY <1>2 DEF required_out
  <2>2. s * m \in Nat /\ s * m <= R * m
    BY MulMono
  <2>3. q \in Nat /\ R * q >= s * m /\ q <= m
    BY <2>2, CeilLemma, CeilLeast
  <2> HIDE DEF q
  <2>4. R * (m - q) = R * m - R * q /\ m * (R - s) = R * m - s * m
    BY <2>3, Z3
  <2>5. R * m \in Nat /\ R * q \in Nat
    BY <2>3
  <2> QED BY <2>1, <2>2, <2>3, <2>4, <2>5
<1> QED BY <1>1, <1>2

\* What is still owed stays at or below its share of what is left.
LEMMA RateLemma ==
  ASSUME NEW R \in Nat \ {0}, NEW s \in 1..R, NEW m \in Nat, NEW q \in 0..m,
         NEW T \in Nat, NEW M \in Nat,
         R * (m - q) <= m * (R - s), m * T <= M * R
  PROVE  (m - q) * T <= M * (R - s)
<1> DEFINE d == m - q
           l == R - s
<1>1. d \in Nat /\ l \in Nat
  OBVIOUS
<1> HIDE DEF d, l
<1>2. R * d <= m * l
  BY DEF d, l
<1>3. R * d \in Nat /\ m * l \in Nat /\ m * T \in Nat /\ M * R \in Nat
  BY <1>1
<1>4. (R * d) * T <= (m * l) * T
  BY <1>2, <1>3, MulMono
<1>5. (m * T) * l <= (M * R) * l
  BY <1>1, <1>3, MulMono
<1>6. (R * d) * T = R * (d * T) /\ (m * l) * T = (m * T) * l /\ (M * R) * l = R * (M * l)
  BY <1>1, Z3
<1>7. R * (d * T) <= R * (M * l)
  <2>1. (m * T) * l \in Int /\ R * (d * T) \in Int /\ R * (M * l) \in Int
    BY <1>1, <1>3
  <2> QED BY <1>4, <1>5, <1>6, <2>1
<1>8. d * T \in Int /\ M * l \in Int
  BY <1>1
<1>9. d * T <= M * l
  <2>1. ASSUME M * l < d * T PROVE FALSE
    <3>1. R * (M * l) < R * (d * T)
      BY <1>8, <2>1, Z3
    <3>2. R * (M * l) \in Int /\ R * (d * T) \in Int
      BY <1>8
    <3> QED BY <1>7, <3>1, <3>2
  <2> QED BY <1>8, <2>1
<1> QED BY <1>9 DEF d, l

LEMMA CapsLemma ==
  ASSUME NEW f \in Fees
  PROVE  /\ f.cancel \in Nat /\ f.buy \in Nat /\ f.sell \in Nat /\ f.keeper \in Nat
         /\ check_fees(f) => f.keeper <= BPS
BY FeesAssumption, CapsAssumption DEF check_fees

LEMMA FeeCeilLemma ==
  ASSUME NEW a \in Nat, NEW bps \in Nat
  PROVE  /\ fee_ceil(a, bps) \in Nat
         /\ \A b \in Nat : a <= b => fee_ceil(a, bps) <= fee_ceil(b, bps)
<1>1. a * bps \in Nat /\ BPS \in Nat \ {0}
  BY CapsAssumption
<1>2. ASSUME NEW b \in Nat, a <= b PROVE a * bps <= b * bps /\ b * bps \in Nat
  BY <1>2, MulMono
<1> QED BY <1>1, <1>2, CeilLemma, CeilMono DEF fee_ceil

LEMMA NoFee ==
  ASSUME NEW bps \in Nat
  PROVE  fee_ceil(0, bps) = 0
<1>1. 0 * bps = 0 /\ BPS \in Nat \ {0} /\ BPS * 0 = 0
  BY CapsAssumption
<1>2. CeilDiv(0, BPS) \in Nat /\ CeilDiv(0, BPS) <= 0
  BY <1>1, CeilLemma, CeilLeast
<1> QED BY <1>1, <1>2 DEF fee_ceil

\* Charging the difference of ceilings charges the ceiling of the whole.
LEMMA FeeDueLemma ==
  ASSUME NEW r \in Order, r.fee_paid = fee_ceil(r.fee_base_cum, FeeBps(r)), NEW base \in Nat
  PROVE  /\ FeeDue(r, base) \in Nat
         /\ r.fee_paid + FeeDue(r, base) = fee_ceil(r.fee_base_cum + base, FeeBps(r))
<1>1. r.fee_base_cum \in Nat /\ r.fee_paid \in Nat /\ FeeBps(r) \in Nat
  BY CapsLemma DEF Order, FeeBps
<1>2. r.fee_base_cum + base \in Nat /\ r.fee_base_cum <= r.fee_base_cum + base
  BY <1>1
<1> DEFINE due == fee_ceil(r.fee_base_cum + base, FeeBps(r))
<1>3. due \in Nat /\ r.fee_paid <= due
  <2>1. due \in Nat
    BY <1>1, <1>2, FeeCeilLemma
  <2>2. fee_ceil(r.fee_base_cum, FeeBps(r)) <= due
    BY <1>1, <1>2, FeeCeilLemma
  <2> QED BY <2>1, <2>2
<1>4. FeeDue(r, base) = SatSub(due, r.fee_paid)
  BY DEF FeeDue
<1> HIDE DEF due
<1>5. FeeDue(r, base) = due - r.fee_paid
  BY <1>1, <1>3, <1>4 DEF SatSub
<1> QED BY <1>1, <1>3, <1>5 DEF due

-----------------------------------------------------------------------------
(* The invariant, one order at a time.                                     *)

\* What is owed never exceeds its share of what is left, and with what was received makes
\* up the agreed minimum.
RateOk(r, d) ==
  /\ r.in_remaining <= r.in_total
  /\ r.min_out_remaining * r.in_total <= d.min_out * r.in_remaining
  /\ d.got + r.min_out_remaining >= d.min_out

FeesOk(r, d) ==
  /\ r.fees = d.fees
  /\ r.fee_paid = fee_ceil(r.fee_base_cum, FeeBps(r))
  /\ d.cancel_fee <= fee_ceil(r.in_remaining, d.fees.cancel)

OpenOk(r, v, d) ==
  r.status = "open" =>
    /\ d.cancel_fee = 0 /\ check_fees(r.fees)
    /\ v.in = r.in_remaining + d.stray_in
    /\ v.out = d.stray_out

ClosedOk(r, v) == r.status = "closed" => v = Empty

OrderOk(r, v, d) ==
  /\ r \in Order /\ v \in [in : Nat, out : Nat] /\ d \in Deal
  /\ RateOk(r, d) /\ FeesOk(r, d) /\ OpenOk(r, v, d) /\ ClosedOk(r, v)

AccountsOk == feeAccounts \in FeeAccounts /\ frozen \subseteq Orders \X Freezable

OrdersInv ==
  /\ config \in Config \cup {Unset}
  /\ config # Unset => check_fees(config.fees)
  /\ asset \in Asset /\ AccountsOk
  /\ order = [o \in Orders |-> order[o]] /\ DOMAIN order = Orders
  /\ vault = [o \in Orders |-> vault[o]] /\ DOMAIN vault = Orders
  /\ deal = [o \in Orders |-> deal[o]] /\ DOMAIN deal = Orders
  /\ \A o \in Orders : OrderOk(order[o], vault[o], deal[o])

LEMMA OrdersInit == Init => OrdersInv
<1> SUFFICES ASSUME Init PROVE OrdersInv
  OBVIOUS
<1>1. /\ config = Unset /\ asset = [min_amount |-> 0, enabled |-> FALSE] /\ AccountsOk
      /\ vault = [o \in Orders |-> Empty]
      /\ deal = [o \in Orders |-> [min_out |-> 0, fees |-> order[o].fees, got |-> 0,
                                   cancel_fee |-> 0, stray_in |-> 0, stray_out |-> 0]]
      /\ order = [o \in Orders |-> order[o]] /\ DOMAIN order = Orders
  BY DEF Init, AccountsOk
<1>2. ASSUME NEW o \in Orders
      PROVE  OrderOk(order[o], vault[o], deal[o])
  <2>1. PICK f \in Fees : order[o] =
          [status |-> "closed", side |-> "buy", fees |-> f, in_total |-> 0, in_remaining |-> 0,
           min_out_remaining |-> 0, fee_base_cum |-> 0, fee_paid |-> 0]
    BY DEF Init
  <2>2. order[o] \in Order /\ vault[o] \in [in : Nat, out : Nat] /\ deal[o] \in Deal
    BY <1>1, <2>1 DEF Order, Deal, Sides, Empty
  <2>3. RateOk(order[o], deal[o])
    BY <1>1, <2>1 DEF RateOk
  <2>4. FeesOk(order[o], deal[o])
    BY <1>1, <2>1, NoFee, CapsLemma DEF FeesOk, FeeBps
  <2> QED BY <1>1, <2>1, <2>2, <2>3, <2>4 DEF OrderOk, OpenOk, ClosedOk
<1> QED BY <1>1, <1>2 DEF OrdersInv, Asset, Unset

\* The admin's instructions, and the issuer's, touch no order.
LEMMA AdminLemma ==
  ASSUME OrdersInv,
         \/ \E f \in Fees, accounts \in FeeAccounts :
              initialize_config(f, accounts) \/ \E paused \in BOOLEAN : update_config(f, paused, accounts)
         \/ \E venues \in SUBSET Programs : set_venues(venues)
         \/ \E min_amount \in Minimums, enabled \in BOOLEAN : set_asset(min_amount, enabled)
         \/ \E accounts \in FeeAccounts : FeeAccountsChange(accounts)
         \/ \E o \in Orders, which \in Freezable : Freeze(o, which)
         \/ UNCHANGED vars
  PROVE  OrdersInv' /\ UNCHANGED <<order, vault, deal>>
<1>1. UNCHANGED <<order, vault, deal>>
  BY DEF initialize_config, update_config, set_venues, set_asset, FeeAccountsChange, Freeze, vars
<1>2. config' \in Config \cup {Unset} /\ (config' # Unset => check_fees(config'.fees))
  <2>1. ASSUME NEW f \in Fees, NEW accounts \in FeeAccounts, initialize_config(f, accounts)
        PROVE  config' \in Config /\ check_fees(config'.fees)
    BY <2>1 DEF initialize_config, Config
  <2>2. ASSUME NEW f \in Fees, NEW accounts \in FeeAccounts, NEW paused \in BOOLEAN,
               update_config(f, paused, accounts)
        PROVE  config' \in Config /\ check_fees(config'.fees)
    BY <2>2 DEF update_config, Config, OrdersInv
  <2>3. ASSUME NEW venues \in SUBSET Programs, set_venues(venues)
        PROVE  config' \in Config /\ check_fees(config'.fees)
    BY <2>3 DEF set_venues, Config, OrdersInv
  <2>4. CASE config' = config
    BY <2>4 DEF OrdersInv
  <2> QED BY <2>1, <2>2, <2>3, <2>4 DEF set_asset, FeeAccountsChange, Freeze, vars
<1>3. asset' \in Asset
  <2>1. ASSUME NEW min_amount \in Minimums, NEW enabled \in BOOLEAN, set_asset(min_amount, enabled)
        PROVE  asset' \in Asset
    BY <2>1, BoundsAssumption DEF set_asset, Asset
  <2>2. CASE asset' = asset
    BY <2>2 DEF OrdersInv
  <2> QED BY <2>1, <2>2
       DEF initialize_config, update_config, set_venues, FeeAccountsChange, Freeze, vars
<1>4. AccountsOk'
  <2>1. ASSUME NEW o \in Orders, NEW which \in Freezable, Freeze(o, which)
        PROVE  AccountsOk'
    BY <2>1 DEF Freeze, AccountsOk, OrdersInv
  <2>2. CASE frozen' = frozen
    BY <2>2 DEF AccountsOk, OrdersInv, initialize_config, update_config, set_venues, set_asset,
                FeeAccountsChange, Freeze, vars
  <2> QED BY <2>1, <2>2
       DEF initialize_config, update_config, set_venues, set_asset, FeeAccountsChange, vars
<1> QED BY <1>1, <1>2, <1>3, <1>4 DEF OrdersInv

\* A step that rewrites one order's accounts well keeps the invariant.
LEMMA OneOrder ==
  ASSUME OrdersInv, UNCHANGED <<config, asset, feeAccounts>>, frozen' \subseteq frozen, NEW o \in Orders,
         NEW r, NEW v, NEW d, OrderOk(r, v, d),
         order' = [order EXCEPT ![o] = r], vault' = [vault EXCEPT ![o] = v],
         deal' = [deal EXCEPT ![o] = d]
  PROVE  OrdersInv'
<1>1. /\ order' = [q \in Orders |-> order'[q]] /\ DOMAIN order' = Orders
      /\ vault' = [q \in Orders |-> vault'[q]] /\ DOMAIN vault' = Orders
      /\ deal' = [q \in Orders |-> deal'[q]] /\ DOMAIN deal' = Orders
  BY DEF OrdersInv
<1>2. order'[o] = r /\ vault'[o] = v /\ deal'[o] = d
  BY DEF OrdersInv
<1>3. ASSUME NEW q \in Orders PROVE OrderOk(order'[q], vault'[q], deal'[q])
  <2>1. CASE q = o
    BY <1>2, <2>1
  <2>2. CASE q # o
    BY <2>2 DEF OrdersInv
  <2> QED BY <2>1, <2>2
<1>4. AccountsOk'
  BY DEF OrdersInv, AccountsOk
<1> QED BY <1>1, <1>3, <1>4 DEF OrdersInv

LEMMA CreateLemma ==
  ASSUME OrdersInv, NEW o \in Orders, NEW side \in Sides,
         NEW amount_in \in 0..MaxAmount, NEW min_out \in 0..MaxAmount,
         create_order(o, side, amount_in, min_out)
  PROVE  OrdersInv'
<1> DEFINE r == [status |-> "open", side |-> side, fees |-> config.fees, in_total |-> amount_in,
                 in_remaining |-> amount_in, min_out_remaining |-> min_out,
                 fee_base_cum |-> 0, fee_paid |-> 0]
           v == [in |-> amount_in, out |-> 0]
           d == [min_out |-> min_out, fees |-> config.fees, got |-> 0,
                 cancel_fee |-> 0, stray_in |-> 0, stray_out |-> 0]
<1>1. amount_in \in Nat /\ min_out \in Nat
  BY BoundsAssumption
<1>2. config.fees \in Fees /\ check_fees(config.fees)
  BY DEF create_order, OrdersInv, Config
<1>3. r \in Order /\ v \in [in : Nat, out : Nat] /\ d \in Deal
  BY <1>1, <1>2 DEF Order, Deal
<1>4. RateOk(r, d)
  BY <1>1 DEF RateOk
<1>5. FeesOk(r, d)
  <2>1. FeeBps(r) \in Nat /\ config.fees.cancel \in Nat
    BY <1>2, CapsLemma DEF FeeBps
  <2>2. fee_ceil(0, FeeBps(r)) = 0 /\ 0 <= fee_ceil(amount_in, config.fees.cancel)
    <3>1. fee_ceil(0, FeeBps(r)) = 0
      BY <2>1, NoFee
    <3>2. fee_ceil(amount_in, config.fees.cancel) \in Nat
      BY <1>1, <2>1, FeeCeilLemma
    <3> QED BY <3>1, <3>2
  <2> QED BY <2>2 DEF FeesOk
<1>6. OpenOk(r, v, d) /\ ClosedOk(r, v)
  BY <1>1, <1>2 DEF OpenOk, ClosedOk
<1>7. OrderOk(r, v, d)
  BY <1>3, <1>4, <1>5, <1>6 DEF OrderOk
<1>8. /\ order' = [order EXCEPT ![o] = r] /\ vault' = [vault EXCEPT ![o] = v]
      /\ deal' = [deal EXCEPT ![o] = d] /\ UNCHANGED <<config, asset, feeAccounts>> /\ frozen' \subseteq frozen
  BY DEF create_order
<1> HIDE DEF r, v, d
<1> QED BY <1>7, <1>8, OneOrder

\* A fill: the slice leaves the escrow, the owner receives at least what it owes.
LEMMA FillLemma ==
  ASSUME OrdersInv, NEW o \in Orders, NEW venue, NEW slice \in 0..MaxAmount,
         NEW in_after \in 0..MaxVault, NEW out_after \in 0..MaxVault, NEW tampered \in BOOLEAN,
         fill_order(o, venue, slice, in_after, out_after, tampered)
  PROVE  OrdersInv'
<1> DEFINE r == order[o]
           v == vault[o]
           d == deal[o]
           required == required_out(slice, r.in_remaining, r.min_out_remaining)
           buy_fee == IF r.side = "buy" THEN FeeDue(r, slice) ELSE 0
           received == out_after - v.out
           sell_fee == IF r.side = "buy" THEN 0 ELSE FeeDue(r, received)
           net == received - sell_fee
           reward == share_floor(net - required, r.fees.keeper)
           base == IF r.side = "buy" THEN slice ELSE received
           remaining == r.in_remaining - slice
           r2 == [r EXCEPT !.in_remaining = remaining, !.min_out_remaining = @ - required,
                           !.fee_base_cum = @ + base, !.fee_paid = @ + buy_fee + sell_fee,
                           !.status = IF remaining = 0 THEN "closed" ELSE "open"]
           v2 == IF remaining = 0 THEN Empty ELSE [in |-> in_after, out |-> out_after - received]
           d2 == [d EXCEPT !.got = @ + net - reward]
<1>1. /\ order' = [order EXCEPT ![o] = r2] /\ vault' = [vault EXCEPT ![o] = v2]
      /\ deal' = [deal EXCEPT ![o] = d2] /\ UNCHANGED <<config, asset, feeAccounts>> /\ frozen' \subseteq frozen
  BY DEF fill_order, OrdersInv
<1>2. /\ r.status = "open" /\ slice_allowed(slice, r.in_remaining, r.in_total)
      /\ v.in - buy_fee - in_after = SwapIn(slice, buy_fee)
      /\ received >= 0 /\ sell_fee <= received /\ net >= required
      /\ r.side = "buy" => buy_fee < slice
  BY DEF fill_order
<1>3. /\ r \in Order /\ v \in [in : Nat, out : Nat] /\ d \in Deal
      /\ RateOk(r, d) /\ FeesOk(r, d) /\ OpenOk(r, v, d)
  BY DEF OrdersInv, OrderOk
<1>4. /\ slice \in Nat /\ in_after \in Nat /\ out_after \in Nat /\ received \in Nat
      /\ r.in_remaining \in Nat \ {0} /\ slice \in 1..r.in_remaining /\ base \in Nat
      /\ r.min_out_remaining \in Nat /\ r.in_total \in Nat /\ d.min_out \in Nat
      /\ r.fee_base_cum \in Nat /\ r.fee_paid \in Nat /\ d.got \in Nat
      /\ d.stray_in \in Nat /\ d.stray_out \in Nat /\ remaining \in Nat
  BY <1>2, <1>3, BoundsAssumption DEF slice_allowed, Order, Deal
<1>5. required \in 0..r.min_out_remaining
      /\ r.in_remaining * (r.min_out_remaining - required) <= r.min_out_remaining * remaining
  BY <1>4, RequiredLemma
<1>6. r.fees \in Fees /\ check_fees(r.fees) /\ r.fees.keeper \in Nat /\ r.fees.keeper <= BPS
  BY <1>2, <1>3, CapsLemma DEF Order, OpenOk
<1>7. buy_fee + sell_fee = FeeDue(r, base) /\ FeeDue(r, base) \in Nat
      /\ r.fee_paid + FeeDue(r, base) = fee_ceil(r.fee_base_cum + base, FeeBps(r))
  <2>1. FeeDue(r, base) \in Nat
        /\ r.fee_paid + FeeDue(r, base) = fee_ceil(r.fee_base_cum + base, FeeBps(r))
    BY <1>3, <1>4, FeeDueLemma DEF FeesOk
  <2> QED BY <2>1
<1>8. buy_fee \in Nat /\ sell_fee \in Nat
  BY <1>7
<1>9. net - required \in Nat /\ reward \in 0..(net - required)
  <2>1. net - required \in Nat
    BY <1>2, <1>4, <1>5, <1>8
  <2> HIDE DEF net, required
  <2> QED BY <2>1, <1>6, FloorShare, CapsAssumption DEF share_floor
<1> HIDE DEF r, v, d, required, buy_fee, sell_fee, received, net, reward, base, remaining
<1>10. r2 \in Order
  <2>1. r.fee_paid + buy_fee + sell_fee \in Nat /\ r.fee_base_cum + base \in Nat
        /\ r.min_out_remaining - required \in Nat
    BY <1>4, <1>5, <1>8
  <2> QED BY <1>3, <1>4, <2>1 DEF Order
<1>11. d2 \in Deal /\ d2.got >= d.got + required
  <2>1. d.got + net - reward \in Nat /\ d.got + net - reward >= d.got + required
    <3>1. net \in Int /\ required \in Nat /\ reward \in Nat /\ reward <= net - required
      BY <1>4, <1>5, <1>8, <1>9 DEF net
    <3> QED BY <1>4, <3>1
  <2> QED BY <1>3, <2>1 DEF Deal
<1>12. RateOk(r2, d2)
  <2>1. r.min_out_remaining * r.in_total <= d.min_out * r.in_remaining
        /\ d.got + r.min_out_remaining >= d.min_out /\ r.in_remaining <= r.in_total
    BY <1>3 DEF RateOk
  <2>2. (r.min_out_remaining - required) * r.in_total <= d.min_out * (r.in_remaining - slice)
    BY <1>4, <1>5, <2>1, RateLemma DEF remaining
  <2>3. /\ r2.in_remaining = remaining /\ r2.in_total = r.in_total
        /\ r2.min_out_remaining = r.min_out_remaining - required /\ d2.min_out = d.min_out
    BY <1>3 DEF Order, Deal
  <2>4. remaining <= r.in_total
    BY <1>4, <2>1 DEF remaining
  <2>5. d2.got + (r.min_out_remaining - required) >= d.min_out
    BY <1>4, <1>5, <1>11, <2>1 DEF Deal
  <2> QED BY <2>2, <2>3, <2>4, <2>5 DEF RateOk, remaining
<1>13. FeesOk(r2, d2)
  <2>1. r.fees = d.fees /\ d.cancel_fee = 0
    BY <1>2, <1>3 DEF FeesOk, OpenOk
  <2>2. /\ r2.fees = r.fees /\ r2.side = r.side /\ r2.in_remaining = remaining
        /\ r2.fee_paid = r.fee_paid + buy_fee + sell_fee /\ r2.fee_base_cum = r.fee_base_cum + base
        /\ d2.fees = d.fees /\ d2.cancel_fee = d.cancel_fee
    BY <1>3 DEF Order, Deal
  <2>3. FeeBps(r2) = FeeBps(r)
    BY <2>2 DEF FeeBps
  <2>4. 0 <= fee_ceil(remaining, d.fees.cancel)
    <3>1. d.fees.cancel \in Nat
      BY <1>6, <2>1, CapsLemma
    <3>2. fee_ceil(remaining, d.fees.cancel) \in Nat
      BY <1>4, <3>1, FeeCeilLemma
    <3> QED BY <3>2
  <2>5. r.fee_paid + buy_fee + sell_fee = r.fee_paid + FeeDue(r, base)
    BY <1>4, <1>7, <1>8
  <2> HIDE DEF r2, d2
  <2> QED BY <1>7, <2>1, <2>2, <2>3, <2>4, <2>5 DEF FeesOk
<1>14. OpenOk(r2, v2, d2)
  <2>1. v.in = r.in_remaining + d.stray_in /\ v.out = d.stray_out /\ d.cancel_fee = 0
    BY <1>2, <1>3 DEF OpenOk
  <2>2. in_after = remaining + d.stray_in
    BY <1>2, <1>4, <1>8, <2>1 DEF SwapIn, remaining
  <2>3. out_after - received = d.stray_out
    BY <1>3, <1>4, <2>1 DEF received
  <2>4. r2.in_remaining = remaining /\ r2.fees = r.fees /\ d2.stray_in = d.stray_in
        /\ d2.stray_out = d.stray_out /\ d2.cancel_fee = d.cancel_fee
        /\ (r2.status = "open" => remaining # 0)
    BY <1>3 DEF Order, Deal
  <2> HIDE DEF r2, d2
  <2> QED BY <1>6, <2>1, <2>2, <2>3, <2>4 DEF OpenOk
<1>15. v2 \in [in : Nat, out : Nat]
  BY <1>3, <1>4 DEF Empty, received
<1>16. ClosedOk(r2, v2)
  <2>1. r2.status = "closed" => remaining = 0
    BY <1>3 DEF Order
  <2> QED BY <2>1 DEF ClosedOk
<1>17. OrderOk(r2, v2, d2)
  BY <1>10, <1>11, <1>12, <1>13, <1>14, <1>15, <1>16 DEF OrderOk
<1> HIDE DEF r2, v2, d2
<1> QED BY <1>1, <1>17, OneOrder

\* A cancel costs at most the agreed fee on what is left.
LEMMA CancelLemma ==
  ASSUME OrdersInv, NEW o \in Orders, cancel_order(o) \/ cancel_order_fee_frozen(o)
  PROVE  OrdersInv'
<1>1. PICK fee \in {CancelFee(o), 0} : Refund(o, fee)
  BY DEF cancel_order, cancel_order_fee_frozen
<1> DEFINE r == order[o]
           d == deal[o]
           r2 == [r EXCEPT !.status = "closed"]
           d2 == [d EXCEPT !.cancel_fee = fee]
<1>2. /\ order' = [order EXCEPT ![o] = r2] /\ vault' = [vault EXCEPT ![o] = Empty]
      /\ deal' = [deal EXCEPT ![o] = d2] /\ UNCHANGED <<config, asset, feeAccounts>> /\ frozen' \subseteq frozen
  BY <1>1 DEF Refund
<1>3. r \in Order /\ d \in Deal /\ RateOk(r, d) /\ FeesOk(r, d)
  BY DEF OrdersInv, OrderOk
<1>4. r.in_remaining \in Nat /\ r.fees \in Fees /\ r.fees.cancel \in Nat /\ r.fees = d.fees
  BY <1>3, CapsLemma DEF Order, FeesOk
<1>5. fee \in Nat /\ fee <= fee_ceil(r.in_remaining, d.fees.cancel)
  <2> DEFINE c == fee_ceil(r.in_remaining, r.fees.cancel)
  <2>1. c \in Nat
    BY <1>4, FeeCeilLemma
  <2>2. fee = AtMost(c, r.in_remaining) \/ fee = 0
    BY <1>1 DEF CancelFee
  <2> HIDE DEF c
  <2>3. fee \in Nat /\ fee <= c
    BY <1>4, <2>1, <2>2 DEF AtMost
  <2> QED BY <1>4, <2>3 DEF c
<1> HIDE DEF r, d
<1>6. r2 \in Order /\ d2 \in Deal /\ Empty \in [in : Nat, out : Nat]
  BY <1>3, <1>5 DEF Order, Deal, Empty
<1>7. RateOk(r2, d2) /\ FeesOk(r2, d2) /\ OpenOk(r2, Empty, d2)
  BY <1>3, <1>5 DEF RateOk, FeesOk, OpenOk, FeeBps, Order, Deal
<1>8. OrderOk(r2, Empty, d2)
  BY <1>6, <1>7 DEF OrderOk, ClosedOk
<1> HIDE DEF r2, d2
<1> QED BY <1>2, <1>8, OneOrder

LEMMA StrayLemma ==
  ASSUME OrdersInv, NEW o \in Orders, NEW i \in 0..1, NEW j \in 0..1, SendToVault(o, i, j)
  PROVE  OrdersInv'
<1> DEFINE r == order[o]
           v2 == [vault[o] EXCEPT !.in = @ + i, !.out = @ + j]
           d2 == [deal[o] EXCEPT !.stray_in = @ + i, !.stray_out = @ + j]
<1>0. i \in Nat /\ j \in Nat
  OBVIOUS
<1>1. /\ vault' = [vault EXCEPT ![o] = v2] /\ deal' = [deal EXCEPT ![o] = d2]
      /\ order' = order /\ UNCHANGED <<config, asset, feeAccounts>> /\ frozen' \subseteq frozen
  BY DEF SendToVault, OrdersInv
<1>2. OrderOk(r, vault[o], deal[o]) /\ order' = [order EXCEPT ![o] = r]
  BY <1>1 DEF OrdersInv
<1>3. r \in Order /\ v2 \in [in : Nat, out : Nat] /\ d2 \in Deal
  <2>1. r \in Order /\ vault[o] \in [in : Nat, out : Nat] /\ deal[o] \in Deal
    BY <1>2 DEF OrderOk
  <2>2. v2 \in [in : Nat, out : Nat]
    <3>1. vault[o].in + i \in Nat /\ vault[o].out + j \in Nat
      BY <1>0, <2>1
    <3>2. v2 = [vault[o] EXCEPT !.in = vault[o].in + i, !.out = vault[o].out + j]
      BY <2>1
    <3> QED BY <2>1, <3>1, <3>2
  <2>3. d2 \in Deal
    <3>1. deal[o].stray_in + i \in Nat /\ deal[o].stray_out + j \in Nat
      BY <1>0, <2>1 DEF Deal
    <3>2. d2 = [deal[o] EXCEPT !.stray_in = deal[o].stray_in + i,
                               !.stray_out = deal[o].stray_out + j]
      BY <2>1 DEF Deal
    <3> QED BY <2>1, <3>1, <3>2 DEF Deal
  <2> QED BY <2>1, <2>2, <2>3
<1>4. RateOk(r, d2) /\ FeesOk(r, d2) /\ OpenOk(r, v2, d2)
  <2>1. /\ d2.min_out = deal[o].min_out /\ d2.got = deal[o].got /\ d2.fees = deal[o].fees
        /\ d2.cancel_fee = deal[o].cancel_fee
        /\ d2.stray_in = deal[o].stray_in + i /\ d2.stray_out = deal[o].stray_out + j
        /\ v2.in = vault[o].in + i /\ v2.out = vault[o].out + j
    BY <1>2 DEF OrderOk, Deal
  <2>2. r.in_remaining \in Nat /\ deal[o].stray_in \in Nat /\ deal[o].stray_out \in Nat
    BY <1>2 DEF OrderOk, Deal, Order
  <2> HIDE DEF v2, d2
  <2> QED BY <1>0, <1>2, <2>1, <2>2 DEF OrderOk, RateOk, FeesOk, OpenOk
<1>5. r.status = "open"
  BY DEF SendToVault
<1>6. OrderOk(r, v2, d2)
  BY <1>3, <1>4, <1>5 DEF OrderOk, ClosedOk, Order
<1> HIDE DEF r, v2, d2
<1> QED BY <1>1, <1>2, <1>6, OneOrder

LEMMA OrdersNext == OrdersInv /\ [Next]_vars => OrdersInv'
BY AdminLemma, CreateLemma, FillLemma, CancelLemma, StrayLemma DEF Next

LEMMA OrdersInvAlways == Spec => []OrdersInv
<1> QED BY OrdersInit, OrdersNext, PTL DEF Spec

-----------------------------------------------------------------------------
(* Whoever is in can leave.                                                *)

\* Orders are opened under a configuration, which stays for ever.
ListedInv == OrdersInv /\ (config = Unset => \A o \in Orders : order[o].status = "closed")

LEMMA UnsetIsNone == Unset \notin Config
BY DEF Unset, Config

\* No instruction takes the configuration away.
LEMMA ConfigStays ==
  ASSUME OrdersInv, config # Unset, [Next]_vars
  PROVE  config' # Unset
<1>1. config \in Config
  BY DEF OrdersInv
<1>2. ASSUME NEW f \in Fees, NEW accounts \in FeeAccounts, NEW paused \in BOOLEAN,
             update_config(f, paused, accounts)
      PROVE  config' \in Config
  BY <1>1, <1>2 DEF update_config, Config
<1>3. ASSUME NEW venues \in SUBSET Programs, set_venues(venues)
      PROVE  config' \in Config
  BY <1>1, <1>3 DEF set_venues, Config
<1>4. CASE config' = config
  BY <1>4
<1>5. \A f \in Fees, accounts \in FeeAccounts : ~initialize_config(f, accounts)
  BY DEF initialize_config
<1>6. ASSUME NEW o \in Orders, NEW side \in Sides, NEW amount_in \in 0..MaxAmount,
             NEW min_out \in 0..MaxAmount, create_order(o, side, amount_in, min_out)
      PROVE  config' = config
  BY <1>6 DEF create_order
<1>7. ASSUME NEW o \in Orders, NEW venue \in Programs, NEW slice \in 0..MaxAmount,
             NEW in_after \in 0..MaxVault, NEW out_after \in 0..MaxVault, NEW tampered \in BOOLEAN,
             fill_order(o, venue, slice, in_after, out_after, tampered)
      PROVE  config' = config
  BY <1>7 DEF fill_order
<1>8. ASSUME NEW o \in Orders, cancel_order(o) \/ cancel_order_fee_frozen(o)
      PROVE  config' = config
  BY <1>8 DEF cancel_order, cancel_order_fee_frozen, Refund
<1>9. ASSUME NEW o \in Orders, NEW i \in 0..1, NEW j \in 0..1, SendToVault(o, i, j)
      PROVE  config' = config
  BY <1>9 DEF SendToVault
<1>10. ASSUME NEW m \in Minimums, NEW enabled \in BOOLEAN, set_asset(m, enabled)
       PROVE  config' = config
  BY <1>10 DEF set_asset
<1>11. ASSUME \/ \E accounts \in FeeAccounts : FeeAccountsChange(accounts)
              \/ \E o \in Orders, which \in Freezable : Freeze(o, which)
              \/ UNCHANGED vars
       PROVE  config' = config
  BY <1>11 DEF FeeAccountsChange, Freeze, vars
<1> QED BY <1>2, <1>3, <1>4, <1>5, <1>6, <1>7, <1>8, <1>9, <1>10, <1>11, UnsetIsNone DEF Next

\* Without one, no instruction touches an order.
LEMMA NoOrderYet ==
  ASSUME ListedInv, config = Unset, [Next]_vars
  PROVE  order' = order
<1>1. \A o \in Orders, side \in Sides, amount_in, min_out \in 0..MaxAmount :
        ~create_order(o, side, amount_in, min_out)
  BY DEF create_order
<1>2. \A o \in Orders, venue \in Programs, slice \in 0..MaxAmount,
         in_after, out_after \in 0..MaxVault, tampered \in BOOLEAN :
        ~fill_order(o, venue, slice, in_after, out_after, tampered)
  BY DEF fill_order
<1>3. \A o \in Orders : ~cancel_order(o) /\ ~cancel_order_fee_frozen(o)
  BY DEF cancel_order, MayCancel, cancel_order_fee_frozen, MayCancelFeeFrozen, CancelAccounts
<1>4. \A o \in Orders, i, j \in 0..1 : SendToVault(o, i, j) => order' = order
  BY DEF SendToVault
<1>5. OrdersInv
  BY DEF ListedInv
<1> QED BY <1>1, <1>2, <1>3, <1>4, <1>5, AdminLemma DEF Next

LEMMA ListedNext == ListedInv /\ [Next]_vars => ListedInv'
<1> SUFFICES ASSUME ListedInv, [Next]_vars PROVE ListedInv'
  OBVIOUS
<1>1. OrdersInv'
  BY OrdersNext DEF ListedInv
<1>2. CASE config = Unset
  BY <1>1, <1>2, NoOrderYet DEF ListedInv
<1>3. CASE config # Unset
  BY <1>1, <1>3, ConfigStays DEF ListedInv
<1> QED BY <1>2, <1>3

LEMMA ListedAlways == Spec => []ListedInv
<1>1. Init => ListedInv
  <2> SUFFICES ASSUME Init PROVE \A o \in Orders : order[o].status = "closed"
    BY OrdersInit DEF ListedInv
  <2> QED BY DEF Init
<1> QED BY <1>1, ListedNext, PTL DEF Spec

-----------------------------------------------------------------------------
(* Theorems.                                                               *)

\* Every variable of the order program keeps its type.
THEOREM OrdersTypeCorrect == Spec => []TypeOK
<1>1. OrdersInv => TypeOK
  BY DEF OrdersInv, OrderOk, TypeOK, AccountsOk
<1> QED BY <1>1, OrdersInvAlways, PTL

\* The vaults of an open order hold what is left of the escrow and what strangers sent, and
\* those of a closed one nothing.
THEOREM VaultsAccountedAlways == Spec => []VaultsAccounted
<1>1. OrdersInv => VaultsAccounted
  BY DEF OrdersInv, OrderOk, OpenOk, ClosedOk, Order, VaultsAccounted
<1> QED BY <1>1, OrdersInvAlways, PTL

\* However an order is sliced, the owner received the agreed share for what was spent.
THEOREM LimitKeptAlways == Spec => []LimitKept
<1>1. ASSUME OrdersInv, NEW o \in Orders
      PROVE  deal[o].got * order[o].in_total
               >= deal[o].min_out * (order[o].in_total - order[o].in_remaining)
  <2> DEFINE g == deal[o].got
             T == order[o].in_total
             M == deal[o].min_out
             m == order[o].min_out_remaining
             R == order[o].in_remaining
  <2>1. /\ g \in Nat /\ T \in Nat /\ M \in Nat /\ m \in Nat /\ R \in Nat
        /\ m * T <= M * R /\ g + m >= M
    BY <1>1 DEF OrdersInv, OrderOk, Order, Deal, RateOk
  <2> HIDE DEF g, T, M, m, R
  <2>2. (g + m) * T >= M * T
    BY <2>1, MulMono
  <2>3. (g + m) * T = g * T + m * T /\ M * (T - R) = M * T - M * R
    BY <2>1, Z3
  <2>4. g * T \in Int /\ m * T \in Int /\ M * T \in Int /\ M * R \in Int
    BY <2>1
  <2> QED BY <2>1, <2>2, <2>3, <2>4 DEF g, T, M, m, R
<1>2. OrdersInv => LimitKept
  BY <1>1 DEF LimitKept
<1> QED BY <1>2, OrdersInvAlways, PTL

\* What Aretia took is the ceiling of the whole, at the rates of the day of creation.
THEOREM FeesAsAgreedAlways == Spec => []FeesAsAgreed
<1>1. OrdersInv => FeesAsAgreed
  BY DEF OrdersInv, OrderOk, FeesOk, FeesAsAgreed, FeeBps
<1> QED BY <1>1, OrdersInvAlways, PTL

\* Where the fee wallet has its accounts and no payment has to pass a frozen one, both
\* cancels never refuse the owner of an open order: the escrow covers the fee agreed, and a
\* fee account that is frozen opens the other way.
THEOREM OwnerCanLeaveAlways == Spec => []OwnerCanLeave
<1>1. ASSUME ListedInv PROVE OwnerCanLeave
  <2> SUFFICES ASSUME NEW o \in Orders, order[o].status = "open",
                      feeAccounts.payment # {}, feeAccounts.launch,
                      PaymentIn(o) > 0 => {<<o, "escrow">>, <<o, "owner">>} \cap frozen = {}
               PROVE  MayCancel(o) \/ MayCancelFeeFrozen(o)
    BY DEF OwnerCanLeave
  <2>1. config # Unset /\ OrderOk(order[o], vault[o], deal[o])
    BY <1>1 DEF ListedInv, OrdersInv
  <2>2. /\ order[o].in_remaining \in Nat /\ order[o].fees.cancel \in Nat /\ deal[o].stray_in \in Nat
        /\ vault[o].in = order[o].in_remaining + deal[o].stray_in
    BY <2>1, CapsLemma DEF OrderOk, OpenOk, Order, Deal
  <2>3. CancelFee(o) <= vault[o].in
    <3> DEFINE c == fee_ceil(order[o].in_remaining, order[o].fees.cancel)
    <3>1. c \in Nat
      BY <2>2, FeeCeilLemma
    <3>2. CancelFee(o) = AtMost(c, order[o].in_remaining)
      BY DEF CancelFee
    <3> HIDE DEF c
    <3> QED BY <2>2, <3>1, <3>2 DEF AtMost
  <2>4. CancelFee(o) \in Nat /\ PaymentIn(o) \in Nat
    <3>1. fee_ceil(order[o].in_remaining, order[o].fees.cancel) \in Nat
      BY <2>2, FeeCeilLemma
    <3> QED BY <2>1, <2>2, <3>1 DEF CancelFee, AtMost, PaymentIn, OrderOk
  <2>5. CancelAccounts(o)
    BY <2>1 DEF CancelAccounts
  <2>6. /\ PaymentMoves(o, PaymentIn(o), PaymentIn(o))
        /\ PaymentMoves(o, PaymentIn(o), PaymentIn(o) - CancelFee(o))
    BY <2>4 DEF PaymentMoves
  <2>7. feeAccounts.payment \subseteq {"open", "frozen"}
    BY <1>1, AccountsAssumption DEF ListedInv, OrdersInv, AccountsOk
  <2>8. CASE "open" \in feeAccounts.payment
    BY <2>3, <2>5, <2>6, <2>8 DEF MayCancel, FeeAccountTakes
  <2>9. CASE "frozen" \in feeAccounts.payment
    <3>1. CASE order[o].side = "buy"
      BY <2>5, <2>6, <2>9, <3>1 DEF MayCancelFeeFrozen
    <3>2. CASE order[o].side # "buy"
      BY <2>3, <2>5, <2>6, <3>2 DEF MayCancel
    <3> QED BY <3>1, <3>2
  <2> QED BY <2>7, <2>8, <2>9
<1> QED BY <1>1, ListedAlways, PTL
=============================================================================
