----------------------------- MODULE PoolProofs -----------------------------
(***************************************************************************)
(* What the swap pool promises its liquidity providers, for any fees, any  *)
(* amounts and any trades.                                                 *)
(***************************************************************************)
EXTENDS Pool, ProgramMathProofs

-----------------------------------------------------------------------------
(* Arithmetic.                                                             *)

PoolOk(p) == p \in Pool /\ p.l >= MIN_LIQUIDITY /\ big_x(p) > 0
PosOk(q) == q \in Position /\ q.locked <= q.shares

LEMMA PoolNumbers ==
  ASSUME NEW p, PoolOk(p)
  PROVE  /\ p.x \in Nat /\ p.vx \in Nat /\ p.y \in Nat /\ p.l \in Nat \ {0}
         /\ p.acc \in 0..(ACC_MOD - 1) /\ p.fee_reserve \in Nat
         /\ big_x(p) \in Nat \ {0} /\ big_y(p) \in Nat \ {0} /\ k(p) \in Nat
<1>1. /\ p.x \in Nat /\ p.vx \in Nat /\ p.y \in Nat /\ p.l \in Nat \ {0}
      /\ p.acc \in 0..(ACC_MOD - 1) /\ p.fee_reserve \in Nat
  BY LiquidityAssumption DEF PoolOk, Pool
<1>2. big_x(p) \in Nat \ {0} /\ big_y(p) \in Nat \ {0}
  BY <1>1 DEF PoolOk, big_x, big_y
<1> QED BY <1>1, <1>2 DEF k

\* A part of a whole, less the whole when it is less than all of it.
LEMMA RemovePartOk ==
  ASSUME NEW r \in Nat, NEW l \in Nat \ {0}, NEW dl \in Nat, dl < l
  PROVE  /\ RemovePart(r, dl, l) \in 0..r
         /\ (r - RemovePart(r, dl, l)) * l >= r * (l - dl)
         /\ r > 0 => r - RemovePart(r, dl, l) > 0
<1> DEFINE q == RemovePart(r, dl, l)
<1>1. q \in 0..r
  BY FloorShare DEF RemovePart
<1>2. l * q <= r * dl
  <2>1. r * dl \in Nat
    OBVIOUS
  <2> QED BY <2>1, FloorLemma DEF RemovePart
<1> HIDE DEF q
<1>3. (r - q) * l >= r * (l - dl)
  <2>1. (r - q) * l = r * l - l * q /\ r * (l - dl) = r * l - r * dl
    BY <1>1, Z3
  <2>2. r * l \in Int /\ l * q \in Int /\ r * dl \in Int
    BY <1>1
  <2> QED BY <1>2, <2>1, <2>2
<1>4. ASSUME r > 0 PROVE r - q > 0
  <2> SUFFICES ASSUME q = r PROVE FALSE
    BY <1>1
  <2>1. l * r <= r * dl
    BY <1>2
  <2> QED BY <1>4, <2>1, Z3
<1> QED BY <1>1, <1>3, <1>4 DEF q

LEMMA AddPartOk ==
  ASSUME NEW r \in Nat, NEW l \in Nat \ {0}, NEW dl \in Nat
  PROVE  /\ AddPart(r, dl, l) \in Nat
         /\ (r + AddPart(r, dl, l)) * l >= r * (l + dl)
<1> DEFINE q == AddPart(r, dl, l)
<1>1. r * dl \in Nat
  OBVIOUS
<1>2. q \in Nat /\ l * q >= r * dl
  BY <1>1, CeilLemma DEF AddPart
<1> HIDE DEF q
<1>3. (r + q) * l = r * l + l * q /\ r * (l + dl) = r * l + r * dl
  BY <1>2, Z3
<1>4. r * l \in Int /\ l * q \in Int /\ r * dl \in Int
  BY <1>2
<1> QED BY <1>2, <1>3, <1>4 DEF q

\* Two sides that each keep their value per share keep it together.
LEMMA ProductLemma ==
  ASSUME NEW x \in Nat, NEW y \in Nat, NEW l \in Nat, NEW x2 \in Nat, NEW y2 \in Nat, NEW m \in Nat,
         x2 * l >= x * m, y2 * l >= y * m
  PROVE  x2 * y2 * l * l >= x * y * m * m
<1> DEFINE a == x2 * l  b == y2 * l  c == x * m  d == y * m
<1>1. a \in Nat /\ b \in Nat /\ c \in Nat /\ d \in Nat /\ a >= c /\ b >= d
  OBVIOUS
<1>2. a * b = x2 * y2 * l * l /\ c * d = x * y * m * m
  BY Z3
<1> HIDE DEF a, b, c, d
<1>3. a * b >= a * d /\ a * d >= c * d
  BY <1>1, MulMono
<1>4. a * b \in Int /\ a * d \in Int /\ c * d \in Int
  BY <1>1
<1>5. a * b >= c * d
  BY <1>3, <1>4
<1> QED BY <1>2, <1>5

\* A trade keeps the product, whichever side is rounded.
LEMMA TradeLemma ==
  ASSUME NEW a \in Nat \ {0}, NEW b \in Nat \ {0}, NEW n \in Nat
  PROVE  /\ CeilDiv(a * b, b + n) \in 0..a
         /\ CeilDiv(a * b, b + n) * (b + n) >= a * b
<1> DEFINE q == CeilDiv(a * b, b + n)
<1>1. a * b \in Nat /\ b + n \in Nat \ {0}
  OBVIOUS
<1>2. q \in Nat /\ (b + n) * q >= a * b
  BY <1>1, CeilLemma
<1>3. a * b <= (b + n) * a
  BY Z3
<1>4. q <= a
  BY <1>1, <1>3, CeilLeast
<1> HIDE DEF q
<1>5. q * (b + n) = (b + n) * q
  BY <1>2, Z3
<1> QED BY <1>2, <1>4, <1>5 DEF q

LEMMA EffectiveFee ==
  ASSUME NEW p \in Pool, now \in Nat
  PROVE  effective_fee_bps(p) \in Nat
<1> DEFINE e == SatSub(now, p.created_at)
           n == (p.fee_start_bps - p.fee_bps) * (p.decay_secs - e)
<1>1. /\ p.fee_bps \in Nat /\ p.fee_start_bps \in Nat /\ p.decay_secs \in Nat /\ p.created_at \in Nat
  <2>1. /\ p.fee_bps \in ALLOWED_FEE_BPS /\ p.fee_start_bps \in Nat /\ p.decay_secs \in Nat
        /\ p.created_at \in Nat
    BY DEF Pool
  <2>2. p.fee_bps \in 0..BPS /\ BPS \in Nat
    BY <2>1, BpsAssumption
  <2> QED BY <2>1, <2>2
<1>2. e \in Nat
  BY <1>1 DEF SatSub
<1> HIDE DEF e
<1>3. CASE p.decay_secs = 0 \/ p.fee_start_bps <= p.fee_bps \/ e >= p.decay_secs
  BY <1>1, <1>3 DEF effective_fee_bps, e
<1>4. CASE ~(p.decay_secs = 0 \/ p.fee_start_bps <= p.fee_bps \/ e >= p.decay_secs)
  <2>1. p.fee_start_bps - p.fee_bps \in Nat /\ p.decay_secs - e \in Nat /\ p.decay_secs \in Nat \ {0}
    BY <1>1, <1>2, <1>4
  <2>2. n \in Nat
    BY <2>1
  <2>3. CeilDiv(n, p.decay_secs) \in Nat
    BY <2>1, <2>2, CeilLemma
  <2>4. effective_fee_bps(p) = p.fee_bps + CeilDiv(n, p.decay_secs)
    BY <1>4 DEF effective_fee_bps, e
  <2> QED BY <1>1, <2>3, <2>4
<1> QED BY <1>3, <1>4

LEMMA FeeOk ==
  ASSUME NEW p \in Pool, now \in Nat, NEW gross \in Nat
  PROVE  /\ TradeFee(p, gross) \in 0..gross
         /\ protocol_part(TradeFee(p, gross)) \in 0..TradeFee(p, gross)
         /\ LpPart(TradeFee(p, gross)) \in 0..TradeFee(p, gross)
<1> DEFINE e == effective_fee_bps(p)
           f == TradeFee(p, gross)
<1>1. e \in Nat
  BY EffectiveFee
<1> HIDE DEF e
<1>2. gross * e \in Nat
  BY <1>1
<1>3. fee_up(gross, e) \in Nat
  BY <1>2, BpsAssumption, CeilLemma DEF fee_up
<1>4. f \in 0..gross
  BY <1>3 DEF TradeFee, AtMost, e
<1>5. protocol_part(f) \in 0..f
  <2> HIDE DEF f
  <2> QED BY <1>4, BpsAssumption, FloorShare DEF protocol_part
<1> QED BY <1>4, <1>5 DEF LpPart

\* A credit moves the accumulator and the fee reserve alone.
LEMMA CreditOk ==
  ASSUME NEW p \in Pool, p.l \in Nat \ {0}, NEW fee \in Nat, LpPart(fee) \in Nat
  PROVE  /\ credit(p, fee) \in Pool
         /\ credit(p, fee).x = p.x /\ credit(p, fee).vx = p.vx /\ credit(p, fee).y = p.y
         /\ credit(p, fee).l = p.l
         /\ credit(p, fee).fee_reserve = p.fee_reserve + LpPart(fee)
<1> DEFINE a == (p.acc + PerShare(p, fee)) % ACC_MOD
<1>1. p.acc \in Nat /\ p.fee_reserve \in Nat
  BY AccAssumption DEF Pool
<1>2. LpPart(fee) * ACC_ONE \in Nat
  BY AccAssumption
<1>3. PerShare(p, fee) \in Nat
  BY <1>2, FloorLemma DEF PerShare
<1>4. a \in 0..(ACC_MOD - 1)
  BY <1>1, <1>3, AccAssumption
<1> HIDE DEF a
<1>5. credit(p, fee) = [p EXCEPT !.acc = a, !.fee_reserve = p.fee_reserve + LpPart(fee)]
  BY DEF credit, a
<1> DEFINE n == p.fee_reserve + LpPart(fee)
<1>6. n \in Nat
  BY <1>1
<1> HIDE DEF n
<1>7. credit(p, fee) = [p EXCEPT !.acc = a, !.fee_reserve = n]
  BY <1>5 DEF n
<1>8. credit(p, fee) \in Pool
  BY <1>4, <1>6, <1>7 DEF Pool
<1>9. /\ credit(p, fee).x = p.x /\ credit(p, fee).vx = p.vx /\ credit(p, fee).y = p.y
      /\ credit(p, fee).l = p.l /\ credit(p, fee).fee_reserve = n
  BY <1>7 DEF Pool
<1> QED BY <1>8, <1>9 DEF n

\* The distance from a checkpoint to the accumulator.
LEMMA SinceIs ==
  ASSUME NEW a \in 0..(ACC_MOD - 1), NEW c \in 0..(ACC_MOD - 1)
  PROVE  /\ Since(a, c) \in 0..(ACC_MOD - 1)
         /\ Since(a, c) = IF a >= c THEN a - c ELSE a + ACC_MOD - c
<1>1. CASE a >= c
  <2>1. a + ACC_MOD - c = (a - c) + ACC_MOD /\ a - c \in 0..(ACC_MOD - 1)
    BY <1>1, AccAssumption
  <2>2. ((a - c) + ACC_MOD) % ACC_MOD = a - c
    BY <2>1, AccAssumption, Z3
  <2> QED BY <1>1, <2>1, <2>2 DEF Since
<1>2. CASE a < c
  <2>1. a + ACC_MOD - c \in 0..(ACC_MOD - 1)
    BY <1>2, AccAssumption
  <2>2. (a + ACC_MOD - c) % ACC_MOD = a + ACC_MOD - c
    BY <2>1, AccAssumption, Z3
  <2> QED BY <1>2, <2>1, <2>2, AccAssumption DEF Since
<1> QED BY <1>1, <1>2, AccAssumption

\* An accumulator that moves on without lapping a checkpoint is further from it.
LEMMA SinceGrows ==
  ASSUME NEW a \in 0..(ACC_MOD - 1), NEW b \in 0..(ACC_MOD - 1), NEW c \in 0..(ACC_MOD - 1),
         Since(a, c) + Since(b, a) < ACC_MOD
  PROVE  Since(b, c) >= Since(a, c)
<1>1. Since(a, c) = IF a >= c THEN a - c ELSE a + ACC_MOD - c
  BY SinceIs
<1>2. Since(b, a) = IF b >= a THEN b - a ELSE b + ACC_MOD - a
  BY SinceIs
<1>3. Since(b, c) = IF b >= c THEN b - c ELSE b + ACC_MOD - c
  BY SinceIs
<1>4. a \in Int /\ b \in Int /\ c \in Int /\ ACC_MOD \in Int
  BY AccAssumption
<1> QED BY <1>1, <1>2, <1>3, <1>4

\* Two moves of the accumulator that together do not lap the checkpoint add up.
LEMMA SinceAdds ==
  ASSUME NEW a \in 0..(ACC_MOD - 1), NEW b \in 0..(ACC_MOD - 1), NEW c \in 0..(ACC_MOD - 1),
         Since(a, c) + Since(b, a) < ACC_MOD
  PROVE  Since(b, c) = Since(a, c) + Since(b, a)
<1>1. Since(a, c) = IF a >= c THEN a - c ELSE a + ACC_MOD - c
  BY SinceIs
<1>2. Since(b, a) = IF b >= a THEN b - a ELSE b + ACC_MOD - a
  BY SinceIs
<1>3. Since(b, c) = IF b >= c THEN b - c ELSE b + ACC_MOD - c
  BY SinceIs
<1>4. a \in Int /\ b \in Int /\ c \in Int /\ ACC_MOD \in Int
  BY AccAssumption
<1> QED BY <1>1, <1>2, <1>3, <1>4

LEMMA PendingOk ==
  ASSUME NEW s \in Nat, NEW a \in 0..(ACC_MOD - 1), NEW c \in 0..(ACC_MOD - 1)
  PROVE  pending_fee(s, a, c) \in Nat
<1>1. Since(a, c) \in Nat
  BY SinceIs
<1>2. s * Since(a, c) \in Nat
  BY <1>1
<1> QED BY <1>2, AccAssumption, FloorLemma DEF pending_fee

LEMMA FloorMono ==
  ASSUME NEW a \in Nat, NEW c \in Nat, NEW b \in Nat \ {0}, a <= c
  PROVE  a \div b <= c \div b
<1> DEFINE p == a \div b  q == c \div b
<1>1. p \in Nat /\ q \in Nat /\ b * p <= a /\ c < b * q + b
  BY FloorLemma
<1> HIDE DEF p, q
<1>2. b * p < b * (q + 1)
  <2>1. b * (q + 1) = b * q + b /\ b * p \in Nat /\ b * q \in Nat
    BY <1>1, Z3
  <2> QED BY <1>1, <2>1
<1>3. p < q + 1
  BY <1>1, <1>2, CancelFactor
<1>4. p <= q
  BY <1>1, <1>3
<1> QED BY <1>4 DEF p, q

LEMMA PendingGrows ==
  ASSUME NEW s \in Nat, NEW a \in 0..(ACC_MOD - 1), NEW b \in 0..(ACC_MOD - 1),
         NEW c \in 0..(ACC_MOD - 1), Since(a, c) + Since(b, a) < ACC_MOD
  PROVE  pending_fee(s, b, c) >= pending_fee(s, a, c)
<1> DEFINE d == Since(a, c)  e == Since(b, c)
<1>1. d \in Nat /\ e \in Nat /\ d <= e
  BY SinceIs, SinceGrows, AccAssumption
<1> HIDE DEF d, e
<1>2. s * d <= s * e /\ s * d \in Nat /\ s * e \in Nat
  BY <1>1, MulMono
<1>3. (s * d) \div ACC_ONE <= (s * e) \div ACC_ONE
  BY <1>2, AccAssumption, FloorMono
<1>4. (s * d) \div ACC_ONE \in Nat /\ (s * e) \div ACC_ONE \in Nat
  BY <1>2, AccAssumption, FloorLemma
<1> QED BY <1>3, <1>4 DEF pending_fee, d, e

\* Nothing is pending at a checkpoint just written.
LEMMA PendingZero ==
  ASSUME NEW s \in Nat, NEW a \in 0..(ACC_MOD - 1)
  PROVE  pending_fee(s, a, a) = 0
<1>1. Since(a, a) = 0
  BY SinceIs
<1>2. s * 0 = 0
  OBVIOUS
<1>3. 0 \div ACC_ONE = 0
  BY AccAssumption, Z3
<1> QED BY <1>1, <1>2, <1>3 DEF pending_fee

-----------------------------------------------------------------------------
(* Pools after an operation.                                               *)

LEMMA BuyMath ==
  ASSUME NEW p, PoolOk(p), NEW net \in Nat, NEW fee \in Nat, LpPart(fee) \in Nat,
         TokensOut(p, net) < big_x(p), TokensOut(p, net) <= p.x
  PROVE  LET q == AfterBuy(p, net, TokensOut(p, net), fee) IN
         /\ TokensOut(p, net) \in Nat
         /\ PoolOk(q) /\ q.l = p.l /\ k(q) >= k(p)
         /\ q.x = p.x - TokensOut(p, net) /\ q.y = p.y + net
         /\ q.fee_reserve = p.fee_reserve + LpPart(fee)
<1> DEFINE out == TokensOut(p, net)
           m == [p EXCEPT !.x = p.x - out, !.y = p.y + net]
           q == AfterBuy(p, net, out, fee)
           z == CeilDiv(k(p), big_y(p) + net)
<1>1. /\ p.x \in Nat /\ p.vx \in Nat /\ p.y \in Nat /\ p.l \in Nat \ {0}
      /\ big_x(p) \in Nat \ {0} /\ big_y(p) \in Nat \ {0}
  BY PoolNumbers
<1>2. z \in 0..big_x(p) /\ z * (big_y(p) + net) >= k(p)
  BY <1>1, TradeLemma DEF k
<1>3. out = big_x(p) - z /\ out \in Nat
  BY <1>1, <1>2 DEF TokensOut
<1>4. p.x - out \in Nat /\ p.y + net \in Nat
  BY <1>1, <1>3
<1> HIDE DEF out, z
<1>5. p \in Pool
  BY DEF PoolOk
<1>6. m \in Pool /\ m.x = p.x - out /\ m.y = p.y + net /\ m.vx = p.vx /\ m.l = p.l
      /\ m.fee_reserve = p.fee_reserve
  BY <1>4, <1>5 DEF Pool
<1>7. q = credit(m, fee)
  BY DEF AfterBuy, out
<1> HIDE DEF m, q
<1>8. /\ q \in Pool /\ q.x = p.x - out /\ q.vx = p.vx /\ q.y = p.y + net /\ q.l = p.l
      /\ q.fee_reserve = p.fee_reserve + LpPart(fee)
  BY <1>1, <1>6, <1>7, CreditOk
<1>9. big_x(q) = z /\ big_y(q) = big_y(p) + net /\ z > 0
  BY <1>1, <1>2, <1>3, <1>8 DEF big_x, big_y, out
<1>10. k(q) >= k(p)
  BY <1>2, <1>9 DEF k
<1>11. PoolOk(q)
  BY <1>2, <1>8, <1>9 DEF PoolOk
<1> QED BY <1>3, <1>8, <1>10, <1>11 DEF q, out

LEMMA SellMath ==
  ASSUME NEW p, PoolOk(p), NEW t \in Nat, NEW fee \in Nat, LpPart(fee) \in Nat,
         SolOut(p, t) <= p.y
  PROVE  LET q == AfterSell(p, t, SolOut(p, t), fee) IN
         /\ SolOut(p, t) \in Nat
         /\ PoolOk(q) /\ q.l = p.l /\ k(q) >= k(p)
         /\ q.x = p.x + t /\ q.y = p.y - SolOut(p, t)
         /\ q.fee_reserve = p.fee_reserve + LpPart(fee)
<1> DEFINE out == SolOut(p, t)
           m == [p EXCEPT !.x = p.x + t, !.y = p.y - out]
           q == AfterSell(p, t, out, fee)
           z == CeilDiv(k(p), big_x(p) + t)
<1>1. /\ p.x \in Nat /\ p.vx \in Nat /\ p.y \in Nat /\ p.l \in Nat \ {0}
      /\ big_x(p) \in Nat \ {0} /\ big_y(p) \in Nat \ {0}
  BY PoolNumbers
<1>2. z \in 0..big_y(p) /\ z * (big_x(p) + t) >= k(p)
  <2>1. k(p) = big_y(p) * big_x(p)
    BY <1>1, Z3 DEF k
  <2> QED BY <1>1, <2>1, TradeLemma
<1>3. out = big_y(p) - z /\ out \in Nat
  BY <1>1, <1>2 DEF SolOut
<1>4. p.y - out \in Nat /\ p.x + t \in Nat
  BY <1>1, <1>3
<1> HIDE DEF out, z
<1>5. p \in Pool
  BY DEF PoolOk
<1>6. m \in Pool /\ m.x = p.x + t /\ m.y = p.y - out /\ m.vx = p.vx /\ m.l = p.l
      /\ m.fee_reserve = p.fee_reserve
  BY <1>4, <1>5 DEF Pool
<1>7. q = credit(m, fee)
  BY DEF AfterSell, out
<1> HIDE DEF m, q
<1>8. /\ q \in Pool /\ q.x = p.x + t /\ q.vx = p.vx /\ q.y = p.y - out /\ q.l = p.l
      /\ q.fee_reserve = p.fee_reserve + LpPart(fee)
  BY <1>1, <1>6, <1>7, CreditOk
<1>9. big_y(q) = z /\ big_x(q) = big_x(p) + t
  <2>1. out = p.y + p.l - z /\ z \in Nat
    BY <1>1, <1>2, <1>3 DEF big_y
  <2>2. q.y + q.l = z /\ q.x + q.vx = p.x + p.vx + t
    BY <1>1, <1>3, <1>8, <2>1
  <2> QED BY <2>2 DEF big_x, big_y
<1>10. k(q) >= k(p)
  <2>1. k(q) = z * (big_x(p) + t)
    BY <1>1, <1>2, <1>9, Z3 DEF k
  <2> QED BY <1>2, <2>1
<1>11. PoolOk(q)
  BY <1>1, <1>8, <1>9 DEF PoolOk
<1> QED BY <1>3, <1>8, <1>10, <1>11 DEF q, out

LEMMA AddMath ==
  ASSUME NEW p, PoolOk(p), NEW dl \in Nat
  PROVE  LET q == Added(p, dl) IN
         /\ PoolOk(q) /\ q.l = p.l + dl /\ q.acc = p.acc /\ q.fee_reserve = p.fee_reserve
         /\ q.x >= p.x /\ q.y >= p.y
         /\ k(q) * p.l * p.l >= k(p) * q.l * q.l
<1> DEFINE q == Added(p, dl)
           ax == AddPart(p.x, dl, p.l)  av == AddPart(p.vx, dl, p.l)  ay == AddPart(p.y, dl, p.l)
<1>1. /\ p.x \in Nat /\ p.vx \in Nat /\ p.y \in Nat /\ p.l \in Nat \ {0}
      /\ big_x(p) \in Nat \ {0} /\ big_y(p) \in Nat \ {0}
  BY PoolNumbers
<1>2. /\ ax \in Nat /\ av \in Nat /\ ay \in Nat
      /\ (p.x + ax) * p.l >= p.x * (p.l + dl)
      /\ (p.vx + av) * p.l >= p.vx * (p.l + dl)
      /\ (p.y + ay) * p.l >= p.y * (p.l + dl)
  BY <1>1, AddPartOk
<1>3. q = [p EXCEPT !.x = p.x + ax, !.vx = p.vx + av, !.y = p.y + ay, !.l = p.l + dl]
  BY DEF Added
<1> HIDE DEF ax, av, ay, q
<1>4. /\ q \in Pool /\ q.x = p.x + ax /\ q.vx = p.vx + av /\ q.y = p.y + ay /\ q.l = p.l + dl
      /\ q.acc = p.acc /\ q.fee_reserve = p.fee_reserve
  <2>1. p \in Pool /\ p.x + ax \in Nat /\ p.vx + av \in Nat /\ p.y + ay \in Nat /\ p.l + dl \in Nat
    BY <1>1, <1>2 DEF PoolOk
  <2> QED BY <1>3, <2>1 DEF Pool
<1>5. PoolOk(q)
  <2>1. q.l >= MIN_LIQUIDITY /\ q.x + q.vx > 0
    BY <1>1, <1>2, <1>4, LiquidityAssumption DEF PoolOk, big_x
  <2> QED BY <1>4, <2>1 DEF PoolOk, big_x
<1>6. big_x(q) * p.l >= big_x(p) * q.l
  <2>1. big_x(q) * p.l = (p.x + ax) * p.l + (p.vx + av) * p.l
    BY <1>1, <1>2, <1>4, Z3 DEF big_x
  <2>2. big_x(p) * q.l = p.x * (p.l + dl) + p.vx * (p.l + dl)
    BY <1>1, <1>4, Z3 DEF big_x
  <2>3. /\ (p.x + ax) * p.l \in Int /\ (p.vx + av) * p.l \in Int
        /\ p.x * (p.l + dl) \in Int /\ p.vx * (p.l + dl) \in Int
    BY <1>1, <1>2
  <2> QED BY <1>2, <2>1, <2>2, <2>3
<1>7. big_y(q) * p.l >= big_y(p) * q.l
  <2>1. big_y(q) * p.l = (p.y + ay) * p.l + (p.l + dl) * p.l
    BY <1>1, <1>2, <1>4, Z3 DEF big_y
  <2>2. big_y(p) * q.l = p.y * (p.l + dl) + (p.l + dl) * p.l
    BY <1>1, <1>4, Z3 DEF big_y
  <2>3. /\ (p.y + ay) * p.l \in Int /\ (p.l + dl) * p.l \in Int /\ p.y * (p.l + dl) \in Int
    BY <1>1, <1>2
  <2> QED BY <1>2, <2>1, <2>2, <2>3
<1>8. k(q) * p.l * p.l >= k(p) * q.l * q.l
  <2>1. big_x(q) \in Nat /\ big_y(q) \in Nat /\ q.l \in Nat
    BY <1>5, PoolNumbers
  <2> QED BY <1>1, <1>6, <1>7, <2>1, ProductLemma DEF k
<1> QED BY <1>1, <1>2, <1>4, <1>5, <1>8 DEF q

LEMMA RemoveMath ==
  ASSUME NEW p, PoolOk(p), NEW dl \in Nat, dl < p.l, p.l - dl >= MIN_LIQUIDITY
  PROVE  LET q == Removed(p, dl) IN
         /\ PoolOk(q) /\ q.l = p.l - dl /\ q.acc = p.acc /\ q.fee_reserve = p.fee_reserve
         /\ q.x \in 0..p.x /\ q.y \in 0..p.y
         /\ k(q) * p.l * p.l >= k(p) * q.l * q.l
<1> DEFINE q == Removed(p, dl)
           ax == RemovePart(p.x, dl, p.l)  av == RemovePart(p.vx, dl, p.l)
           ay == RemovePart(p.y, dl, p.l)
<1>1. /\ p.x \in Nat /\ p.vx \in Nat /\ p.y \in Nat /\ p.l \in Nat \ {0}
      /\ big_x(p) \in Nat \ {0} /\ big_y(p) \in Nat \ {0}
  BY PoolNumbers
<1>2. /\ ax \in 0..p.x /\ av \in 0..p.vx /\ ay \in 0..p.y
      /\ (p.x - ax) * p.l >= p.x * (p.l - dl)
      /\ (p.vx - av) * p.l >= p.vx * (p.l - dl)
      /\ (p.y - ay) * p.l >= p.y * (p.l - dl)
      /\ (p.x > 0 => p.x - ax > 0) /\ (p.vx > 0 => p.vx - av > 0)
  BY <1>1, RemovePartOk
<1>9. /\ p.x - ax \in Nat /\ p.vx - av \in Nat /\ p.y - ay \in Nat /\ p.l - dl \in Nat
      /\ ax \in Int /\ av \in Int /\ ay \in Int
  <2> HIDE DEF ax, av, ay
  <2>1. /\ ax \in 0..p.x /\ av \in 0..p.vx /\ ay \in 0..p.y
    BY <1>2
  <2> QED BY <1>1, <2>1
<1>3. q = [p EXCEPT !.x = p.x - ax, !.vx = p.vx - av, !.y = p.y - ay, !.l = p.l - dl]
  BY DEF Removed
<1> HIDE DEF ax, av, ay, q
<1>4. /\ q \in Pool /\ q.x = p.x - ax /\ q.vx = p.vx - av /\ q.y = p.y - ay /\ q.l = p.l - dl
      /\ q.acc = p.acc /\ q.fee_reserve = p.fee_reserve
  <2>1. p \in Pool
    BY DEF PoolOk
  <2> QED BY <1>3, <1>9, <2>1 DEF Pool
<1>5. PoolOk(q)
  <2>1. p.x + p.vx > 0
    BY DEF PoolOk, big_x
  <2>3. p.x > 0 \/ p.vx > 0
    BY <1>1, <2>1
  <2>4. q.x > 0 \/ q.vx > 0
    BY <1>2, <1>4, <2>3, Zenon
  <2>5. q.x \in Nat /\ q.vx \in Nat
    BY <1>4, <1>9
  <2>2. q.x + q.vx > 0
    BY <2>4, <2>5
  <2> QED BY <1>4, <2>2 DEF PoolOk, big_x
<1>6. big_x(q) * p.l >= big_x(p) * q.l
  <2>1. big_x(q) * p.l = (p.x - ax) * p.l + (p.vx - av) * p.l
    BY <1>1, <1>2, <1>4, Z3 DEF big_x
  <2>2. big_x(p) * q.l = p.x * (p.l - dl) + p.vx * (p.l - dl)
    BY <1>1, <1>4, Z3 DEF big_x
  <2>3. /\ (p.x - ax) * p.l \in Int /\ (p.vx - av) * p.l \in Int
        /\ p.x * (p.l - dl) \in Int /\ p.vx * (p.l - dl) \in Int
    BY <1>1, <1>2
  <2> QED BY <1>2, <2>1, <2>2, <2>3
<1>7. big_y(q) * p.l >= big_y(p) * q.l
  <2> DEFINE ny == p.y - ay  nl == p.l - dl
  <2>1. ny \in Nat /\ nl \in Nat /\ ny * p.l >= p.y * nl
    BY <1>2, <1>9
  <2>2. big_y(q) = ny + nl /\ big_y(p) = p.y + p.l /\ q.l = nl
    BY <1>4 DEF big_y
  <2> HIDE DEF ny, nl
  <2>3. (ny + nl) * p.l = ny * p.l + nl * p.l /\ (p.y + p.l) * nl = p.y * nl + nl * p.l
    BY <1>1, <2>1, Z3
  <2>4. ny * p.l \in Int /\ nl * p.l \in Int /\ p.y * nl \in Int
    BY <1>1, <2>1
  <2> QED BY <2>1, <2>2, <2>3, <2>4
<1>8. k(q) * p.l * p.l >= k(p) * q.l * q.l
  <2>1. big_x(q) \in Nat /\ big_y(q) \in Nat /\ q.l \in Nat
    BY <1>5, PoolNumbers
  <2> QED BY <1>1, <1>6, <1>7, <2>1, ProductLemma DEF k
<1>10. q.x \in 0..p.x /\ q.y \in 0..p.y
  <2>1. /\ ax \in 0..p.x /\ ay \in 0..p.y
    BY <1>2
  <2> QED BY <1>1, <1>4, <1>9, <2>1
<1> QED BY <1>4, <1>5, <1>8, <1>10 DEF q

-----------------------------------------------------------------------------
(* Positions.                                                              *)

Due(q, acc) == q.pending + pending_fee(q.shares, acc, q.checkpoint)

LEMMA PosNumbers ==
  ASSUME NEW q, PosOk(q)
  PROVE  /\ q.shares \in Nat /\ q.locked \in Nat /\ q.pending \in Nat
         /\ q.checkpoint \in 0..(ACC_MOD - 1) /\ q.locked <= q.shares
         /\ q.owner \in Accounts /\ q.recipient \in Accounts /\ q # None
<1>1. q \in Position
  BY DEF PosOk
<1>2. q # None
  <2>1. "shares" \in DOMAIN q
    BY <1>1 DEF Position
  <2>2. "shares" \notin DOMAIN None
    BY DEF None
  <2> QED BY <2>1, <2>2
<1> QED BY <1>1, <1>2 DEF PosOk, Position

\* To settle a position moves what it is due into pending, and loses nothing of it.
LEMMA SettleOk ==
  ASSUME NEW q, PosOk(q), NEW p, PoolOk(p)
  PROVE  LET t == settle(q, p) IN
         /\ PosOk(t) /\ t.owner = q.owner /\ t.shares = q.shares /\ t.locked = q.locked
         /\ t.pending = Due(q, p.acc) /\ t.checkpoint = p.acc
         /\ Due(q, p.acc) \in Nat
<1> DEFINE n == Due(q, p.acc)  t == settle(q, p)
<1>1. p.acc \in 0..(ACC_MOD - 1)
  BY PoolNumbers
<1>2. n \in Nat
  BY <1>1, PosNumbers, PendingOk DEF Due
<1>3. t = [q EXCEPT !.pending = n, !.checkpoint = p.acc]
  BY DEF settle, Due
<1> HIDE DEF n, t
<1>4. /\ t \in Position /\ t.owner = q.owner /\ t.shares = q.shares /\ t.locked = q.locked
      /\ t.pending = n /\ t.checkpoint = p.acc
  BY <1>1, <1>2, <1>3 DEF PosOk, Position
<1> QED BY <1>2, <1>4 DEF PosOk, n, t

\* A settled position is due its pending fees, whatever happens to its shares.
LEMMA SettledDue ==
  ASSUME NEW q, PosOk(q), NEW p, PoolOk(p), q.checkpoint = p.acc
  PROVE  Due(q, p.acc) = q.pending
<1>1. p.acc \in 0..(ACC_MOD - 1)
  BY PoolNumbers
<1>2. q.shares \in Nat /\ q.pending \in Nat
  BY PosNumbers
<1>3. pending_fee(q.shares, p.acc, p.acc) = 0
  BY <1>1, <1>2, PendingZero
<1> QED BY <1>2, <1>3 DEF Due

LEMMA NewOk ==
  ASSUME NEW o \in Accounts, NEW a \in 0..(ACC_MOD - 1)
  PROVE  PosOk(NewPosition(o, a))
BY DEF PosOk, NewPosition, Position

-----------------------------------------------------------------------------
(* The invariant.                                                          *)

PoolInv == TypeOK /\ Backed

LEMMA InvMeans ==
  ASSUME PoolInv
  PROVE  /\ IsOpen => PoolOk(pool)
         /\ \A i \in Ids : pos[i] # None => IsOpen /\ PosOk(pos[i])
         /\ sol_vault \in Nat /\ vault \in Nat /\ held \in Nat /\ sol_held \in Nat
         /\ now \in Nat /\ now \in 0..MaxTime /\ gifts \in 0..MaxGifts
         /\ pos \in [Ids -> Position \cup {None}]
<1>1. TypeOK
  BY DEF PoolInv
<1>2. IsOpen => PoolOk(pool)
  BY <1>1 DEF TypeOK, PoolOk, IsOpen
<1>3. ASSUME NEW i \in Ids, pos[i] # None PROVE IsOpen /\ PosOk(pos[i])
  BY <1>1, <1>3 DEF TypeOK, PosOk, Positions
<1>4. now \in Nat
  BY <1>1, BoundsAssumption DEF TypeOK
<1> QED BY <1>1, <1>2, <1>3, <1>4 DEF TypeOK

LEMMA PoolIsOpen ==
  ASSUME NEW p \in Pool
  PROVE  p # NoPool
<1>1. "vx" \in DOMAIN p
  BY DEF Pool
<1>2. "vx" \notin DOMAIN NoPool
  BY DEF NoPool
<1> QED BY <1>1, <1>2

\* What a step must show of the pool, the one position it touches, and the vaults.
LEMMA StepOk ==
  ASSUME PoolInv, PoolOk(pool'), NEW i \in Ids, NEW q, PosOk(q),
         pos' = [pos EXCEPT ![i] = q],
         sol_vault' \in Nat, vault' \in Nat, held' \in Nat, sol_held' \in Nat,
         now' \in 0..MaxTime, gifts' \in 0..MaxGifts,
         sol_vault' >= pool'.y + pool'.fee_reserve, vault' >= pool'.x
  PROVE  PoolInv'
<1>1. pool' \in Pool /\ pool'.l >= MIN_LIQUIDITY /\ big_x(pool') > 0
  BY DEF PoolOk
<1>2. IsOpen'
  BY <1>1, PoolIsOpen DEF IsOpen
<1>3. pos \in [Ids -> Position \cup {None}]
  BY InvMeans
<1>4. pos' \in [Ids -> Position \cup {None}]
  BY <1>3 DEF PosOk
<1>5. ASSUME NEW j \in Ids, pos'[j] # None PROVE pos'[j].locked <= pos'[j].shares
  <2>1. pos'[j] = pos[j] \/ pos'[j] = q
    BY <1>3
  <2>2. PosOk(pos'[j])
    BY <1>5, <2>1, InvMeans
  <2> QED BY <2>2 DEF PosOk
<1>6. \A j \in Positions' : pos'[j].locked <= pos'[j].shares
  BY <1>5 DEF Positions
<1>7. TypeOK'
  BY <1>1, <1>2, <1>4, <1>6 DEF TypeOK
<1> QED BY <1>7 DEF PoolInv, Backed

\* A trade touches no position.
LEMMA StepSame ==
  ASSUME PoolInv, PoolOk(pool'), pos' = pos,
         sol_vault' \in Nat, vault' \in Nat, held' \in Nat, sol_held' \in Nat,
         now' \in 0..MaxTime, gifts' \in 0..MaxGifts,
         sol_vault' >= pool'.y + pool'.fee_reserve, vault' >= pool'.x
  PROVE  PoolInv'
<1>1. pool' \in Pool /\ pool'.l >= MIN_LIQUIDITY /\ big_x(pool') > 0
  BY DEF PoolOk
<1>2. IsOpen'
  BY <1>1, PoolIsOpen DEF IsOpen
<1>3. TypeOK'
  BY <1>1, <1>2 DEF TypeOK, PoolInv, Positions
<1> QED BY <1>3 DEF PoolInv, Backed

-----------------------------------------------------------------------------
(* Every step.                                                             *)

FeesStep == \A i \in Positions : pos'[i] # None /\ (Owed(i)' >= Owed(i) \/ claim_fees(i))
ValueStep == IsOpen => k(pool') * pool.l * pool.l >= k(pool) * pool'.l * pool'.l

\* Where the accumulator stays, only the position touched has to be looked at.
LEMMA FeesStay ==
  ASSUME PoolInv, pool'.acc = pool.acc, NEW i \in Ids, NEW q, pos' = [pos EXCEPT ![i] = q],
         pos[i] # None => /\ q # None
                          /\ Due(q, pool.acc) >= Due(pos[i], pool.acc) \/ claim_fees(i)
  PROVE  FeesStep
<1> SUFFICES ASSUME NEW j \in Positions
             PROVE  pos'[j] # None /\ (Owed(j)' >= Owed(j) \/ claim_fees(j))
  BY DEF FeesStep
<1>1. j \in Ids /\ pos[j] # None /\ pos \in [Ids -> Position \cup {None}]
  BY InvMeans DEF Positions
<1>2. CASE j = i
  <2>1. pos'[j] = q
    BY <1>1, <1>2
  <2>2. Owed(j)' = Due(q, pool.acc) /\ Owed(j) = Due(pos[i], pool.acc)
    BY <1>2, <2>1 DEF Owed, Due
  <2> QED BY <1>1, <1>2, <2>1, <2>2
<1>3. CASE j # i
  <2>1. pos'[j] = pos[j]
    BY <1>1, <1>3
  <2>2. IsOpen /\ PosOk(pos[j]) /\ PoolOk(pool)
    BY <1>1, InvMeans
  <2>3. Due(pos[j], pool.acc) \in Nat
    BY <2>2, SettleOk
  <2>4. Owed(j)' = Due(pos[j], pool.acc) /\ Owed(j) = Due(pos[j], pool.acc)
    BY <2>1 DEF Owed, Due
  <2> QED BY <1>1, <2>1, <2>3, <2>4
<1> QED BY <1>2, <1>3

\* The same liquidity, and a product that did not fall.
LEMMA ValueStays ==
  ASSUME PoolOk(pool), PoolOk(pool'), pool'.l = pool.l, k(pool') >= k(pool)
  PROVE  ValueStep
<1>1. k(pool) \in Nat /\ k(pool') \in Nat /\ pool.l \in Nat
  BY PoolNumbers
<1>2. k(pool) * pool.l <= k(pool') * pool.l /\ k(pool) * pool.l \in Nat /\ k(pool') * pool.l \in Nat
  BY <1>1, MulMono
<1>3. (k(pool) * pool.l) * pool.l <= (k(pool') * pool.l) * pool.l
  BY <1>1, <1>2, MulMono
<1> QED BY <1>3 DEF ValueStep

\* A trade moves the accumulator, and no checkpoint is lapped.
LEMMA FeesGrow ==
  ASSUME PoolInv, PoolOk(pool'), pos' = pos, NoLap(pool')
  PROVE  FeesStep
<1> SUFFICES ASSUME NEW j \in Positions PROVE pos'[j] # None /\ Owed(j)' >= Owed(j)
  BY DEF FeesStep
<1>1. j \in Ids /\ pos[j] # None
  BY DEF Positions
<1>2. PosOk(pos[j]) /\ PoolOk(pool)
  BY <1>1, InvMeans
<1>3. /\ pos[j].shares \in Nat /\ pos[j].checkpoint \in 0..(ACC_MOD - 1) /\ pos[j].pending \in Nat
      /\ pool.acc \in 0..(ACC_MOD - 1) /\ pool'.acc \in 0..(ACC_MOD - 1)
  BY <1>2, PosNumbers, PoolNumbers
<1>4. Since(pool.acc, pos[j].checkpoint) + Since(pool'.acc, pool.acc) < ACC_MOD
  BY DEF NoLap
<1>5. /\ pending_fee(pos[j].shares, pool'.acc, pos[j].checkpoint)
            >= pending_fee(pos[j].shares, pool.acc, pos[j].checkpoint)
      /\ pending_fee(pos[j].shares, pool'.acc, pos[j].checkpoint) \in Nat
      /\ pending_fee(pos[j].shares, pool.acc, pos[j].checkpoint) \in Nat
  BY <1>3, <1>4, PendingGrows, PendingOk
<1> QED BY <1>1, <1>3, <1>5 DEF Owed

LEMMA CreateLemma ==
  ASSUME PoolInv, NEW a \in Openings, NEW i \in Ids, NEW o \in Accounts, NEW lock \in BOOLEAN,
         create_pool(a, i, o, lock)
  PROVE  PoolInv' /\ FeesStep /\ ValueStep
<1> DEFINE q == [NewPosition(o, 0) EXCEPT !.shares = a.l0, !.locked = IF lock THEN a.l0 ELSE 0]
<1>1. ~IsOpen /\ Positions = {} /\ FeesStep /\ ValueStep
  BY DEF create_pool, PoolInv, TypeOK, FeesStep, ValueStep
<1>2. a.x0 \in Nat /\ a.vx0 \in Nat /\ a.y0 \in Nat /\ a.l0 \in Nat /\ a.sniper_bps \in Nat
      /\ a.decay_secs \in Nat
  BY OpeningsAssumption
<1>3. a.fee_bps \in ALLOWED_FEE_BPS /\ a.x0 >= MIN_TOKENS /\ a.l0 >= MIN_LIQUIDITY
  BY DEF create_pool, openable
<1>4. now \in Nat /\ 0 \in 0..(ACC_MOD - 1)
  BY InvMeans, AccAssumption
<1>5. PoolOk(pool')
  <2>1. pool' \in Pool
    BY <1>2, <1>3, <1>4 DEF create_pool, Pool
  <2>2. pool'.l >= MIN_LIQUIDITY /\ pool'.x + pool'.vx > 0
    BY <1>2, <1>3, LiquidityAssumption DEF create_pool
  <2> QED BY <2>1, <2>2 DEF PoolOk, big_x
<1>6. PosOk(q)
  <2> DEFINE n == NewPosition(o, 0)  lk == IF lock THEN a.l0 ELSE 0
  <2>1. lk \in Nat /\ lk <= a.l0
    BY <1>2
  <2>2. n \in Position
    BY <1>4, NewOk DEF PosOk
  <2>3. q = [n EXCEPT !.shares = a.l0, !.locked = lk]
    OBVIOUS
  <2> HIDE DEF n, lk, q
  <2>4. q \in Position /\ q.shares = a.l0 /\ q.locked = lk
    BY <1>2, <2>1, <2>2, <2>3 DEF Position
  <2> QED BY <2>1, <2>4 DEF PosOk
<1>7. /\ sol_vault \in Nat /\ vault \in Nat /\ held \in Nat /\ sol_held \in Nat
      /\ now \in 0..MaxTime /\ gifts \in 0..MaxGifts
  BY InvMeans
<1>8. /\ sol_vault' \in Nat /\ vault' \in Nat /\ held' \in Nat /\ sol_held' \in Nat
      /\ now' \in 0..MaxTime /\ gifts' \in 0..MaxGifts
      /\ sol_vault' >= pool'.y + pool'.fee_reserve /\ vault' >= pool'.x
  BY <1>2, <1>7 DEF create_pool
<1>9. pos' = [pos EXCEPT ![i] = q]
  BY DEF create_pool
<1> QED BY <1>1, <1>5, <1>6, <1>8, <1>9, StepOk

LEMMA BuyLemma ==
  ASSUME PoolInv, NEW amount_in \in 1..SolSupply, swap_buy(amount_in)
  PROVE  PoolInv' /\ FeesStep /\ ValueStep
<1> DEFINE fee == TradeFee(pool, amount_in)  net == amount_in - fee  out == TokensOut(pool, net)
<1>1. PoolOk(pool) /\ pool \in Pool
  BY InvMeans DEF swap_buy, PoolOk
<1>2. /\ sol_vault \in Nat /\ vault \in Nat /\ held \in Nat /\ sol_held \in Nat /\ now \in Nat
      /\ now \in 0..MaxTime /\ gifts \in 0..MaxGifts
  BY InvMeans
<1>3. amount_in \in Nat /\ amount_in <= sol_held
  BY <1>2, BoundsAssumption DEF swap_buy
<1>4. fee \in 0..amount_in /\ protocol_part(fee) \in 0..fee /\ LpPart(fee) \in 0..fee
  BY <1>1, <1>2, <1>3, FeeOk
<1>5. fee \in Nat /\ net \in Nat /\ LpPart(fee) \in Nat /\ protocol_part(fee) \in 0..amount_in
      /\ LpPart(fee) = fee - protocol_part(fee)
  BY <1>3, <1>4 DEF LpPart
<1>6. /\ pool' = AfterBuy(pool, net, out, fee)
      /\ out < big_x(pool) /\ out <= pool.x /\ NoLap(pool')
      /\ require_solvent(sol_vault', pool')
      /\ sol_vault' = sol_vault + amount_in - protocol_part(fee)
      /\ sol_held' = sol_held - amount_in + protocol_part(fee)
      /\ vault' = vault - out /\ held' = held + out
      /\ UNCHANGED <<pos, now, gifts>>
  BY DEF swap_buy
<1> HIDE DEF fee, net, out
<1>7. /\ out \in Nat /\ PoolOk(pool') /\ pool'.l = pool.l /\ k(pool') >= k(pool)
      /\ pool'.x = pool.x - out
  BY <1>1, <1>5, <1>6, BuyMath DEF out
<1>8. IsOpen /\ vault >= pool.x /\ pool.x \in Nat
  BY <1>1, PoolNumbers DEF PoolInv, Backed, swap_buy
<1>9. /\ sol_vault' \in Nat /\ vault' \in Nat /\ held' \in Nat /\ sol_held' \in Nat
      /\ vault' >= pool'.x
  BY <1>2, <1>3, <1>5, <1>6, <1>7, <1>8
<1>10. sol_vault' >= pool'.y + pool'.fee_reserve
  BY <1>6 DEF require_solvent
<1>11. PoolInv'
  BY <1>2, <1>6, <1>7, <1>9, <1>10, StepSame
<1>12. FeesStep
  BY <1>6, <1>7, FeesGrow
<1>13. ValueStep
  BY <1>1, <1>7, ValueStays
<1> QED BY <1>11, <1>12, <1>13

LEMMA SellLemma ==
  ASSUME PoolInv, NEW amount_in \in 1..Supply, swap_sell(amount_in)
  PROVE  PoolInv' /\ FeesStep /\ ValueStep
<1> DEFINE gross == SolOut(pool, amount_in)  fee == TradeFee(pool, gross)
<1>1. PoolOk(pool) /\ pool \in Pool
  BY InvMeans DEF swap_sell, PoolOk
<1>2. /\ sol_vault \in Nat /\ vault \in Nat /\ held \in Nat /\ sol_held \in Nat /\ now \in Nat
      /\ now \in 0..MaxTime /\ gifts \in 0..MaxGifts
  BY InvMeans
<1>3. amount_in \in Nat /\ amount_in <= held
  BY <1>2, BoundsAssumption DEF swap_sell
<1>4. gross \in Nat
  <2>1. LpPart(0) \in Nat
    <3>1. protocol_part(0) \in 0..0
      BY BpsAssumption, FloorShare DEF protocol_part
    <3> QED BY <3>1 DEF LpPart
  <2>2. gross <= pool.y
    BY DEF swap_sell
  <2> QED BY <1>1, <1>3, <2>1, <2>2, SellMath
<1> HIDE DEF gross
<1>5. fee \in 0..gross /\ protocol_part(fee) \in 0..fee /\ LpPart(fee) \in 0..fee
  BY <1>1, <1>2, <1>4, FeeOk
<1>6. fee \in Nat /\ LpPart(fee) \in Nat /\ LpPart(fee) <= gross
  BY <1>4, <1>5
<1>7. /\ pool' = AfterSell(pool, amount_in, gross, fee)
      /\ gross <= pool.y /\ NoLap(pool') /\ gross - LpPart(fee) <= sol_vault
      /\ require_solvent(sol_vault', pool')
      /\ sol_vault' = sol_vault - (gross - LpPart(fee))
      /\ sol_held' = sol_held + gross - LpPart(fee)
      /\ vault' = vault + amount_in /\ held' = held - amount_in
      /\ UNCHANGED <<pos, now, gifts>>
  BY DEF swap_sell, gross
<1> HIDE DEF fee
<1>8. /\ PoolOk(pool') /\ pool'.l = pool.l /\ k(pool') >= k(pool) /\ pool'.x = pool.x + amount_in
  BY <1>1, <1>3, <1>6, <1>7, SellMath DEF gross
<1>9. IsOpen /\ vault >= pool.x /\ pool.x \in Nat
  BY <1>1, PoolNumbers DEF PoolInv, Backed, swap_sell
<1>10. /\ sol_vault' \in Nat /\ vault' \in Nat /\ held' \in Nat /\ sol_held' \in Nat
       /\ vault' >= pool'.x
  BY <1>2, <1>3, <1>4, <1>6, <1>7, <1>8, <1>9
<1>11. sol_vault' >= pool'.y + pool'.fee_reserve
  BY <1>7 DEF require_solvent
<1>12. PoolInv'
  BY <1>2, <1>7, <1>8, <1>10, <1>11, StepSame
<1>13. FeesStep
  BY <1>7, <1>8, FeesGrow
<1>14. ValueStep
  BY <1>1, <1>8, ValueStays
<1> QED BY <1>12, <1>13, <1>14

LEMMA AddLemma ==
  ASSUME PoolInv, NEW i \in Ids, NEW o \in Accounts, NEW dl \in 1..MAX_AMOUNT, add_liquidity(i, o, dl)
  PROVE  PoolInv' /\ FeesStep /\ ValueStep
<1> DEFINE next == Added(pool, dl)  q0 == Opened(i, o)  t == settle(q0, pool)
           q == AddShares(q0, dl, pool)
<1>1. PoolOk(pool) /\ pool.acc \in 0..(ACC_MOD - 1) /\ pool.x \in Nat /\ pool.y \in Nat
      /\ pool.fee_reserve \in Nat
  BY InvMeans, PoolNumbers DEF add_liquidity
<1>2. /\ sol_vault \in Nat /\ vault \in Nat /\ held \in Nat /\ sol_held \in Nat
      /\ now \in 0..MaxTime /\ gifts \in 0..MaxGifts
  BY InvMeans
<1>3. dl \in Nat
  BY LiquidityAssumption
<1>4. /\ pool' = next /\ next.x - pool.x <= held /\ next.y - pool.y <= sol_held
      /\ pos' = [pos EXCEPT ![i] = q]
      /\ vault' = vault + (next.x - pool.x) /\ held' = held - (next.x - pool.x)
      /\ sol_vault' = sol_vault + (next.y - pool.y) /\ sol_held' = sol_held - (next.y - pool.y)
      /\ require_solvent(sol_vault', next)
      /\ UNCHANGED <<now, gifts>>
  BY DEF add_liquidity
<1> HIDE DEF next
<1>5. /\ PoolOk(pool') /\ pool'.acc = pool.acc /\ next.x >= pool.x /\ next.y >= pool.y
      /\ k(pool') * pool.l * pool.l >= k(pool) * pool'.l * pool'.l
  BY <1>1, <1>3, <1>4, AddMath DEF next
<1>6. next.x \in Nat /\ next.y \in Nat /\ next.fee_reserve \in Nat
  BY <1>4, <1>5, PoolNumbers
<1>7. PosOk(q0) /\ (pos[i] # None => q0 = pos[i])
  BY <1>1, NewOk, InvMeans DEF Opened
<1> HIDE DEF q0
<1>8. /\ PosOk(t) /\ t.pending = Due(q0, pool.acc) /\ t.checkpoint = pool.acc
      /\ Due(q0, pool.acc) \in Nat
  BY <1>1, <1>7, SettleOk
<1>9. q = [t EXCEPT !.shares = t.shares + dl]
  BY DEF AddShares
<1> HIDE DEF t, q
<1>10. PosOk(q) /\ q.pending = t.pending /\ q.checkpoint = pool.acc
  <2>1. t \in Position /\ t.locked <= t.shares /\ t.shares + dl \in Nat /\ t.locked \in Nat
        /\ t.shares \in Nat
    BY <1>3, <1>8, PosNumbers DEF PosOk
  <2>2. /\ q \in Position /\ q.locked = t.locked /\ q.shares = t.shares + dl
        /\ q.pending = t.pending /\ q.checkpoint = t.checkpoint
    BY <1>9, <2>1 DEF Position
  <2> QED BY <1>3, <1>8, <2>1, <2>2 DEF PosOk
<1>11. Due(q, pool.acc) = Due(q0, pool.acc) /\ q # None
  BY <1>1, <1>8, <1>10, SettledDue, PosNumbers
<1>12. FeesStep
  <2>1. pos[i] # None => q # None /\ Due(q, pool.acc) >= Due(pos[i], pool.acc)
    BY <1>7, <1>8, <1>11
  <2> QED BY <1>4, <1>5, <2>1, FeesStay
<1>13. IsOpen /\ vault >= pool.x
  BY DEF PoolInv, Backed, add_liquidity
<1>14. /\ sol_vault' \in Nat /\ vault' \in Nat /\ held' \in Nat /\ sol_held' \in Nat
       /\ vault' >= pool'.x
  BY <1>1, <1>2, <1>4, <1>5, <1>6, <1>13
<1>15. sol_vault' >= pool'.y + pool'.fee_reserve
  BY <1>4 DEF require_solvent
<1>16. PoolInv'
  BY <1>2, <1>4, <1>5, <1>10, <1>14, <1>15, StepOk
<1> QED BY <1>5, <1>12, <1>16 DEF ValueStep

LEMMA RemoveLemma ==
  ASSUME PoolInv, NEW i \in Ids, NEW dl \in 1..MAX_AMOUNT, remove_liquidity(i, dl)
  PROVE  PoolInv' /\ FeesStep /\ ValueStep
<1> DEFINE next == Removed(pool, dl)  t == settle(pos[i], pool)
           q == [t EXCEPT !.shares = @ - dl]
<1>1. IsOpen /\ PosOk(pos[i]) /\ PoolOk(pool)
  BY InvMeans DEF remove_liquidity, MayRemove
<1>2. /\ sol_vault \in Nat /\ vault \in Nat /\ held \in Nat /\ sol_held \in Nat
      /\ now \in 0..MaxTime /\ gifts \in 0..MaxGifts
  BY InvMeans
<1>3. dl \in Nat
  BY LiquidityAssumption
<1>4. /\ pool' = next /\ pool.x - next.x <= vault /\ pool.y - next.y <= sol_vault
      /\ pos' = [pos EXCEPT ![i] = q]
      /\ vault' = vault - (pool.x - next.x) /\ held' = held + (pool.x - next.x)
      /\ sol_vault' = sol_vault - (pool.y - next.y) /\ sol_held' = sol_held + (pool.y - next.y)
      /\ require_solvent(sol_vault', next)
      /\ UNCHANGED <<now, gifts>>
      /\ dl <= t.shares - t.locked /\ dl <= pool.l /\ pool.l - dl >= MIN_LIQUIDITY
  BY DEF remove_liquidity, MayRemove, Unlocked, Removable
<1>5. dl < pool.l
  BY <1>1, <1>3, <1>4, PoolNumbers, LiquidityAssumption
<1> HIDE DEF next
<1>6. /\ PoolOk(pool') /\ pool'.acc = pool.acc /\ next.x \in 0..pool.x /\ next.y \in 0..pool.y
      /\ k(pool') * pool.l * pool.l >= k(pool) * pool'.l * pool'.l
  BY <1>1, <1>3, <1>4, <1>5, RemoveMath DEF next
<1>7. pool.x \in Nat /\ pool.y \in Nat
  BY <1>1, PoolNumbers
<1>8. /\ PosOk(t) /\ t.pending = Due(pos[i], pool.acc) /\ t.checkpoint = pool.acc
      /\ Due(pos[i], pool.acc) \in Nat
  BY <1>1, SettleOk
<1>9. q = [t EXCEPT !.shares = t.shares - dl]
  OBVIOUS
<1> HIDE DEF t, q
<1>10. PosOk(q) /\ q.pending = t.pending /\ q.checkpoint = pool.acc
  <2>1. t \in Position /\ t.shares - dl \in Nat /\ t.locked <= t.shares - dl
    BY <1>3, <1>4, <1>8, PosNumbers DEF PosOk
  <2>2. /\ q \in Position /\ q.locked = t.locked /\ q.shares = t.shares - dl
        /\ q.pending = t.pending /\ q.checkpoint = t.checkpoint
    BY <1>9, <2>1 DEF Position
  <2> QED BY <1>8, <2>1, <2>2 DEF PosOk
<1>11. Due(q, pool.acc) = Due(pos[i], pool.acc) /\ q # None
  BY <1>1, <1>8, <1>10, SettledDue, PosNumbers
<1>12. FeesStep
  <2>1. pos[i] # None => q # None /\ Due(q, pool.acc) >= Due(pos[i], pool.acc)
    BY <1>8, <1>11
  <2> QED BY <1>4, <1>6, <2>1, FeesStay
<1>13. vault >= pool.x
  BY <1>1 DEF PoolInv, Backed
<1>14. /\ sol_vault' \in Nat /\ vault' \in Nat /\ held' \in Nat /\ sol_held' \in Nat
       /\ vault' >= pool'.x
  BY <1>2, <1>4, <1>6, <1>7, <1>13
<1>15. sol_vault' >= pool'.y + pool'.fee_reserve
  BY <1>4 DEF require_solvent
<1>16. PoolInv'
  BY <1>2, <1>4, <1>6, <1>10, <1>14, <1>15, StepOk
<1> QED BY <1>6, <1>12, <1>16 DEF ValueStep

LEMMA ClaimLemma ==
  ASSUME PoolInv, NEW i \in Ids, claim_fees(i)
  PROVE  PoolInv' /\ FeesStep /\ ValueStep
<1> DEFINE t == settle(pos[i], pool)
           amount == t.pending
           q == [t EXCEPT !.pending = 0]
           next == [pool EXCEPT !.fee_reserve = @ - amount]
<1>1. IsOpen /\ PosOk(pos[i]) /\ PoolOk(pool)
  BY InvMeans DEF claim_fees, MayClaim
<1>2. /\ sol_vault \in Nat /\ vault \in Nat /\ held \in Nat /\ sol_held \in Nat
      /\ now \in 0..MaxTime /\ gifts \in 0..MaxGifts /\ pos \in [Ids -> Position \cup {None}]
  BY InvMeans
<1>3. /\ amount > 0 /\ amount <= pool.fee_reserve /\ pool' = next
      /\ pos' = [pos EXCEPT ![i] = q]
      /\ amount <= sol_vault /\ sol_vault' = sol_vault - amount /\ sol_held' = sol_held + amount
      /\ require_solvent(sol_vault', next)
      /\ UNCHANGED <<vault, held, now, gifts>>
  BY <1>2 DEF claim_fees, MayClaim, Claimed
<1>4. PosOk(t) /\ amount \in Nat
  BY <1>1, SettleOk, PosNumbers
<1> HIDE DEF t
<1>5. PosOk(q)
  <2>1. t \in Position /\ t.locked <= t.shares
    BY <1>4 DEF PosOk
  <2> QED BY <2>1 DEF PosOk, Position
<1> HIDE DEF q
<1>6. /\ pool.fee_reserve \in Nat /\ pool.l \in Nat /\ pool.x \in Nat /\ k(pool) \in Nat
      /\ pool \in Pool
  BY <1>1, PoolNumbers DEF PoolOk
<1> DEFINE n == pool.fee_reserve - amount
<1>7. n \in Nat
  BY <1>3, <1>4, <1>6
<1> HIDE DEF amount, n
<1>8. next = [pool EXCEPT !.fee_reserve = n]
  BY DEF n
<1> HIDE DEF next
<1>9. /\ next \in Pool /\ next.x = pool.x /\ next.vx = pool.vx /\ next.y = pool.y
      /\ next.l = pool.l /\ next.acc = pool.acc
  BY <1>6, <1>7, <1>8 DEF Pool
<1>10. PoolOk(pool') /\ k(pool') = k(pool)
  BY <1>1, <1>3, <1>9 DEF PoolOk, k, big_x, big_y
<1>11. ValueStep
  BY <1>1, <1>3, <1>6, <1>9, <1>10, ValueStays
<1>12. FeesStep
  <2>1. q # None
    BY <1>5, PosNumbers
  <2> QED BY <1>3, <1>9, <2>1, FeesStay
<1>13. vault' >= pool'.x
  BY <1>1, <1>3, <1>9 DEF PoolInv, Backed
<1>14. sol_vault' \in Nat /\ vault' \in Nat /\ held' \in Nat /\ sol_held' \in Nat
  BY <1>2, <1>3, <1>4 DEF amount
<1>15. sol_vault' >= pool'.y + pool'.fee_reserve
  BY <1>3 DEF require_solvent
<1>16. PoolInv'
  BY <1>2, <1>3, <1>5, <1>10, <1>13, <1>14, <1>15, StepOk
<1> QED BY <1>11, <1>12, <1>16

\* Handing a position on, naming a recipient, locking: nothing but the position moves.
LEMMA PositionLemma ==
  ASSUME PoolInv, NEW i \in Ids, NEW a \in Accounts, NEW n \in Nat,
         transfer_position(i, a) \/ set_recipient(i, a) \/ lock_liquidity(i, n)
  PROVE  PoolInv' /\ FeesStep /\ ValueStep
<1> DEFINE t == settle(pos[i], pool)
<1>1. /\ UNCHANGED <<pool, sol_vault, vault, held, sol_held, now, gifts>>
      /\ pos[i] # None
  BY DEF transfer_position, set_recipient, lock_liquidity
<1>2. IsOpen /\ PosOk(pos[i]) /\ PoolOk(pool)
  BY <1>1, InvMeans
<1>3. /\ sol_vault \in Nat /\ vault \in Nat /\ held \in Nat /\ sol_held \in Nat
      /\ now \in 0..MaxTime /\ gifts \in 0..MaxGifts
  BY InvMeans
<1>4. /\ PosOk(t) /\ t.pending = Due(pos[i], pool.acc) /\ t.checkpoint = pool.acc
      /\ Due(pos[i], pool.acc) \in Nat
  BY <1>2, SettleOk
<1> HIDE DEF t
<1>5. \E q : /\ PosOk(q) /\ Due(q, pool.acc) = Due(pos[i], pool.acc)
             /\ pos' = [pos EXCEPT ![i] = q]
  <2>1. CASE transfer_position(i, a)
    <3> DEFINE q == [t EXCEPT !.owner = a, !.recipient = a]
    <3>1. PosOk(q) /\ q.pending = t.pending /\ q.checkpoint = pool.acc
      BY <1>4 DEF PosOk, Position
    <3>2. Due(q, pool.acc) = q.pending
      BY <1>2, <3>1, SettledDue
    <3>3. pos' = [pos EXCEPT ![i] = q]
      BY <2>1 DEF transfer_position, t
    <3> QED BY <1>4, <3>1, <3>2, <3>3
  <2>2. CASE set_recipient(i, a)
    <3> DEFINE q == [pos[i] EXCEPT !.recipient = a]
    <3>1. /\ PosOk(q) /\ q.pending = pos[i].pending /\ q.checkpoint = pos[i].checkpoint
          /\ q.shares = pos[i].shares
      BY <1>2 DEF PosOk, Position
    <3>2. pos' = [pos EXCEPT ![i] = q]
      BY <2>2 DEF set_recipient
    <3> QED BY <3>1, <3>2 DEF Due
  <2>3. CASE lock_liquidity(i, n)
    <3> DEFINE v == pos[i].locked + n
               q == [pos[i] EXCEPT !.locked = v]
    <3>1. v \in Nat /\ v <= pos[i].shares
      BY <1>2, <2>3, PosNumbers DEF lock_liquidity
    <3>2. pos' = [pos EXCEPT ![i] = q]
      BY <2>3 DEF lock_liquidity
    <3> HIDE DEF v
    <3>3. /\ PosOk(q) /\ q.pending = pos[i].pending /\ q.checkpoint = pos[i].checkpoint
          /\ q.shares = pos[i].shares
      BY <1>2, <3>1 DEF PosOk, Position
    <3> QED BY <3>2, <3>3 DEF Due
  <2> QED BY <2>1, <2>2, <2>3
<1>6. PICK q : /\ PosOk(q) /\ Due(q, pool.acc) = Due(pos[i], pool.acc)
               /\ pos' = [pos EXCEPT ![i] = q]
  BY <1>5
<1>7. FeesStep
  <2>1. q # None
    BY <1>6, PosNumbers
  <2>2. Due(q, pool.acc) >= Due(pos[i], pool.acc) /\ pool'.acc = pool.acc
    BY <1>1, <1>4, <1>6
  <2>3. pos' = [pos EXCEPT ![i] = q]
    BY <1>6
  <2> QED BY <2>1, <2>2, <2>3, FeesStay
<1>8. PoolOk(pool') /\ ValueStep
  <2>1. PoolOk(pool') /\ pool'.l = pool.l /\ k(pool') = k(pool) /\ k(pool) \in Nat
    BY <1>1, <1>2, PoolNumbers
  <2> QED BY <1>2, <2>1, ValueStays
<1>9. /\ sol_vault' >= pool'.y + pool'.fee_reserve /\ vault' >= pool'.x
  BY <1>1, <1>2 DEF PoolInv, Backed
<1>10. PoolInv'
  BY <1>1, <1>3, <1>6, <1>8, <1>9, StepOk
<1> QED BY <1>7, <1>8, <1>10

\* Gifts, time and steps that change nothing leave pool and positions alone.
LEMMA OutsideLemma ==
  ASSUME PoolInv, Gift \/ Tick \/ UNCHANGED vars
  PROVE  PoolInv' /\ FeesStep /\ ValueStep
<1>1. UNCHANGED <<pool, pos>> /\ TypeOK
  BY DEF Gift, Tick, vars, PoolInv
<1>2. /\ sol_vault' \in Nat /\ vault' \in Nat /\ held' \in Nat /\ sol_held' \in Nat
      /\ now' \in 0..MaxTime /\ gifts' \in 0..MaxGifts
      /\ sol_vault' >= sol_vault /\ vault' >= vault
  <2>1. /\ sol_vault \in Nat /\ vault \in Nat /\ held \in Nat /\ sol_held \in Nat
        /\ now \in 0..MaxTime /\ gifts \in 0..MaxGifts
    BY InvMeans
  <2>2. CASE Gift
    <3>1. /\ sol_vault' \in Nat /\ vault' \in Nat /\ held' \in Nat /\ sol_held' \in Nat
          /\ sol_vault' >= sol_vault /\ vault' >= vault /\ now' = now
      BY <2>1, <2>2 DEF Gift
    <3>2. gifts' \in 0..MaxGifts
      BY <2>1, <2>2, BoundsAssumption DEF Gift
    <3> QED BY <2>1, <3>1, <3>2
  <2>3. CASE Tick
    BY <2>1, <2>3, BoundsAssumption DEF Tick
  <2>4. CASE UNCHANGED vars
    BY <2>1, <2>4 DEF vars
  <2> QED BY <2>2, <2>3, <2>4
<1>3. TypeOK'
  BY <1>1, <1>2 DEF TypeOK, IsOpen, Positions
<1>4. Backed'
  <2> SUFFICES ASSUME IsOpen' PROVE Backed'
    BY DEF Backed
  <2>1. IsOpen
    BY <1>1 DEF IsOpen
  <2>2. /\ sol_vault \in Nat /\ vault \in Nat /\ pool.y \in Nat /\ pool.fee_reserve \in Nat
        /\ pool.x \in Nat
    BY <2>1, InvMeans, PoolNumbers
  <2>3. sol_vault >= pool.y + pool.fee_reserve /\ vault >= pool.x
    BY <2>1 DEF PoolInv, Backed
  <2> QED BY <1>1, <1>2, <2>2, <2>3 DEF Backed
<1>5. FeesStep
  <2> SUFFICES ASSUME NEW j \in Positions PROVE pos'[j] # None /\ Owed(j)' >= Owed(j)
    BY DEF FeesStep
  <2>1. PosOk(pos[j]) /\ PoolOk(pool)
    BY InvMeans DEF Positions
  <2>2. Due(pos[j], pool.acc) \in Nat
    BY <2>1, SettleOk
  <2>3. Owed(j)' = Due(pos[j], pool.acc) /\ Owed(j) = Due(pos[j], pool.acc)
    BY <1>1 DEF Owed, Due
  <2> QED BY <1>1, <2>2, <2>3 DEF Positions
<1>6. ValueStep
  <2> SUFFICES ASSUME IsOpen PROVE ValueStep
    BY DEF ValueStep
  <2>1. PoolOk(pool) /\ PoolOk(pool') /\ k(pool') = k(pool) /\ k(pool) \in Nat
    BY <1>1, InvMeans, PoolNumbers
  <2> QED BY <1>1, <2>1, ValueStays
<1> QED BY <1>3, <1>4, <1>5, <1>6 DEF PoolInv

LEMMA PoolStep == PoolInv /\ [Next]_vars => PoolInv' /\ FeesStep /\ ValueStep
<1> SUFFICES ASSUME PoolInv, [Next]_vars PROVE PoolInv' /\ FeesStep /\ ValueStep
  OBVIOUS
<1>1. ASSUME NEW a \in Openings, NEW i \in Ids, NEW o \in Accounts, NEW lock \in BOOLEAN,
             create_pool(a, i, o, lock)
      PROVE  PoolInv' /\ FeesStep /\ ValueStep
  BY <1>1, CreateLemma
<1>2. ASSUME NEW n \in 1..SolSupply, swap_buy(n) PROVE PoolInv' /\ FeesStep /\ ValueStep
  BY <1>2, BuyLemma
<1>3. ASSUME NEW n \in 1..Supply, swap_sell(n) PROVE PoolInv' /\ FeesStep /\ ValueStep
  BY <1>3, SellLemma
<1>4. ASSUME NEW i \in Ids, NEW o \in Accounts, NEW dl \in 1..MAX_AMOUNT, add_liquidity(i, o, dl)
      PROVE  PoolInv' /\ FeesStep /\ ValueStep
  BY <1>4, AddLemma
<1>5. ASSUME NEW i \in Ids, NEW dl \in 1..MAX_AMOUNT, remove_liquidity(i, dl)
      PROVE  PoolInv' /\ FeesStep /\ ValueStep
  BY <1>5, RemoveLemma
<1>6. ASSUME NEW i \in Ids, claim_fees(i) PROVE PoolInv' /\ FeesStep /\ ValueStep
  BY <1>6, ClaimLemma
<1>7. ASSUME NEW i \in Ids, NEW a \in Accounts, transfer_position(i, a) \/ set_recipient(i, a)
      PROVE  PoolInv' /\ FeesStep /\ ValueStep
  BY <1>7, 0 \in Nat, PositionLemma
<1>8. ASSUME NEW i \in Ids, NEW n \in 1..MAX_AMOUNT, lock_liquidity(i, n)
      PROVE  PoolInv' /\ FeesStep /\ ValueStep
  <2>1. pos[i].owner \in Accounts /\ n \in Nat
    BY <1>8, InvMeans, PosNumbers, LiquidityAssumption DEF lock_liquidity
  <2> QED BY <1>8, <2>1, PositionLemma
<1>9. ASSUME Gift \/ Tick \/ UNCHANGED vars PROVE PoolInv' /\ FeesStep /\ ValueStep
  BY <1>9, OutsideLemma
<1> QED BY <1>1, <1>2, <1>3, <1>4, <1>5, <1>6, <1>7, <1>8, <1>9 DEF Next

-----------------------------------------------------------------------------
(* All positions together.  In the accumulator's own unit a position's     *)
(* weight is what it has pending and its part of every credit since its    *)
(* checkpoint, before any division.                                        *)

Weight(q, acc) == q.pending * ACC_ONE + q.shares * Since(acc, q.checkpoint)

ShareOf == [i \in Positions |-> pos[i].shares]
WeightOf == [i \in Positions |-> Weight(pos[i], pool.acc)]

\* The shares add up to the liquidity, and the fee reserve outweighs every position.
CoverInv ==
  /\ PoolInv
  /\ IsFiniteSet(Positions)
  /\ IsOpen => /\ Total(ShareOf, Positions) = pool.l
               /\ Total(WeightOf, Positions) <= ACC_ONE * pool.fee_reserve

LEMMA WeightOk ==
  ASSUME NEW q, PosOk(q), NEW a \in 0..(ACC_MOD - 1)
  PROVE  Weight(q, a) \in Nat /\ ACC_ONE * Due(q, a) <= Weight(q, a) /\ Due(q, a) \in Nat
<1> DEFINE d == Since(a, q.checkpoint)  f == (q.shares * d) \div ACC_ONE
<1>1. q.shares \in Nat /\ q.pending \in Nat /\ d \in Nat /\ ACC_ONE \in Nat \ {0}
  <2>1. q.shares \in Nat /\ q.pending \in Nat /\ q.checkpoint \in 0..(ACC_MOD - 1)
    BY PosNumbers
  <2>2. d \in 0..(ACC_MOD - 1)
    BY <2>1, SinceIs
  <2> QED BY <2>1, <2>2, AccAssumption
<1> HIDE DEF d
<1>2. q.shares * d \in Nat /\ q.pending * ACC_ONE \in Nat
  BY <1>1
<1>3. f \in Nat /\ ACC_ONE * f <= q.shares * d
  BY <1>1, <1>2, FloorLemma
<1>4. Due(q, a) = q.pending + f /\ Weight(q, a) = q.pending * ACC_ONE + q.shares * d
  BY DEF Due, pending_fee, Weight, d
<1> HIDE DEF f
<1>5. ACC_ONE * (q.pending + f) = q.pending * ACC_ONE + ACC_ONE * f /\ ACC_ONE * f \in Nat
  BY <1>1, <1>3, Z3
<1> QED BY <1>1, <1>2, <1>3, <1>4, <1>5

\* A settled position weighs what it has pending, whatever happens to its shares.
LEMMA SettledWeight ==
  ASSUME NEW q, PosOk(q), NEW a \in 0..(ACC_MOD - 1), q.checkpoint = a
  PROVE  Weight(q, a) = ACC_ONE * q.pending
<1>1. q.shares \in Nat /\ q.pending \in Nat /\ ACC_ONE \in Nat
  BY PosNumbers, AccAssumption
<1>2. Since(a, a) = 0
  BY SinceIs
<1>3. Weight(q, a) = q.pending * ACC_ONE + q.shares * 0
  BY <1>2 DEF Weight
<1>4. q.pending * ACC_ONE + q.shares * 0 = ACC_ONE * q.pending
  BY <1>1, Z3
<1> QED BY <1>3, <1>4

LEMMA PositionsOk ==
  ASSUME PoolInv
  PROVE  \A j \in Positions :
           /\ j \in Ids /\ pos[j] # None /\ IsOpen /\ PosOk(pos[j])
           /\ ShareOf[j] = pos[j].shares /\ ShareOf[j] \in Nat
           /\ WeightOf[j] = Weight(pos[j], pool.acc) /\ WeightOf[j] \in Nat
           /\ pool.acc \in 0..(ACC_MOD - 1)
<1> SUFFICES ASSUME NEW j \in Positions
             PROVE  /\ j \in Ids /\ pos[j] # None /\ IsOpen /\ PosOk(pos[j])
                    /\ ShareOf[j] = pos[j].shares /\ ShareOf[j] \in Nat
                    /\ WeightOf[j] = Weight(pos[j], pool.acc) /\ WeightOf[j] \in Nat
                    /\ pool.acc \in 0..(ACC_MOD - 1)
  OBVIOUS
<1>1. j \in Ids /\ pos[j] # None
  BY DEF Positions
<1>2. IsOpen /\ PosOk(pos[j]) /\ PoolOk(pool)
  BY <1>1, InvMeans
<1>3. pool.acc \in 0..(ACC_MOD - 1) /\ pos[j].shares \in Nat
  BY <1>2, PoolNumbers, PosNumbers
<1>4. Weight(pos[j], pool.acc) \in Nat
  BY <1>2, <1>3, WeightOk
<1>5. ShareOf[j] = pos[j].shares /\ WeightOf[j] = Weight(pos[j], pool.acc)
  BY DEF ShareOf, WeightOf
<1> QED BY <1>1, <1>2, <1>3, <1>4, <1>5

\* What the sums become when one position is written, or opened.
LEMMA PutTotals ==
  ASSUME PoolInv, IsFiniteSet(Positions), NEW i \in Ids, NEW q, PosOk(q),
         pos' = [pos EXCEPT ![i] = q], PoolOk(pool'), IsOpen => pool'.acc = pool.acc,
         NEW s0, s0 = (IF pos[i] = None THEN 0 ELSE pos[i].shares),
         NEW w0, w0 = (IF pos[i] = None THEN 0 ELSE Weight(pos[i], pool.acc))
  PROVE  /\ IsFiniteSet(Positions')
         /\ Total(ShareOf', Positions') = Total(ShareOf, Positions) - s0 + q.shares
         /\ Total(WeightOf', Positions') = Total(WeightOf, Positions) - w0 + Weight(q, pool'.acc)
         /\ Total(ShareOf, Positions) \in Int /\ Total(WeightOf, Positions) \in Int
<1>1. pos \in [Ids -> Position \cup {None}] /\ q # None
  BY InvMeans, PosNumbers
<1>2. Positions' = Positions \cup {i}
  BY <1>1 DEF Positions
<1>3. i \in Positions <=> pos[i] # None
  BY DEF Positions
<1> DEFINE S == Positions
           f == ShareOf    g == [j \in Positions \cup {i} |-> pos'[j].shares]
           v == WeightOf   w == [j \in Positions \cup {i} |-> Weight(pos'[j], pool'.acc)]
<1>4. ShareOf' = g /\ WeightOf' = w
  BY <1>2 DEF ShareOf, WeightOf
<1>5. pool'.acc \in 0..(ACC_MOD - 1)
  BY PoolNumbers
<1>6. g[i] = q.shares /\ g[i] \in Int /\ w[i] = Weight(q, pool'.acc) /\ w[i] \in Int
  <2>1. pos'[i] = q
    BY <1>1
  <2>2. q.shares \in Int /\ Weight(q, pool'.acc) \in Int
    BY <1>5, PosNumbers, WeightOk
  <2> QED BY <2>1, <2>2
<1>7. \A j \in S : j # i => g[j] = f[j] /\ w[j] = v[j]
  <2> SUFFICES ASSUME NEW j \in S, j # i PROVE g[j] = f[j] /\ w[j] = v[j]
    OBVIOUS
  <2>1. pos'[j] = pos[j]
    BY <1>1 DEF Positions
  <2>2. IsOpen /\ f[j] = pos[j].shares /\ v[j] = Weight(pos[j], pool.acc)
    BY PositionsOk
  <2> QED BY <2>1, <2>2
<1>8. \A j \in S : f[j] \in Int /\ v[j] \in Int /\ g[j] \in Int /\ w[j] \in Int
  <2> SUFFICES ASSUME NEW j \in S PROVE f[j] \in Int /\ v[j] \in Int /\ g[j] \in Int /\ w[j] \in Int
    OBVIOUS
  <2>1. f[j] \in Int /\ v[j] \in Int
    BY PositionsOk
  <2> HIDE DEF S, f, g, v, w
  <2> QED BY <1>6, <1>7, <2>1
<1>9. i \in S => s0 = f[i] /\ w0 = v[i]
  BY <1>3, PositionsOk
<1>10. i \notin S => s0 = 0 /\ w0 = 0
  BY <1>3
<1>11. IsFiniteSet(S)
  OBVIOUS
<1> HIDE DEF S, f, g, v, w
<1>12. ASSUME i \in S
       PROVE  /\ S \cup {i} = S
              /\ Total(g, S) = Total(f, S) - f[i] + g[i] /\ Total(f, S) \in Int
              /\ Total(w, S) = Total(v, S) - v[i] + w[i] /\ Total(v, S) \in Int
  <2>1. S \cup {i} = S
    BY <1>12
  <2>2. Total(g, S) = Total(f, S) - f[i] + g[i] /\ Total(f, S) \in Int
    BY <1>7, <1>8, <1>11, <1>12, TotalChange
  <2>3. Total(w, S) = Total(v, S) - v[i] + w[i] /\ Total(v, S) \in Int
    BY <1>7, <1>8, <1>11, <1>12, TotalChange
  <2> QED BY <2>1, <2>2, <2>3
<1>13. ASSUME i \notin S
       PROVE  /\ Total(g, S \cup {i}) = Total(f, S) + g[i] /\ Total(f, S) \in Int
              /\ Total(w, S \cup {i}) = Total(v, S) + w[i] /\ Total(v, S) \in Int
  <2>1. \A e \in S : f[e] \in Int /\ g[e] = f[e] /\ v[e] \in Int /\ w[e] = v[e]
    BY <1>7, <1>8, <1>13
  <2>2. Total(g, S \cup {i}) = Total(f, S) + g[i] /\ Total(f, S) \in Int
    BY <1>6, <1>11, <1>13, <2>1, TotalJoin
  <2>3. Total(w, S \cup {i}) = Total(v, S) + w[i] /\ Total(v, S) \in Int
    BY <1>6, <1>11, <1>13, <2>1, TotalJoin
  <2> QED BY <2>2, <2>3
<1>14. IsFiniteSet(S \cup {i})
  BY <1>11, FS_AddElement
<1>15. /\ Total(g, S \cup {i}) = Total(f, S) - s0 + q.shares /\ Total(f, S) \in Int
       /\ Total(w, S \cup {i}) = Total(v, S) - w0 + Weight(q, pool'.acc) /\ Total(v, S) \in Int
  <2>1. CASE i \in S
    BY <1>6, <1>9, <1>12, <2>1
  <2>2. CASE i \notin S
    BY <1>6, <1>10, <1>13, <2>2
  <2> QED BY <2>1, <2>2
<1> QED BY <1>2, <1>4, <1>14, <1>15 DEF S, f, v

\* A step on one position that keeps the sum of shares and does not outweigh the reserve.
LEMMA CoverPut ==
  ASSUME CoverInv, PoolInv', IsOpen, NEW i \in Ids, NEW q, PosOk(q), NEW q0, PosOk(q0),
         pos' = [pos EXCEPT ![i] = q], PoolOk(pool'), pool'.acc = pool.acc,
         pos[i] # None => q0 = pos[i],
         pos[i] = None => q0.shares = 0 /\ Weight(q0, pool.acc) = 0,
         pool'.l - pool.l = q.shares - q0.shares,
         Weight(q, pool.acc) - Weight(q0, pool.acc) <= ACC_ONE * (pool'.fee_reserve - pool.fee_reserve)
  PROVE  CoverInv'
<1>1. PoolInv /\ IsFiniteSet(Positions) /\ PoolOk(pool)
  BY InvMeans DEF CoverInv
<1> DEFINE s0 == IF pos[i] = None THEN 0 ELSE pos[i].shares
           w0 == IF pos[i] = None THEN 0 ELSE Weight(pos[i], pool.acc)
<1>2. s0 = q0.shares /\ w0 = Weight(q0, pool.acc)
  OBVIOUS
<1>3. /\ IsFiniteSet(Positions')
      /\ Total(ShareOf', Positions') = Total(ShareOf, Positions) - s0 + q.shares
      /\ Total(WeightOf', Positions') = Total(WeightOf, Positions) - w0 + Weight(q, pool'.acc)
      /\ Total(ShareOf, Positions) \in Int /\ Total(WeightOf, Positions) \in Int
  BY <1>1, PutTotals
<1> HIDE DEF s0, w0
<1>4. /\ pool.l \in Nat /\ pool'.l \in Nat /\ pool.fee_reserve \in Nat /\ pool'.fee_reserve \in Nat
      /\ pool.acc \in 0..(ACC_MOD - 1)
  BY <1>1, PoolNumbers
<1>5. q.shares \in Nat /\ q0.shares \in Nat
  BY PosNumbers
<1>6. Weight(q, pool.acc) \in Nat /\ Weight(q0, pool.acc) \in Nat
  BY <1>4, WeightOk
<1>7. Total(ShareOf, Positions) = pool.l /\ Total(WeightOf, Positions) <= ACC_ONE * pool.fee_reserve
  BY DEF CoverInv
<1>8. Total(ShareOf', Positions') = pool'.l
  BY <1>2, <1>3, <1>4, <1>5, <1>7
<1>9. Total(WeightOf', Positions') <= ACC_ONE * pool'.fee_reserve
  <2>1. /\ ACC_ONE * (pool'.fee_reserve - pool.fee_reserve)
             = ACC_ONE * pool'.fee_reserve - ACC_ONE * pool.fee_reserve
        /\ ACC_ONE * pool'.fee_reserve \in Int /\ ACC_ONE * pool.fee_reserve \in Int
    BY <1>4, AccAssumption, Z3
  <2> QED BY <1>2, <1>3, <1>6, <1>7, <2>1
<1> QED BY <1>3, <1>8, <1>9 DEF CoverInv

\* A trade adds to each position's weight its shares' part of the credit, and to the
\* reserve at least as much.
LEMMA CoverTrade ==
  ASSUME CoverInv, PoolInv', IsOpen, pos' = pos, NEW m \in Pool, NEW fee \in Nat,
         LpPart(fee) \in Nat, m.l = pool.l, m.acc = pool.acc, m.fee_reserve = pool.fee_reserve,
         pool' = credit(m, fee), NoLap(pool')
  PROVE  CoverInv'
<1>1. PoolInv /\ IsFiniteSet(Positions) /\ PoolOk(pool)
  BY InvMeans DEF CoverInv
<1>2. /\ pool.l \in Nat \ {0} /\ pool.fee_reserve \in Nat /\ pool.acc \in 0..(ACC_MOD - 1)
      /\ ACC_ONE \in Nat \ {0} /\ ACC_MOD \in Nat \ {0}
  BY <1>1, PoolNumbers, AccAssumption
<1> DEFINE n == PerShare(m, fee)  d == Since(pool'.acc, pool.acc)  a == (pool.acc + n) % ACC_MOD
<1>3. n \in Nat /\ pool.l * n <= LpPart(fee) * ACC_ONE
  <2>1. LpPart(fee) * ACC_ONE \in Nat
    BY <1>2
  <2> QED BY <1>2, <2>1, FloorLemma DEF PerShare
<1>4. pool'.acc = a /\ a \in 0..(ACC_MOD - 1)
  <2>1. pool'.acc = (m.acc + n) % ACC_MOD
    BY DEF credit, Pool
  <2>2. pool.acc + n \in Nat
    BY <1>2, <1>3
  <2> HIDE DEF n
  <2> QED BY <1>2, <2>1, <2>2
<1>5. pool'.l = pool.l /\ pool'.fee_reserve = pool.fee_reserve + LpPart(fee)
  BY <1>2, CreditOk
<1>6. d \in Nat /\ d <= n
  <2>1. d \in 0..(ACC_MOD - 1) /\ d = IF a >= pool.acc THEN a - pool.acc ELSE a + ACC_MOD - pool.acc
    BY <1>2, <1>4, SinceIs
  <2> HIDE DEF n
  <2>2. PICK t \in Nat : pool.acc + n = ACC_MOD * t + a
    <3>1. (pool.acc + n) \div ACC_MOD \in Nat
      BY <1>2, <1>3, FloorLemma
    <3>2. pool.acc + n = ACC_MOD * ((pool.acc + n) \div ACC_MOD) + a
      BY <1>2, <1>3, Z3
    <3> QED BY <3>1, <3>2
  <2> HIDE DEF a, d
  <2>3. CASE t = 0
    BY <1>2, <1>3, <1>4, <2>1, <2>2, <2>3
  <2>4. CASE t # 0
    <3>1. ACC_MOD * t >= ACC_MOD /\ ACC_MOD * t \in Nat
      BY <1>2, <2>4, Z3
    <3> QED BY <1>2, <1>3, <1>4, <2>1, <2>2, <3>1
  <2> QED BY <2>3, <2>4
<1> HIDE DEF n, a, d
<1> DEFINE S == Positions  f == ShareOf  v == WeightOf
           w == [j \in Positions |-> Weight(pos[j], pool'.acc)]
<1>7. Positions' = S /\ ShareOf' = f /\ WeightOf' = w
  BY DEF Positions, ShareOf, WeightOf
<1>8. \A j \in S : v[j] \in Int /\ f[j] \in Int /\ w[j] = v[j] + d * f[j]
  <2> SUFFICES ASSUME NEW j \in S PROVE v[j] \in Int /\ f[j] \in Int /\ w[j] = v[j] + d * f[j]
    OBVIOUS
  <2>1. /\ PosOk(pos[j]) /\ f[j] = pos[j].shares /\ f[j] \in Nat
        /\ v[j] = Weight(pos[j], pool.acc) /\ v[j] \in Nat
    BY <1>1, PositionsOk
  <2>2. w[j] = Weight(pos[j], pool'.acc)
    OBVIOUS
  <2>3. Since(pool.acc, pos[j].checkpoint) + d < ACC_MOD
    BY DEF NoLap, d
  <2>4. /\ pos[j].checkpoint \in 0..(ACC_MOD - 1) /\ pos[j].pending \in Nat
    BY <2>1, PosNumbers
  <2>5. Since(pool'.acc, pos[j].checkpoint) = Since(pool.acc, pos[j].checkpoint) + d
    BY <1>2, <1>4, <2>3, <2>4, SinceAdds DEF d
  <2> DEFINE e == Since(pool.acc, pos[j].checkpoint)
  <2>6. e \in 0..(ACC_MOD - 1)
    BY <1>2, <2>4, SinceIs
  <2>7. v[j] = pos[j].pending * ACC_ONE + f[j] * e /\ w[j] = pos[j].pending * ACC_ONE + f[j] * (e + d)
    BY <2>1, <2>2, <2>5 DEF Weight
  <2> HIDE DEF e, f, v, w
  <2>8. f[j] * (e + d) = f[j] * e + d * f[j] /\ f[j] * e \in Nat /\ d * f[j] \in Nat
    BY <1>6, <2>1, <2>6, Z3
  <2>9. pos[j].pending * ACC_ONE \in Nat
    BY <1>2, <2>4
  <2> QED BY <2>1, <2>7, <2>8, <2>9
<1>9. IsFiniteSet(S) /\ d \in Int
  BY <1>1, <1>6
<1>10. Total(f, S) = pool.l /\ Total(v, S) <= ACC_ONE * pool.fee_reserve
  BY DEF CoverInv
<1> HIDE DEF S, f, v, w
<1>11. Total(v, S) \in Int /\ Total(f, S) \in Int /\ Total(w, S) = Total(v, S) + d * Total(f, S)
  BY <1>8, <1>9, TotalLinear
<1>12. Total(w, S) <= ACC_ONE * (pool.fee_reserve + LpPart(fee))
  <2>1. d * pool.l <= pool.l * n /\ d * pool.l \in Nat /\ pool.l * n \in Nat
    <3>1. d * pool.l <= n * pool.l
      BY <1>2, <1>3, <1>6, MulMono
    <3>2. n * pool.l = pool.l * n /\ d * pool.l \in Nat /\ pool.l * n \in Nat
      BY <1>2, <1>3, <1>6, Z3
    <3> QED BY <3>1, <3>2
  <2>2. /\ ACC_ONE * (pool.fee_reserve + LpPart(fee))
             = ACC_ONE * pool.fee_reserve + LpPart(fee) * ACC_ONE
        /\ ACC_ONE * pool.fee_reserve \in Nat /\ LpPart(fee) * ACC_ONE \in Nat
    BY <1>2, Z3
  <2> QED BY <1>3, <1>10, <1>11, <2>1, <2>2
<1> QED BY <1>5, <1>7, <1>9, <1>10, <1>11, <1>12 DEF CoverInv, S, f

LEMMA CoverCreate ==
  ASSUME CoverInv, PoolInv', NEW a \in Openings, NEW i \in Ids, NEW o \in Accounts,
         NEW lock \in BOOLEAN, create_pool(a, i, o, lock)
  PROVE  CoverInv'
<1> DEFINE q == [NewPosition(o, 0) EXCEPT !.shares = a.l0, !.locked = IF lock THEN a.l0 ELSE 0]
<1>1. ~IsOpen /\ Positions = {} /\ PoolInv /\ IsFiniteSet(Positions)
  BY DEF create_pool, CoverInv, PoolInv, TypeOK
<1>2. /\ pos' = [pos EXCEPT ![i] = q] /\ pool'.acc = 0 /\ pool'.l = a.l0 /\ pool'.fee_reserve = 0
      /\ pool' \in Pool
  <2>1. pos' = [pos EXCEPT ![i] = q] /\ pool'.acc = 0 /\ pool'.l = a.l0 /\ pool'.fee_reserve = 0
    BY DEF create_pool
  <2>2. pool' # NoPool
    <3>1. "vx" \in DOMAIN pool' /\ "vx" \notin DOMAIN NoPool
      BY DEF create_pool, NoPool
    <3> QED BY <3>1
  <2>3. pool' \in Pool
    BY <2>2 DEF PoolInv, TypeOK
  <2> QED BY <2>1, <2>3
<1>3. IsOpen' /\ PoolOk(pool')
  <2>1. IsOpen'
    BY <1>2, PoolIsOpen DEF IsOpen
  <2> QED BY <1>2, <2>1 DEF PoolInv, TypeOK, PoolOk
<1>4. pos[i] = None
  BY <1>1 DEF Positions
<1>5. /\ PosOk(q) /\ q.shares = a.l0 /\ q.pending = 0 /\ q.checkpoint = 0
  <2>1. a.l0 \in Nat /\ 0 \in 0..(ACC_MOD - 1)
    BY OpeningsAssumption, AccAssumption
  <2> DEFINE n == NewPosition(o, 0)  lk == IF lock THEN a.l0 ELSE 0
  <2>2. lk \in Nat /\ lk <= a.l0
    BY <2>1
  <2>3. n \in Position /\ n.pending = 0 /\ n.checkpoint = 0
    BY <2>1, NewOk DEF PosOk, NewPosition
  <2>4. q = [n EXCEPT !.shares = a.l0, !.locked = lk]
    OBVIOUS
  <2> HIDE DEF n, lk, q
  <2>5. q \in Position /\ q.shares = a.l0 /\ q.locked = lk /\ q.pending = 0 /\ q.checkpoint = 0
    BY <2>1, <2>2, <2>3, <2>4 DEF Position
  <2> QED BY <2>2, <2>5 DEF PosOk
<1> HIDE DEF q
<1>6. /\ IsFiniteSet(Positions')
      /\ Total(ShareOf', Positions') = Total(ShareOf, Positions) - 0 + q.shares
      /\ Total(WeightOf', Positions') = Total(WeightOf, Positions) - 0 + Weight(q, pool'.acc)
  <2> DEFINE s0 == IF pos[i] = None THEN 0 ELSE pos[i].shares
             w0 == IF pos[i] = None THEN 0 ELSE Weight(pos[i], pool.acc)
  <2>1. s0 = 0 /\ w0 = 0
    BY <1>4
  <2>2. /\ IsFiniteSet(Positions')
        /\ Total(ShareOf', Positions') = Total(ShareOf, Positions) - s0 + q.shares
        /\ Total(WeightOf', Positions') = Total(WeightOf, Positions) - w0 + Weight(q, pool'.acc)
        /\ Total(ShareOf, Positions) \in Int /\ Total(WeightOf, Positions) \in Int
    BY <1>1, <1>2, <1>3, <1>5, PutTotals
  <2> HIDE DEF s0, w0
  <2> QED BY <2>1, <2>2
<1>7. Total(ShareOf, Positions) = 0 /\ Total(WeightOf, Positions) = 0
  BY <1>1, TotalStep
<1>8. pool'.acc \in 0..(ACC_MOD - 1)
  BY <1>3, PoolNumbers
<1>9. Weight(q, pool'.acc) = 0
  <2>1. Weight(q, pool'.acc) = ACC_ONE * 0
    BY <1>2, <1>5, <1>8, SettledWeight
  <2> QED BY <2>1, AccAssumption
<1>10. q.shares \in Nat
  BY <1>5, PosNumbers
<1>11. Total(ShareOf', Positions') = pool'.l /\ Total(WeightOf', Positions') = 0
  BY <1>2, <1>5, <1>6, <1>7, <1>9, <1>10
<1>12. ACC_ONE * pool'.fee_reserve = 0
  BY <1>2, AccAssumption
<1> QED BY <1>6, <1>11, <1>12 DEF CoverInv

LEMMA CoverSwap ==
  ASSUME CoverInv, PoolInv',
         \/ \E n \in 1..SolSupply : swap_buy(n)
         \/ \E n \in 1..Supply : swap_sell(n)
  PROVE  CoverInv'
<1>1. IsOpen /\ PoolInv
  BY DEF CoverInv, swap_buy, swap_sell
<1>2. PoolOk(pool) /\ pool \in Pool /\ now \in Nat
  BY <1>1, InvMeans DEF PoolOk
<1>3. ASSUME NEW n \in 1..SolSupply, swap_buy(n) PROVE CoverInv'
  <2> DEFINE fee == TradeFee(pool, n)  net == n - fee  out == TokensOut(pool, net)
             m == [pool EXCEPT !.x = pool.x - out, !.y = pool.y + net]
  <2>1. pos' = pos /\ pool' = credit(m, fee) /\ NoLap(pool') /\ out <= pool.x /\ out < big_x(pool)
    BY <1>3 DEF swap_buy, AfterBuy
  <2>2. n \in Nat
    BY BoundsAssumption
  <2>3. fee \in Nat /\ LpPart(fee) \in Nat /\ net \in Nat
    <3>1. fee \in 0..n /\ LpPart(fee) \in 0..fee
      BY <1>2, <2>2, FeeOk
    <3> QED BY <2>2, <3>1
  <2> HIDE DEF fee, net
  <2>4. out \in Nat
    BY <1>2, <2>1, <2>3, BuyMath
  <2> HIDE DEF out
  <2>5. pool.x - out \in Nat /\ pool.y + net \in Nat
    BY <1>2, <2>1, <2>3, <2>4, PoolNumbers
  <2>6. m \in Pool /\ m.l = pool.l /\ m.acc = pool.acc /\ m.fee_reserve = pool.fee_reserve
    BY <1>2, <2>5 DEF Pool
  <2> HIDE DEF m
  <2> QED BY <1>1, <2>1, <2>3, <2>6, CoverTrade
<1>4. ASSUME NEW n \in 1..Supply, swap_sell(n) PROVE CoverInv'
  <2> DEFINE gross == SolOut(pool, n)  fee == TradeFee(pool, gross)
             m == [pool EXCEPT !.x = pool.x + n, !.y = pool.y - gross]
  <2>1. pos' = pos /\ pool' = credit(m, fee) /\ NoLap(pool') /\ gross <= pool.y /\ gross > 0
    BY <1>4 DEF swap_sell, AfterSell
  <2>2. n \in Nat
    BY BoundsAssumption
  <2>3. gross \in Nat
    <3>1. LpPart(0) \in Nat
      <4>1. protocol_part(0) \in 0..0
        BY BpsAssumption, FloorShare DEF protocol_part
      <4> QED BY <4>1 DEF LpPart
    <3> QED BY <1>2, <2>1, <2>2, <3>1, SellMath
  <2> HIDE DEF gross
  <2>4. fee \in Nat /\ LpPart(fee) \in Nat
    <3>1. fee \in 0..gross /\ LpPart(fee) \in 0..fee
      BY <1>2, <2>3, FeeOk
    <3> QED BY <2>3, <3>1
  <2> HIDE DEF fee
  <2>5. pool.x + n \in Nat /\ pool.y - gross \in Nat
    BY <1>2, <2>1, <2>2, <2>3, PoolNumbers
  <2>6. m \in Pool /\ m.l = pool.l /\ m.acc = pool.acc /\ m.fee_reserve = pool.fee_reserve
    BY <1>2, <2>5 DEF Pool
  <2> HIDE DEF m
  <2> QED BY <1>1, <2>1, <2>4, <2>6, CoverTrade
<1> QED BY <1>3, <1>4

LEMMA CoverAdd ==
  ASSUME CoverInv, PoolInv', NEW i \in Ids, NEW o \in Accounts, NEW dl \in 1..MAX_AMOUNT,
         add_liquidity(i, o, dl)
  PROVE  CoverInv'
<1> DEFINE next == Added(pool, dl)  q0 == Opened(i, o)  t == settle(q0, pool)
           q == AddShares(q0, dl, pool)
<1>1. IsOpen /\ PoolInv
  BY DEF CoverInv, add_liquidity
<1>2. PoolOk(pool) /\ pool.acc \in 0..(ACC_MOD - 1) /\ pool.l \in Nat /\ pool.fee_reserve \in Nat
  BY <1>1, InvMeans, PoolNumbers
<1>3. dl \in Nat
  BY LiquidityAssumption
<1>4. pool' = next /\ pos' = [pos EXCEPT ![i] = q]
  BY DEF add_liquidity
<1> HIDE DEF next
<1>5. /\ PoolOk(pool') /\ pool'.acc = pool.acc /\ pool'.l = pool.l + dl
      /\ pool'.fee_reserve = pool.fee_reserve
  BY <1>2, <1>3, <1>4, AddMath DEF next
<1>6. PosOk(q0) /\ (pos[i] # None => q0 = pos[i])
  BY <1>1, <1>2, NewOk, InvMeans DEF Opened
<1>7. pos[i] = None => q0.shares = 0 /\ Weight(q0, pool.acc) = 0
  <2> SUFFICES ASSUME pos[i] = None PROVE q0.shares = 0 /\ Weight(q0, pool.acc) = 0
    OBVIOUS
  <2>1. q0.shares = 0 /\ q0.pending = 0 /\ q0.checkpoint = pool.acc
    BY DEF Opened, NewPosition
  <2> HIDE DEF q0
  <2>2. Weight(q0, pool.acc) = ACC_ONE * 0
    BY <1>2, <1>6, <2>1, SettledWeight
  <2> QED BY <2>1, <2>2, AccAssumption
<1> HIDE DEF q0
<1>8. /\ PosOk(t) /\ t.pending = Due(q0, pool.acc) /\ t.checkpoint = pool.acc /\ t.shares = q0.shares
  BY <1>2, <1>6, SettleOk
<1>9. q = [t EXCEPT !.shares = t.shares + dl]
  BY DEF AddShares
<1> HIDE DEF t, q
<1>10. /\ PosOk(q) /\ q.pending = t.pending /\ q.checkpoint = pool.acc /\ q.shares = t.shares + dl
       /\ q.shares \in Nat /\ t.shares \in Nat
  <2>1. t \in Position /\ t.locked <= t.shares /\ t.shares + dl \in Nat /\ t.locked \in Nat
        /\ t.shares \in Nat
    BY <1>3, <1>8, PosNumbers DEF PosOk
  <2>2. /\ q \in Position /\ q.locked = t.locked /\ q.shares = t.shares + dl
        /\ q.pending = t.pending /\ q.checkpoint = t.checkpoint
    BY <1>9, <2>1 DEF Position
  <2> QED BY <1>3, <1>8, <2>1, <2>2 DEF PosOk
<1>11. pool'.l - pool.l = q.shares - q0.shares
  BY <1>2, <1>3, <1>5, <1>8, <1>10
<1>12. Weight(q, pool.acc) - Weight(q0, pool.acc) <= ACC_ONE * (pool'.fee_reserve - pool.fee_reserve)
  <2>1. Weight(q, pool.acc) = ACC_ONE * Due(q0, pool.acc)
    BY <1>2, <1>8, <1>10, SettledWeight
  <2>2. ACC_ONE * Due(q0, pool.acc) <= Weight(q0, pool.acc) /\ Weight(q0, pool.acc) \in Nat
        /\ Due(q0, pool.acc) \in Nat
    BY <1>2, <1>6, WeightOk
  <2>3. ACC_ONE * (pool'.fee_reserve - pool.fee_reserve) = 0 /\ ACC_ONE * Due(q0, pool.acc) \in Nat
    BY <1>2, <1>5, <2>2, AccAssumption
  <2> QED BY <2>1, <2>2, <2>3
<1> QED BY <1>1, <1>4, <1>5, <1>6, <1>7, <1>10, <1>11, <1>12, CoverPut

LEMMA CoverRemove ==
  ASSUME CoverInv, PoolInv', NEW i \in Ids, NEW dl \in 1..MAX_AMOUNT, remove_liquidity(i, dl)
  PROVE  CoverInv'
<1> DEFINE next == Removed(pool, dl)  t == settle(pos[i], pool)
           q == [t EXCEPT !.shares = @ - dl]
<1>1. IsOpen /\ PoolInv /\ PosOk(pos[i]) /\ pos[i] # None /\ PoolOk(pool)
  BY InvMeans DEF CoverInv, remove_liquidity, MayRemove
<1>2. pool.acc \in 0..(ACC_MOD - 1) /\ pool.l \in Nat /\ pool.fee_reserve \in Nat
  BY <1>1, PoolNumbers
<1>3. dl \in Nat
  BY LiquidityAssumption
<1>4. /\ pool' = next /\ pos' = [pos EXCEPT ![i] = q]
      /\ dl <= t.shares - t.locked /\ dl <= pool.l /\ pool.l - dl >= MIN_LIQUIDITY
  BY DEF remove_liquidity, MayRemove, Unlocked, Removable
<1>5. dl < pool.l
  BY <1>2, <1>3, <1>4, LiquidityAssumption
<1> HIDE DEF next
<1>6. /\ PoolOk(pool') /\ pool'.acc = pool.acc /\ pool'.l = pool.l - dl
      /\ pool'.fee_reserve = pool.fee_reserve
  BY <1>1, <1>3, <1>4, <1>5, RemoveMath DEF next
<1>8. /\ PosOk(t) /\ t.pending = Due(pos[i], pool.acc) /\ t.checkpoint = pool.acc
      /\ t.shares = pos[i].shares
  BY <1>1, SettleOk
<1>9. q = [t EXCEPT !.shares = t.shares - dl]
  OBVIOUS
<1> HIDE DEF t, q
<1>10. /\ PosOk(q) /\ q.pending = t.pending /\ q.checkpoint = pool.acc /\ q.shares = t.shares - dl
       /\ t.shares \in Nat
  <2>1. t \in Position /\ t.shares - dl \in Nat /\ t.locked <= t.shares - dl /\ t.shares \in Nat
    BY <1>3, <1>4, <1>8, PosNumbers DEF PosOk
  <2>2. /\ q \in Position /\ q.locked = t.locked /\ q.shares = t.shares - dl
        /\ q.pending = t.pending /\ q.checkpoint = t.checkpoint
    BY <1>9, <2>1 DEF Position
  <2> QED BY <1>8, <2>1, <2>2 DEF PosOk
<1>11. pool'.l - pool.l = q.shares - pos[i].shares
  BY <1>2, <1>3, <1>6, <1>8, <1>10
<1>12. Weight(q, pool.acc) - Weight(pos[i], pool.acc)
         <= ACC_ONE * (pool'.fee_reserve - pool.fee_reserve)
  <2>1. Weight(q, pool.acc) = ACC_ONE * Due(pos[i], pool.acc)
    BY <1>2, <1>8, <1>10, SettledWeight
  <2>2. ACC_ONE * Due(pos[i], pool.acc) <= Weight(pos[i], pool.acc) /\ Weight(pos[i], pool.acc) \in Nat
        /\ Due(pos[i], pool.acc) \in Nat
    BY <1>1, <1>2, WeightOk
  <2>3. ACC_ONE * (pool'.fee_reserve - pool.fee_reserve) = 0
        /\ ACC_ONE * Due(pos[i], pool.acc) \in Nat
    BY <1>2, <1>6, <2>2, AccAssumption
  <2> QED BY <2>1, <2>2, <2>3
<1> QED BY <1>1, <1>4, <1>6, <1>10, <1>11, <1>12, CoverPut

\* A claim takes out of the reserve what the position weighs, rounded down.
LEMMA CoverClaim ==
  ASSUME CoverInv, PoolInv', NEW i \in Ids, claim_fees(i)
  PROVE  CoverInv'
<1> DEFINE t == settle(pos[i], pool)
           amount == t.pending
           q == [t EXCEPT !.pending = 0]
           n == pool.fee_reserve - amount
<1>1. IsOpen /\ PoolInv /\ PosOk(pos[i]) /\ pos[i] # None /\ PoolOk(pool)
      /\ pos \in [Ids -> Position \cup {None}] /\ pool \in Pool
  BY InvMeans DEF CoverInv, claim_fees, MayClaim, PoolOk
<1>2. pool.acc \in 0..(ACC_MOD - 1) /\ pool.l \in Nat /\ pool.fee_reserve \in Nat
  BY <1>1, PoolNumbers
<1>3. /\ amount <= pool.fee_reserve /\ pool' = [pool EXCEPT !.fee_reserve = n]
      /\ pos' = [pos EXCEPT ![i] = q]
  BY <1>1 DEF claim_fees, MayClaim, Claimed
<1>4. /\ PosOk(t) /\ t.pending = Due(pos[i], pool.acc) /\ t.checkpoint = pool.acc
      /\ t.shares = pos[i].shares /\ amount \in Nat
  BY <1>1, SettleOk
<1> HIDE DEF t
<1>5. PosOk(q) /\ q.pending = 0 /\ q.checkpoint = pool.acc /\ q.shares = pos[i].shares
  <2>1. t \in Position /\ t.locked <= t.shares
    BY <1>4 DEF PosOk
  <2> QED BY <1>4, <2>1 DEF PosOk, Position
<1> HIDE DEF q
<1>6. n \in Nat /\ pool.fee_reserve - n = amount
  BY <1>2, <1>3, <1>4
<1>7. amount = Due(pos[i], pool.acc)
  BY <1>4
<1> HIDE DEF n, amount
<1>8. /\ pool' \in Pool /\ pool'.acc = pool.acc /\ pool'.l = pool.l /\ pool'.fee_reserve = n
      /\ pool'.x = pool.x /\ pool'.vx = pool.vx
  BY <1>1, <1>3, <1>6 DEF Pool
<1>9. PoolOk(pool')
  BY <1>1, <1>8 DEF PoolOk, big_x
<1>10. pool'.l - pool.l = q.shares - pos[i].shares
  <2>1. pos[i].shares \in Nat
    BY <1>1, PosNumbers
  <2> QED BY <1>2, <1>5, <1>8, <2>1
<1>11. Weight(q, pool.acc) - Weight(pos[i], pool.acc)
         <= ACC_ONE * (pool'.fee_reserve - pool.fee_reserve)
  <2>1. Weight(q, pool.acc) = ACC_ONE * 0
    BY <1>2, <1>5, SettledWeight
  <2>2. ACC_ONE * amount <= Weight(pos[i], pool.acc) /\ Weight(pos[i], pool.acc) \in Nat
    BY <1>1, <1>2, <1>7, WeightOk
  <2>3. ACC_ONE * (n - pool.fee_reserve) = 0 - ACC_ONE * amount /\ ACC_ONE * amount \in Nat
        /\ ACC_ONE * 0 = 0
    <3>1. n - pool.fee_reserve = 0 - amount
      BY <1>2, <1>4, <1>6
    <3>2. ACC_ONE * (0 - amount) = 0 - ACC_ONE * amount /\ ACC_ONE * amount \in Nat /\ ACC_ONE * 0 = 0
      BY <1>4, AccAssumption, Z3
    <3> QED BY <3>1, <3>2
  <2> QED BY <1>8, <2>1, <2>2, <2>3
<1> QED BY <1>1, <1>3, <1>5, <1>8, <1>9, <1>10, <1>11, CoverPut

\* Handing a position on, naming a recipient, locking: shares and weight stay as they are.
LEMMA CoverPosition ==
  ASSUME CoverInv, PoolInv', NEW i \in Ids, NEW a \in Accounts, NEW n \in Nat,
         transfer_position(i, a) \/ set_recipient(i, a) \/ lock_liquidity(i, n)
  PROVE  CoverInv'
<1> DEFINE t == settle(pos[i], pool)
<1>1. pool' = pool /\ pos[i] # None /\ PoolInv
  BY DEF transfer_position, set_recipient, lock_liquidity, CoverInv
<1>2. IsOpen /\ PosOk(pos[i]) /\ PoolOk(pool)
  BY <1>1, InvMeans
<1>3. pool.acc \in 0..(ACC_MOD - 1) /\ pool.l \in Nat /\ pool.fee_reserve \in Nat
  BY <1>2, PoolNumbers
<1>4. /\ PosOk(t) /\ t.pending = Due(pos[i], pool.acc) /\ t.checkpoint = pool.acc
      /\ t.shares = pos[i].shares
  BY <1>2, SettleOk
<1> HIDE DEF t
<1>5. /\ Weight(pos[i], pool.acc) \in Nat /\ ACC_ONE * Due(pos[i], pool.acc) <= Weight(pos[i], pool.acc)
  BY <1>2, <1>3, WeightOk
<1>6. \E q : /\ PosOk(q) /\ q.shares = pos[i].shares /\ Weight(q, pool.acc) <= Weight(pos[i], pool.acc)
             /\ pos' = [pos EXCEPT ![i] = q]
  <2>1. CASE transfer_position(i, a)
    <3> DEFINE q == [t EXCEPT !.owner = a, !.recipient = a]
    <3>1. PosOk(q) /\ q.pending = t.pending /\ q.checkpoint = pool.acc /\ q.shares = t.shares
      BY <1>4 DEF PosOk, Position
    <3>2. pos' = [pos EXCEPT ![i] = q]
      BY <2>1 DEF transfer_position, t
    <3> HIDE DEF q
    <3>3. Weight(q, pool.acc) = ACC_ONE * Due(pos[i], pool.acc)
      BY <1>3, <1>4, <3>1, SettledWeight
    <3> QED BY <1>4, <1>5, <3>1, <3>2, <3>3
  <2>2. CASE set_recipient(i, a)
    <3> DEFINE q == [pos[i] EXCEPT !.recipient = a]
    <3>1. /\ PosOk(q) /\ q.pending = pos[i].pending /\ q.checkpoint = pos[i].checkpoint
          /\ q.shares = pos[i].shares
      BY <1>2 DEF PosOk, Position
    <3>2. pos' = [pos EXCEPT ![i] = q]
      BY <2>2 DEF set_recipient
    <3> HIDE DEF q
    <3>3. Weight(q, pool.acc) = Weight(pos[i], pool.acc)
      BY <3>1 DEF Weight
    <3>4. Weight(q, pool.acc) <= Weight(pos[i], pool.acc)
      BY <1>5, <3>3
    <3> QED BY <3>1, <3>2, <3>4
  <2>3. CASE lock_liquidity(i, n)
    <3> DEFINE v == pos[i].locked + n
               q == [pos[i] EXCEPT !.locked = v]
    <3>1. v \in Nat /\ v <= pos[i].shares
      BY <1>2, <2>3, PosNumbers DEF lock_liquidity
    <3>2. pos' = [pos EXCEPT ![i] = q]
      BY <2>3 DEF lock_liquidity
    <3> HIDE DEF v
    <3>3. /\ PosOk(q) /\ q.pending = pos[i].pending /\ q.checkpoint = pos[i].checkpoint
          /\ q.shares = pos[i].shares
      BY <1>2, <3>1 DEF PosOk, Position
    <3> HIDE DEF q
    <3>4. Weight(q, pool.acc) = Weight(pos[i], pool.acc)
      BY <3>3 DEF Weight
    <3>5. Weight(q, pool.acc) <= Weight(pos[i], pool.acc)
      BY <1>5, <3>4
    <3> QED BY <3>2, <3>3, <3>5
  <2> QED BY <2>1, <2>2, <2>3
<1>7. PICK q : /\ PosOk(q) /\ q.shares = pos[i].shares /\ Weight(q, pool.acc) <= Weight(pos[i], pool.acc)
               /\ pos' = [pos EXCEPT ![i] = q]
  BY <1>6
<1>8. pool'.l - pool.l = q.shares - pos[i].shares
  BY <1>1, <1>2, <1>3, <1>7, PosNumbers
<1>9. Weight(q, pool.acc) - Weight(pos[i], pool.acc)
        <= ACC_ONE * (pool'.fee_reserve - pool.fee_reserve)
  <2>1. Weight(q, pool.acc) \in Nat
    BY <1>3, <1>7, WeightOk
  <2>2. ACC_ONE * (pool'.fee_reserve - pool.fee_reserve) = 0
    BY <1>1, <1>3, AccAssumption
  <2> QED BY <1>5, <1>7, <2>1, <2>2
<1>10. pos' = [pos EXCEPT ![i] = q] /\ PosOk(q)
  BY <1>7
<1> QED BY <1>1, <1>2, <1>8, <1>9, <1>10, CoverPut

LEMMA CoverNext == CoverInv /\ [Next]_vars => CoverInv'
<1> SUFFICES ASSUME CoverInv, [Next]_vars PROVE CoverInv'
  OBVIOUS
<1>0. PoolInv /\ PoolInv'
  BY PoolStep DEF CoverInv
<1>1. ASSUME NEW a \in Openings, NEW i \in Ids, NEW o \in Accounts, NEW lock \in BOOLEAN,
             create_pool(a, i, o, lock)
      PROVE  CoverInv'
  BY <1>0, <1>1, CoverCreate
<1>2. ASSUME (\E n \in 1..SolSupply : swap_buy(n)) \/ (\E n \in 1..Supply : swap_sell(n))
      PROVE  CoverInv'
  BY <1>0, <1>2, CoverSwap
<1>3. ASSUME NEW i \in Ids, NEW o \in Accounts, NEW dl \in 1..MAX_AMOUNT, add_liquidity(i, o, dl)
      PROVE  CoverInv'
  BY <1>0, <1>3, CoverAdd
<1>4. ASSUME NEW i \in Ids, NEW dl \in 1..MAX_AMOUNT, remove_liquidity(i, dl) PROVE CoverInv'
  BY <1>0, <1>4, CoverRemove
<1>5. ASSUME NEW i \in Ids, claim_fees(i) PROVE CoverInv'
  BY <1>0, <1>5, CoverClaim
<1>6. ASSUME NEW i \in Ids, NEW a \in Accounts, transfer_position(i, a) \/ set_recipient(i, a)
      PROVE  CoverInv'
  BY <1>0, <1>6, 0 \in Nat, CoverPosition
<1>7. ASSUME NEW i \in Ids, NEW n \in 1..MAX_AMOUNT, lock_liquidity(i, n) PROVE CoverInv'
  <2>1. pos[i].owner \in Accounts /\ n \in Nat
    BY <1>0, <1>7, InvMeans, PosNumbers, LiquidityAssumption DEF lock_liquidity
  <2> QED BY <1>0, <1>7, <2>1, CoverPosition
<1>8. ASSUME Gift \/ Tick \/ UNCHANGED vars PROVE CoverInv'
  <2>1. pool' = pool /\ pos' = pos
    BY <1>8 DEF Gift, Tick, vars
  <2>2. Positions' = Positions /\ ShareOf' = ShareOf /\ WeightOf' = WeightOf
    BY <2>1 DEF Positions, ShareOf, WeightOf
  <2> QED BY <1>0, <2>1, <2>2 DEF CoverInv, IsOpen
<1> QED BY <1>1, <1>2, <1>3, <1>4, <1>5, <1>6, <1>7, <1>8 DEF Next

\* The folds the property is written with are those sums.
LEMMA SharesMean ==
  ASSUME PoolInv, IsFiniteSet(Positions)
  PROVE  MapThenSumSet(Shares, Positions) = Total(ShareOf, Positions)
<1> DEFINE it == CHOOSE g : g = [s \in SUBSET Positions |->
                   IF s = {} THEN 0 ELSE Shares(Pick(s)) + g[s \ {Pick(s)}]]
<1>1. \A s \in SUBSET Positions : s # {} => ShareOf[Pick(s)] = Shares(Pick(s))
  BY PickLemma DEF ShareOf, Shares
<1>2. PICK g : SumRec(ShareOf, Positions, g)
  BY SumRecExists
<1>3. g = [s \in SUBSET Positions |-> IF s = {} THEN 0 ELSE Shares(Pick(s)) + g[s \ {Pick(s)}]]
  BY <1>1, <1>2 DEF SumRec
<1>4. it = [s \in SUBSET Positions |-> IF s = {} THEN 0 ELSE Shares(Pick(s)) + it[s \ {Pick(s)}]]
  BY <1>3, Zenon
<1>5. MapThenSumSet(Shares, Positions) = it[Positions]
  BY DEF MapThenSumSet, MapThenFoldSet, Pick
<1> HIDE DEF it
<1>6. SumRec(ShareOf, Positions, it)
  BY <1>1, <1>4 DEF SumRec
<1>7. Total(ShareOf, Positions) = it[Positions]
  BY <1>6, TotalRec
<1> QED BY <1>5, <1>7

OwedOf == [i \in Positions |-> Owed(i)]

LEMMA OwedMeans ==
  ASSUME PoolInv, IsFiniteSet(Positions)
  PROVE  MapThenSumSet(Owed, Positions) = Total(OwedOf, Positions)
<1> DEFINE it == CHOOSE g : g = [s \in SUBSET Positions |->
                   IF s = {} THEN 0 ELSE Owed(Pick(s)) + g[s \ {Pick(s)}]]
<1>1. \A s \in SUBSET Positions : s # {} => OwedOf[Pick(s)] = Owed(Pick(s))
  BY PickLemma DEF OwedOf
<1>2. PICK g : SumRec(OwedOf, Positions, g)
  BY SumRecExists
<1>3. g = [s \in SUBSET Positions |-> IF s = {} THEN 0 ELSE Owed(Pick(s)) + g[s \ {Pick(s)}]]
  BY <1>1, <1>2 DEF SumRec
<1>4. it = [s \in SUBSET Positions |-> IF s = {} THEN 0 ELSE Owed(Pick(s)) + it[s \ {Pick(s)}]]
  BY <1>3, Zenon
<1>5. MapThenSumSet(Owed, Positions) = it[Positions]
  BY DEF MapThenSumSet, MapThenFoldSet, Pick
<1> HIDE DEF it
<1>6. SumRec(OwedOf, Positions, it)
  BY <1>1, <1>4 DEF SumRec
<1>7. Total(OwedOf, Positions) = it[Positions]
  BY <1>6, TotalRec
<1> QED BY <1>5, <1>7

\* What outweighs the positions covers them: each division only rounds down.
LEMMA CoverMeans == CoverInv => PositionsCovered
<1> SUFFICES ASSUME CoverInv, IsOpen PROVE PositionsCovered
  BY DEF PositionsCovered
<1>1. PoolInv /\ IsFiniteSet(Positions) /\ PoolOk(pool)
  BY InvMeans DEF CoverInv
<1>2. pool.fee_reserve \in Nat /\ ACC_ONE \in Nat \ {0}
  BY <1>1, PoolNumbers, AccAssumption
<1>3. Total(ShareOf, Positions) = pool.l /\ Total(WeightOf, Positions) <= ACC_ONE * pool.fee_reserve
  BY DEF CoverInv
<1>4. \A j \in Positions : OwedOf[j] \in Int /\ WeightOf[j] \in Int /\ ACC_ONE * OwedOf[j] <= WeightOf[j]
  <2> SUFFICES ASSUME NEW j \in Positions
               PROVE  OwedOf[j] \in Int /\ WeightOf[j] \in Int /\ ACC_ONE * OwedOf[j] <= WeightOf[j]
    OBVIOUS
  <2>1. /\ PosOk(pos[j]) /\ WeightOf[j] = Weight(pos[j], pool.acc)
        /\ pool.acc \in 0..(ACC_MOD - 1)
    BY <1>1, PositionsOk
  <2>2. OwedOf[j] = Due(pos[j], pool.acc)
    BY DEF OwedOf, Owed, Due
  <2> QED BY <2>1, <2>2, WeightOk
<1> DEFINE o == Total(OwedOf, Positions)  w == Total(WeightOf, Positions)
<1>5. o \in Int /\ w \in Int /\ ACC_ONE * o <= w
  <2> DEFINE S == Positions  f == OwedOf  g == WeightOf
  <2>1. IsFiniteSet(S) /\ ACC_ONE \in Int
        /\ \A e \in S : f[e] \in Int /\ g[e] \in Int /\ ACC_ONE * f[e] <= g[e]
    BY <1>1, <1>2, <1>4
  <2> HIDE DEF S, f, g
  <2>2. Total(f, S) \in Int /\ Total(g, S) \in Int /\ ACC_ONE * Total(f, S) <= Total(g, S)
    BY <2>1, TotalBound
  <2> QED BY <2>2 DEF S, f, g
<1> HIDE DEF o
<1>6. o <= pool.fee_reserve
  <2>1. ACC_ONE * (pool.fee_reserve + 1) = ACC_ONE * pool.fee_reserve + ACC_ONE
        /\ ACC_ONE * pool.fee_reserve \in Int /\ ACC_ONE * o \in Int
    BY <1>2, <1>5, Z3
  <2>2. ACC_ONE * o < ACC_ONE * (pool.fee_reserve + 1)
    BY <1>2, <1>3, <1>5, <2>1
  <2>3. o < pool.fee_reserve + 1
    BY <1>2, <1>5, <2>2, CancelFactor
  <2> QED BY <1>2, <1>5, <2>3
<1> QED BY <1>1, <1>3, <1>6, SharesMean, OwedMeans DEF PositionsCovered, o

-----------------------------------------------------------------------------
(* Whoever is in can leave.                                                *)

\* What a removal takes is in the vaults, and leaves them covering the pool.
LEMMA RemoveIsOpen ==
  ASSUME CoverInv, NEW i \in Positions, Unlocked(pos[i]) > 0,
         pool.l - Unlocked(pos[i]) >= MIN_LIQUIDITY
  PROVE  MayRemove(i, Unlocked(pos[i]))
<1> DEFINE t == settle(pos[i], pool)
           dl == Unlocked(pos[i])
           next == Removed(pool, dl)
<1>1. /\ pos[i] # None /\ IsOpen /\ PosOk(pos[i]) /\ PoolOk(pool)
      /\ sol_vault \in Nat /\ vault \in Nat
  BY InvMeans DEF CoverInv, Positions
<1>2. /\ sol_vault >= pool.y + pool.fee_reserve /\ vault >= pool.x
      /\ pool.l \in Nat /\ pool.x \in Nat /\ pool.y \in Nat /\ pool.fee_reserve \in Nat
  BY <1>1, PoolNumbers DEF CoverInv, PoolInv, Backed
<1>3. t.shares = pos[i].shares /\ t.locked = pos[i].locked
  BY <1>1, SettleOk
<1> HIDE DEF t
<1>4. Unlocked(t) = dl /\ dl \in Int /\ dl > 0 /\ pool.l - dl >= MIN_LIQUIDITY
  BY <1>1, <1>3, PosNumbers DEF Unlocked
<1> HIDE DEF dl
<1>5. dl \in Nat /\ dl < pool.l
  <2>1. MIN_LIQUIDITY \in Nat \ {0}
    BY LiquidityAssumption
  <2> QED BY <1>2, <1>4, <2>1
<1>6. next.x \in 0..pool.x /\ next.y \in 0..pool.y /\ next.fee_reserve = pool.fee_reserve
  BY <1>1, <1>4, <1>5, RemoveMath
<1> HIDE DEF next
<1>7. /\ pool.x - next.x <= vault /\ pool.y - next.y <= sol_vault
      /\ sol_vault - (pool.y - next.y) >= next.y + next.fee_reserve
  BY <1>1, <1>2, <1>6
<1>8. Removable(pool, dl, Unlocked(t)) /\ dl <= Unlocked(t)
  BY <1>2, <1>4, <1>5 DEF Removable
<1> QED BY <1>1, <1>7, <1>8 DEF MayRemove, require_solvent, t, next, dl

\* What a position is owed is in the fee reserve, which is in the vault.
LEMMA ClaimIsOpen ==
  ASSUME CoverInv, NEW i \in Positions, Owed(i) > 0
  PROVE  MayClaim(i)
<1> DEFINE t == settle(pos[i], pool)
           n == Owed(i)
           w == WeightOf[i]
<1>1. /\ pos[i] # None /\ IsOpen /\ PosOk(pos[i]) /\ PoolOk(pool) /\ sol_vault \in Nat
      /\ pool \in Pool /\ PoolInv
  BY InvMeans DEF CoverInv, Positions, PoolOk
<1>2. /\ sol_vault >= pool.y + pool.fee_reserve /\ pool.y \in Nat /\ pool.fee_reserve \in Nat
  BY <1>1, PoolNumbers DEF CoverInv, PoolInv, Backed
<1>3. t.pending = n /\ n \in Nat /\ n = Due(pos[i], pool.acc)
  BY <1>1, SettleOk DEF Owed, Due
<1>4. ACC_ONE * n <= w /\ w \in Nat
  BY <1>1, <1>3, PositionsOk, WeightOk
<1>5. w <= Total(WeightOf, Positions) /\ Total(WeightOf, Positions) \in Int
  <2> DEFINE S == Positions  f == WeightOf
  <2>1. IsFiniteSet(S) /\ \A e \in S : f[e] \in Nat
    BY <1>1, PositionsOk DEF CoverInv
  <2> HIDE DEF S, f
  <2>2. i \in S => f[i] <= Total(f, S) /\ Total(f, S) \in Int
    BY <2>1, TotalMember
  <2> QED BY <2>2 DEF S, f
<1>6. Total(WeightOf, Positions) <= ACC_ONE * pool.fee_reserve
  BY <1>1 DEF CoverInv
<1> HIDE DEF n, w, t
<1>7. n <= pool.fee_reserve
  <2>1. ACC_ONE \in Nat \ {0}
    BY AccAssumption
  <2>2. ACC_ONE * n \in Int /\ ACC_ONE * pool.fee_reserve \in Int
        /\ ACC_ONE * (pool.fee_reserve + 1) = ACC_ONE * pool.fee_reserve + ACC_ONE
    BY <1>2, <1>3, <2>1, Z3
  <2>3. ACC_ONE * n < ACC_ONE * (pool.fee_reserve + 1)
    BY <1>4, <1>5, <1>6, <2>1, <2>2
  <2>4. n < pool.fee_reserve + 1
    BY <1>2, <1>3, <2>1, <2>3, CancelFactor
  <2> QED BY <1>2, <1>3, <2>4
<1>8. Claimed(n).y = pool.y /\ Claimed(n).fee_reserve = pool.fee_reserve - n
  BY <1>1, <1>2, <1>3 DEF Claimed, Pool
<1>9. n > 0
  BY DEF n
<1>10. n <= sol_vault /\ require_solvent(sol_vault - n, Claimed(n))
  BY <1>1, <1>2, <1>3, <1>7, <1>8 DEF require_solvent
<1> QED BY <1>1, <1>3, <1>7, <1>9, <1>10 DEF MayClaim, t

LEMMA PoolInit == Init => PoolInv
<1> SUFFICES ASSUME Init PROVE PoolInv
  OBVIOUS
<1>1. ~IsOpen /\ Positions = {} /\ pos \in [Ids -> Position \cup {None}]
  BY DEF Init, IsOpen, Positions
<1> QED BY <1>1, BoundsAssumption DEF Init, PoolInv, TypeOK, Backed

-----------------------------------------------------------------------------
(* Theorems.                                                               *)

LEMMA PoolInvariant == Spec => []PoolInv
<1>1. PoolInv /\ [Next]_vars => PoolInv'
  BY PoolStep
<1> QED BY PoolInit, <1>1, PTL DEF Spec

\* Every variable stays within its type; the pool never falls below its floor of
\* liquidity; and no position has more locked than it has (lock_liquidity, remove).
THEOREM PoolTypeCorrect == Spec => []TypeOK
<1>1. PoolInv => TypeOK
  BY DEF PoolInv
<1> QED BY PoolInvariant, <1>1, PTL

\* The vaults hold both reserves and every fee not claimed.
THEOREM PoolBackedAlways == Spec => []Backed
<1>1. PoolInv => Backed
  BY DEF PoolInv
<1> QED BY PoolInvariant, <1>1, PTL

LEMMA CoverInvariant == Spec => []CoverInv
<1>1. Init => CoverInv
  <2> SUFFICES ASSUME Init PROVE CoverInv
    OBVIOUS
  <2>1. ~IsOpen /\ Positions = {}
    BY DEF Init, IsOpen, Positions
  <2> QED BY <2>1, PoolInit, FS_EmptySet DEF CoverInv
<1> QED BY <1>1, CoverNext, PTL DEF Spec

\* The shares of the positions add up to the pool's liquidity, and its fee reserve covers
\* all they may claim: roundings and the accumulator's turns favour the reserve.
THEOREM PositionsCoveredAlways == Spec => []PositionsCovered
<1> QED BY CoverInvariant, CoverMeans, PTL

\* What a position may claim never falls but by a claim: settle-before-change loses
\* nothing, and no trade, deposit or withdrawal of others takes from it.
THEOREM FeesKeptAlways == Spec => FeesKept
<1>1. PoolInv /\ [Next]_vars =>
        [\A i \in Positions : pos'[i] # None /\ (Owed(i)' >= Owed(i) \/ claim_fees(i))]_vars
  BY PoolStep DEF FeesStep
<1> QED BY PoolInvariant, <1>1, PTL DEF Spec, FeesKept

\* No trade and no change of liquidity takes value from a share, however it is rounded.
THEOREM ValuePerShareKeptAlways == Spec => ValuePerShareKept
<1>1. PoolInv /\ [Next]_vars =>
        [IsOpen => k(pool') * pool.l * pool.l >= k(pool) * pool'.l * pool'.l]_vars
  BY PoolStep DEF ValueStep
<1> QED BY PoolInvariant, <1>1, PTL DEF Spec, ValuePerShareKept

\* No position is refused all its unlocked shares (but for the pool's floor) or what it is
\* owed: reserves and fees are in the vaults, and leave them covering the rest.
THEOREM CanLeaveAlways == Spec => []CanLeave
<1>1. CoverInv => CanLeave
  BY RemoveIsOpen, ClaimIsOpen DEF CanLeave
<1> QED BY <1>1, CoverInvariant, PTL
=============================================================================
