---------------------------- MODULE CurveProofs ----------------------------
(***************************************************************************)
(* What the bonding curve promises whoever holds its token, for any fee,   *)
(* any split, any amounts and any trades.                                  *)
(***************************************************************************)
EXTENDS Curve, ProgramMathProofs

-----------------------------------------------------------------------------
(* The arithmetic of a curve in use.                                       *)

\* What trading keeps of a curve c made as s: the distance of virtual and real reserves,
\* and the product.
Shape(c, s) ==
  /\ c \in Reserves /\ s \in Derived
  /\ s.v_sol0 > 0 /\ s.v_tok0 > s.curve_tokens
  /\ c.v_sol = c.real_sol + s.v_sol0
  /\ c.v_tok = c.real_tok + (s.v_tok0 - s.curve_tokens)
  /\ c.real_tok <= s.curve_tokens
  /\ k(c) >= s.v_sol0 * s.v_tok0

LEMMA ShapeNumbers ==
  ASSUME NEW c, NEW s, Shape(c, s)
  PROVE  /\ c.v_sol \in Nat \ {0} /\ c.v_tok \in Nat \ {0} /\ k(c) \in Nat
         /\ c.real_sol \in Nat /\ c.real_tok \in Nat
         /\ s.v_sol0 \in Nat \ {0} /\ s.v_tok0 \in Nat \ {0} /\ s.curve_tokens \in Nat
         /\ c.v_tok - c.real_tok \in Nat \ {0}
         /\ c.v_tok - c.real_tok = s.v_tok0 - s.curve_tokens
<1>1. /\ c.v_sol \in Nat \ {0} /\ c.v_tok \in Nat \ {0}
      /\ c.real_sol \in Nat /\ c.real_tok \in Nat
      /\ s.v_sol0 \in Nat \ {0} /\ s.v_tok0 \in Nat \ {0} /\ s.curve_tokens \in Nat
      /\ c.v_tok - c.real_tok \in Nat \ {0}
      /\ c.v_tok - c.real_tok = s.v_tok0 - s.curve_tokens
  BY DEF Shape, Reserves, Derived
<1>2. k(c) \in Nat
  BY <1>1 DEF k
<1> QED BY <1>1, <1>2

\* A sale of what the curve sold is covered, and keeps the shape.
LEMMA SellMath ==
  ASSUME NEW c, NEW s, Shape(c, s), NEW t \in Nat \ {0}, c.real_tok + t <= s.curve_tokens
  PROVE  /\ SellGross(c, t) \in 0..c.real_sol
         /\ k(AfterSell(c, t)) >= k(c)
         /\ Shape(AfterSell(c, t), s)
<1> DEFINE K == k(c)
           T == c.v_tok + t
           q == CeilDiv(K, T)
           v0 == s.v_sol0
           t0 == s.v_tok0
<1>1. /\ K \in Nat /\ T \in Nat \ {0} /\ v0 \in Nat \ {0} /\ t0 \in Nat \ {0}
      /\ c.v_sol \in Nat \ {0} /\ c.v_tok \in Nat \ {0} /\ c.real_sol \in Nat /\ c.real_tok \in Nat
      /\ c.v_sol = c.real_sol + v0 /\ T <= t0 /\ K >= v0 * t0
  BY ShapeNumbers DEF Shape
<1>2. q \in Nat /\ T * q >= K
  BY <1>1, CeilLemma
<1>3. q <= c.v_sol
  <2>1. c.v_sol * c.v_tok <= c.v_sol * T
    BY <1>1, MulMono
  <2>2. K <= T * c.v_sol
    BY <1>1, <2>1, Z3 DEF k
  <2> QED BY <1>1, <2>2, CeilLeast
<1>4. q >= v0
  <2> SUFFICES ASSUME q < v0 PROVE FALSE
    BY <1>1, <1>2
  <2> HIDE DEF q, T, K, v0, t0
  <2>1. T * q <= t0 * q
    BY <1>1, <1>2, MulMono
  <2>2. t0 * q < t0 * v0
    BY <1>1, <1>2, Z3
  <2>3. T * q \in Nat /\ t0 * q \in Nat /\ t0 * v0 \in Nat /\ t0 * v0 = v0 * t0
    BY <1>1, <1>2, Z3
  <2> QED BY <1>1, <1>2, <2>1, <2>2, <2>3
<1>5. SellGross(c, t) = c.v_sol - q
  BY DEF SellGross
<1> HIDE DEF q, T, K, v0, t0
<1>6. SellGross(c, t) \in 0..c.real_sol
  BY <1>1, <1>2, <1>3, <1>4, <1>5
<1> DEFINE g == SellGross(c, t)
           a == AfterSell(c, t)
<1>7. /\ a.v_sol = q /\ a.v_tok = T
      /\ a.real_sol = c.real_sol - g /\ a.real_tok = c.real_tok + t
  BY <1>1, <1>2, <1>5 DEF AfterSell, T
<1>8. k(a) = T * q
  BY <1>1, <1>2, <1>7, Z3 DEF k
<1>9. a \in Reserves
  BY <1>1, <1>5, <1>6 DEF AfterSell, Reserves
<1>10. a.v_sol = a.real_sol + v0 /\ a.v_tok = a.real_tok + (s.v_tok0 - s.curve_tokens)
  <2>1. a.v_sol = a.real_sol + v0
    BY <1>1, <1>2, <1>5, <1>7
  <2>2. c.v_tok = c.real_tok + (s.v_tok0 - s.curve_tokens)
    BY DEF Shape
  <2>3. s.v_tok0 \in Int /\ s.curve_tokens \in Int
    BY ShapeNumbers
  <2> QED BY <1>1, <1>7, <2>1, <2>2, <2>3 DEF T
<1>11. k(a) >= K /\ k(a) >= v0 * t0
  <2>1. T * q \in Nat /\ v0 * t0 \in Nat
    BY <1>1, <1>2
  <2> QED BY <1>1, <1>2, <1>8, <2>1
<1>12. s \in Derived /\ s.v_sol0 > 0 /\ s.v_tok0 > s.curve_tokens
  BY DEF Shape
<1> HIDE DEF a, g
<1>13. Shape(a, s)
  BY <1>7, <1>9, <1>10, <1>11, <1>12 DEF Shape, v0, t0
<1> QED BY <1>6, <1>11, <1>13 DEF a, K

\* The fee leaves at most its complement.
LEMMA NetLemma ==
  ASSUME NEW gross \in Nat
  PROVE  Net(gross) \in 0..gross /\ Net(gross) * BPS <= (BPS - FEE_BPS) * gross
<1> DEFINE fee == CeilDiv(gross * FEE_BPS, BPS)
<1>1. BPS \in Nat \ {0} /\ FEE_BPS \in Nat /\ FEE_BPS <= BPS /\ gross * FEE_BPS \in Nat
  BY FeeAssumption
<1>2. gross * FEE_BPS <= BPS * gross
  <2>1. gross * FEE_BPS <= gross * BPS
    BY <1>1, MulMono
  <2> QED BY <1>1, <2>1, Z3
<1>3. fee \in 0..gross /\ BPS * fee >= gross * FEE_BPS
  BY <1>1, <1>2, CeilLemma, CeilLeast
<1>4. Net(gross) = gross - fee
  BY <1>3 DEF Net, fee_up, AtMost
<1> HIDE DEF fee
<1>5. (gross - fee) * BPS = BPS * gross - BPS * fee
      /\ (BPS - FEE_BPS) * gross = BPS * gross - gross * FEE_BPS
  BY <1>1, <1>3, Z3
<1>6. BPS * gross \in Nat /\ BPS * fee \in Nat
  BY <1>1, <1>3
<1> QED BY <1>1, <1>3, <1>4, <1>5, <1>6

\* An accepted buy keeps the shape and takes no more than is left.
LEMMA BuyMath ==
  ASSUME NEW c, NEW s, Shape(c, s), NEW gross \in Nat, Buys(c, gross)
  PROVE  LET b == BuyOf(c, gross) IN
         /\ b.net \in Nat /\ b.tokens_out \in 1..c.real_tok
         /\ k(AfterBuy(c, b)) >= k(c)
         /\ Shape(AfterBuy(c, b), s)
<1> DEFINE b == BuyOf(c, gross)
           K == k(c)
           gap == c.v_tok - c.real_tok
           a == AfterBuy(c, b)
<1>1. /\ K \in Nat /\ gap \in Nat \ {0} /\ c.v_sol \in Nat \ {0} /\ c.v_tok \in Nat \ {0}
      /\ c.real_sol \in Nat /\ c.real_tok \in Nat \ {0}
  BY ShapeNumbers DEF Buys
<1>2. /\ b.net \in Nat /\ b.tokens_out \in 1..c.real_tok
      /\ (c.v_sol + b.net) * (c.v_tok - b.tokens_out) >= K
  <2>1. CASE TakesAll(c, gross)
    <3> DEFINE q == CeilDiv(K, gap)
    <3>1. q \in Nat /\ gap * q >= K
      BY <1>1, CeilLemma
    <3>2. b.net = q - c.v_sol /\ b.tokens_out = c.real_tok
      BY <2>1 DEF BuyOf, CutNet
    <3>3. q >= c.v_sol
      <4> SUFFICES ASSUME q < c.v_sol PROVE FALSE
        BY <1>1, <3>1
      <4> HIDE DEF q, gap, K
      <4>1. gap * q < gap * c.v_sol
        BY <1>1, <3>1, Z3
      <4>2. gap * c.v_sol <= c.v_tok * c.v_sol
        BY <1>1, MulMono DEF gap
      <4>3. K = c.v_tok * c.v_sol
        BY <1>1, Z3 DEF K, k
      <4>4. gap * q \in Nat /\ gap * c.v_sol \in Nat /\ c.v_tok * c.v_sol \in Nat
        BY <1>1, <3>1
      <4> QED BY <3>1, <4>1, <4>2, <4>3, <4>4
    <3> HIDE DEF q, b, K
    <3>4. c.v_sol + b.net = q
      BY <1>1, <3>1, <3>2
    <3>5. (c.v_sol + b.net) * (c.v_tok - b.tokens_out) = gap * q
      BY <1>1, <3>1, <3>2, <3>4, Z3
    <3> QED BY <1>1, <3>1, <3>2, <3>3, <3>5
  <2>2. CASE ~TakesAll(c, gross)
    <3> DEFINE n == Net(gross)
               q == CeilDiv(K, c.v_sol + n)
    <3>1. n \in Nat /\ c.v_sol + n \in Nat \ {0}
      BY <1>1, NetLemma
    <3>2. q \in Nat /\ (c.v_sol + n) * q >= K
      BY <1>1, <3>1, CeilLemma
    <3>3. b.net = n /\ b.tokens_out = c.v_tok - q
      BY <2>2 DEF BuyOf, Uncut
    <3>4. b.tokens_out > 0 /\ b.tokens_out < c.real_tok
      <4>1. ~(c.v_tok - q >= c.real_tok)
        BY <2>2 DEF TakesAll, Uncut
      <4>2. b.tokens_out > 0
        BY DEF Buys
      <4> QED BY <1>1, <3>2, <3>3, <4>1, <4>2
    <3> HIDE DEF q, n, b, K
    <3>5. c.v_tok - b.tokens_out = q
      BY <1>1, <3>2, <3>3
    <3> QED BY <1>1, <3>1, <3>2, <3>3, <3>4, <3>5
  <2> QED BY <2>1, <2>2
<1> HIDE DEF b, gap
<1>3. /\ a.v_sol = c.v_sol + b.net /\ a.v_tok = c.v_tok - b.tokens_out
      /\ a.real_sol = c.real_sol + b.net /\ a.real_tok = c.real_tok - b.tokens_out
  BY DEF AfterBuy
<1>4. a \in Reserves
  <2>1. c.v_tok - b.tokens_out \in Nat
    BY <1>1, <1>2 DEF gap
  <2> QED BY <1>1, <1>2, <2>1 DEF AfterBuy, Reserves
<1>5. k(a) >= K
  BY <1>2, <1>3 DEF k
<1> HIDE DEF a
<1>6. Shape(a, s)
  <2>1. s \in Derived /\ s.v_sol0 > 0 /\ s.v_tok0 > s.curve_tokens /\ c.v_sol = c.real_sol + s.v_sol0
        /\ c.v_tok = c.real_tok + (s.v_tok0 - s.curve_tokens)
        /\ c.real_tok <= s.curve_tokens /\ K >= s.v_sol0 * s.v_tok0
    BY DEF Shape
  <2>2. s.v_sol0 \in Nat /\ s.v_tok0 \in Nat /\ s.curve_tokens \in Nat /\ s.v_sol0 * s.v_tok0 \in Nat
    BY <2>1 DEF Derived
  <2>3. a.v_sol = a.real_sol + s.v_sol0 /\ a.v_tok = a.real_tok + (s.v_tok0 - s.curve_tokens)
        /\ a.real_tok <= s.curve_tokens
    BY <1>1, <1>2, <1>3, <2>1, <2>2
  <2>4. k(a) \in Nat
    BY <1>4 DEF k, Reserves
  <2>5. k(a) >= s.v_sol0 * s.v_tok0
    <3> HIDE DEF K
    <3> QED BY <1>1, <1>5, <2>1, <2>2, <2>4
  <2> QED BY <1>4, <2>1, <2>3, <2>5 DEF Shape
<1> QED BY <1>2, <1>5, <1>6 DEF a, b, K

\* An offer that would take all there is is accepted: the cut never costs more than the
\* offer.
LEMMA LastBuyMath ==
  ASSUME NEW c, NEW s, Shape(c, s), c.real_tok > 0, NEW gross \in Nat \ {0}, TakesAll(c, gross)
  PROVE  Buys(c, gross)
<1> DEFINE K == k(c)
           gap == c.v_tok - c.real_tok
           n == Net(gross)
           u == CeilDiv(K, c.v_sol + n)
           q == CeilDiv(K, gap)
           b == BuyOf(c, gross)
<1>1. /\ K \in Nat /\ gap \in Nat \ {0} /\ c.v_sol \in Nat \ {0} /\ c.v_tok \in Nat \ {0}
      /\ c.real_tok \in Nat \ {0}
  BY ShapeNumbers
<1>2. n \in Nat /\ n * BPS <= (BPS - FEE_BPS) * gross
  BY NetLemma
<1>3. c.v_sol + n \in Nat \ {0}
  BY <1>1, <1>2
<1>4. u \in Nat /\ (c.v_sol + n) * u >= K
  BY <1>1, <1>3, CeilLemma
<1>5. u <= gap
  <2>1. c.v_tok - u >= c.real_tok
    BY DEF TakesAll, Uncut
  <2> HIDE DEF u
  <2> QED BY <1>1, <1>4, <2>1
<1>6. q <= c.v_sol + n
  <2> HIDE DEF u, K, gap
  <2>1. (c.v_sol + n) * u <= (c.v_sol + n) * gap
    BY <1>1, <1>3, <1>4, <1>5, MulMono
  <2>2. (c.v_sol + n) * u \in Nat /\ (c.v_sol + n) * gap \in Nat
        /\ (c.v_sol + n) * gap = gap * (c.v_sol + n)
    BY <1>1, <1>3, <1>4, Z3
  <2>3. K <= gap * (c.v_sol + n)
    BY <1>1, <1>4, <2>1, <2>2
  <2> QED BY <1>1, <1>3, <2>3, CeilLeast
<1>7. q \in Nat /\ gap * q >= K
  BY <1>1, CeilLemma
<1>8. q - c.v_sol \in Nat
  <2> SUFFICES ASSUME q < c.v_sol PROVE FALSE
    BY <1>1, <1>7
  <2> HIDE DEF q, gap, K
  <2>1. gap * q < gap * c.v_sol
    BY <1>1, <1>7, Z3
  <2>2. gap * c.v_sol <= c.v_tok * c.v_sol
    BY <1>1, MulMono DEF gap
  <2>3. K = c.v_tok * c.v_sol
    BY <1>1, Z3 DEF K, k
  <2>4. gap * q \in Nat /\ gap * c.v_sol \in Nat /\ c.v_tok * c.v_sol \in Nat
    BY <1>1, <1>7
  <2> QED BY <1>7, <2>1, <2>2, <2>3, <2>4
<1>9. CutNet(c) = q - c.v_sol /\ CutNet(c) <= n
  <2>1. CutNet(c) = q - c.v_sol
    BY DEF CutNet
  <2> HIDE DEF q, n
  <2> QED BY <1>1, <1>2, <1>6, <1>7, <2>1
<1>10. CutGross(CutNet(c)) <= gross
  <2> HIDE DEF q, n
  <2>1. CutNet(c) \in Nat /\ BPS \in Nat /\ BPS - FEE_BPS \in Nat \ {0}
    BY <1>8, <1>9, FeeAssumption
  <2>2. CutNet(c) * BPS <= n * BPS /\ CutNet(c) * BPS \in Nat /\ n * BPS \in Nat
        /\ (BPS - FEE_BPS) * gross \in Nat
    BY <1>2, <1>9, <2>1, MulMono
  <2>3. CutNet(c) * BPS <= (BPS - FEE_BPS) * gross
    BY <1>2, <2>2
  <2> QED BY <2>1, <2>2, <2>3, CeilLeast DEF CutGross
<1>11. n > 0
  <2> SUFFICES ASSUME n = 0 PROVE FALSE
    BY <1>2
  <2>1. u >= c.v_tok
    <3> SUFFICES ASSUME u < c.v_tok PROVE FALSE
      BY <1>1, <1>4
    <3> HIDE DEF u
    <3>1. c.v_sol + n = c.v_sol
      BY <1>1
    <3>2. c.v_sol * u < c.v_sol * c.v_tok
      BY <1>1, <1>4, Z3
    <3>3. c.v_sol * u \in Nat /\ c.v_sol * c.v_tok \in Nat
      BY <1>1, <1>4
    <3> QED BY <1>4, <3>1, <3>2, <3>3 DEF k
  <2> HIDE DEF u
  <2> QED BY <1>1, <1>4, <1>5, <2>1 DEF gap
<1>12. b.tokens_out = c.real_tok /\ b.gross = CutGross(CutNet(c))
  BY DEF BuyOf
<1>13. c.v_tok # c.real_tok
  BY <1>1
<1> QED BY <1>1, <1>10, <1>11, <1>12, <1>13 DEF Buys

-----------------------------------------------------------------------------
(* The invariant.                                                          *)

Covered ==
  Open =>
    /\ Shape(curve, start)
    /\ sol_vault >= curve.real_sol + start.paid
    /\ vault >= curve.real_tok + start.lp_tokens
    /\ status = "Trading" => curve.real_tok > 0
    /\ status = "SoldOut" => curve.real_tok = 0

CurveInv == TypeOK /\ Covered /\ PoolGotTheRaise

LEMMA CurveInit == Init => CurveInv
<1> SUFFICES ASSUME Init PROVE CurveInv
  OBVIOUS
<1>1. TypeOK
  <2>1. Supply \in Nat /\ MaxTime \in Nat /\ MaxGifts \in Nat
    BY BoundsAssumption
  <2>2. start \in Derived /\ curve \in Reserves
    BY DEF Init, Derived, Reserves, Zero
  <2>3. migrator \in [tok : Nat, wsol : Nat] /\ pool \in [tok : Nat, sol : Nat]
    BY DEF Init
  <2>4. /\ status \in Statuses /\ sold_out_at \in Nat /\ sol_vault \in Nat /\ vault \in Nat
        /\ held \in Nat /\ pool_taken \in BOOLEAN /\ rent \in Rents
    BY <2>1 DEF Init, Statuses
  <2>5. pool_fees \in 0..1 /\ now \in 0..MaxTime /\ gifts \in 0..MaxGifts
    BY <2>1 DEF Init
  <2> QED BY <2>2, <2>3, <2>4, <2>5 DEF TypeOK
<1> QED BY <1>1 DEF Init, CurveInv, Covered, Open, PoolGotTheRaise

\* What derive returns has the shape.
LEMMA CreateMath ==
  ASSUME NEW total \in Nat \ {0}, NEW s \in Nat \ {0}, derivable(s, derive(total, s)),
         NEW paid \in Nat
  PROVE  LET d == derive(total, s)
             c == [v_sol |-> d.v_sol0, v_tok |-> d.v_tok0, real_sol |-> 0, real_tok |-> d.curve_tokens]
             r == [v_sol0 |-> d.v_sol0, v_tok0 |-> d.v_tok0, curve_tokens |-> d.curve_tokens,
                   lp_tokens |-> d.lp_tokens, paid |-> paid]
         IN  Shape(c, r) /\ c.real_tok > 0 /\ total = d.curve_tokens + d.lp_tokens
<1> DEFINE v0 == (s * V_SOL_NUM) \div V_SOL_DEN
           lp == (total * v0) \div (2 * v0 + s)
           n == total - lp
           t0 == CeilDiv((v0 + s) * n, s)
<1>1. v0 \in Nat
  <2>1. s * V_SOL_NUM \in Nat /\ V_SOL_DEN \in Nat \ {0}
    BY ShapeAssumption
  <2> QED BY <2>1, FloorLemma
<1>2. lp \in Nat
  <2> HIDE DEF v0
  <2>1. total * v0 \in Nat /\ 2 * v0 + s \in Nat \ {0}
    BY <1>1
  <2> QED BY <2>1, FloorLemma
<1> HIDE DEF v0, lp
<1> DEFINE d == derive(total, s)
<1>3. d = [v_sol0 |-> v0, v_tok0 |-> t0, curve_tokens |-> n, lp_tokens |-> lp]
  BY DEF derive, v0, lp
<1>4. v0 > 0 /\ n > 0 /\ t0 > n
  BY <1>3 DEF derivable
<1>5. t0 \in Nat
  <2>1. n \in Nat
    BY <1>2, <1>4
  <2> HIDE DEF n
  <2>2. (v0 + s) * n \in Nat
    BY <1>1, <2>1
  <2> QED BY <2>2, CeilLemma
<1> DEFINE c == [v_sol |-> v0, v_tok |-> t0, real_sol |-> 0, real_tok |-> n]
           r == [v_sol0 |-> v0, v_tok0 |-> t0, curve_tokens |-> n, lp_tokens |-> lp, paid |-> paid]
<1>6. n \in Nat /\ total = n + lp
  BY <1>2, <1>4
<1> HIDE DEF n, t0
<1>7. c \in Reserves /\ r \in Derived
  BY <1>1, <1>2, <1>5, <1>6 DEF Reserves, Derived
<1>8. k(c) = v0 * t0 /\ v0 * t0 \in Nat
  BY <1>1, <1>5 DEF k
<1>9. Shape(c, r)
  BY <1>1, <1>4, <1>5, <1>6, <1>7, <1>8 DEF Shape
<1> QED BY <1>3, <1>4, <1>6, <1>9

LEMMA CreateLemma ==
  ASSUME CurveInv, NEW total \in 0..Supply, NEW target \in 0..MaxTarget, create_curve(total, target)
  PROVE  CurveInv' /\ status = "none"
<1> DEFINE d == derive(total, target)
           c == [v_sol |-> d.v_sol0, v_tok |-> d.v_tok0, real_sol |-> 0, real_tok |-> d.curve_tokens]
           r == [v_sol0 |-> d.v_sol0, v_tok0 |-> d.v_tok0, curve_tokens |-> d.curve_tokens,
                 lp_tokens |-> d.lp_tokens, paid |-> rent]
<1>1. /\ status = "none" /\ status' = "Trading" /\ start' = r /\ curve' = c
      /\ sol_vault' = sol_vault + rent /\ vault' = vault + total /\ held' = held - total
      /\ total <= held /\ UNCHANGED <<sold_out_at, Around>>
  BY DEF create_curve
<1>2. /\ total \in Nat \ {0} /\ target \in Nat \ {0} /\ derivable(target, d) /\ rent \in Nat
      /\ held \in Nat /\ vault \in Nat /\ sol_vault \in Nat
  BY BoundsAssumption DEF create_curve, CurveInv, TypeOK
<1> HIDE DEF c, r, d
<1>3. Shape(c, r) /\ c.real_tok > 0 /\ total = d.curve_tokens + d.lp_tokens
  BY <1>2, CreateMath DEF c, r, d
<1>4. c \in Reserves /\ r \in Derived
  BY <1>3 DEF Shape
<1>5. r.paid = rent /\ r.lp_tokens = d.lp_tokens /\ c.real_tok = d.curve_tokens /\ c.real_sol = 0
  BY DEF r, c
<1>6. sol_vault' \in Nat /\ vault' \in Nat /\ held' \in Nat
  BY <1>1, <1>2
<1>7. TypeOK'
  BY <1>1, <1>4, <1>6 DEF CurveInv, TypeOK, Around, Statuses
<1>8. sol_vault' >= c.real_sol + r.paid /\ vault' >= c.real_tok + r.lp_tokens
  BY <1>1, <1>2, <1>3, <1>5
<1>9. Covered' /\ PoolGotTheRaise'
  BY <1>1, <1>3, <1>8 DEF Covered, PoolGotTheRaise, Open
<1> QED BY <1>1, <1>7, <1>9 DEF CurveInv

LEMMA BuyLemma ==
  ASSUME CurveInv, NEW gross \in 0..MaxOffer, buy(gross)
  PROVE  CurveInv' /\ k(curve') >= k(curve)
<1> DEFINE b == BuyOf(curve, gross)
           a == AfterBuy(curve, b)
<1>1. /\ status = "Trading" /\ Buys(curve, gross) /\ curve' = a /\ start' = start
      /\ sol_vault' = sol_vault + b.net /\ vault' = vault - b.tokens_out
      /\ held' = held + b.tokens_out /\ b.tokens_out <= vault /\ UNCHANGED Around
      /\ IF a.real_tok = 0 THEN status' = "SoldOut" /\ sold_out_at' = now
                           ELSE UNCHANGED <<status, sold_out_at>>
  BY DEF buy, MayBuy
<1>2. /\ TypeOK /\ Shape(curve, start) /\ gross \in Nat
      /\ sol_vault >= curve.real_sol + start.paid /\ vault >= curve.real_tok + start.lp_tokens
  BY <1>1, BoundsAssumption DEF CurveInv, Covered, Open
<1>3. /\ b.net \in Nat /\ b.tokens_out \in 1..curve.real_tok
      /\ k(a) >= k(curve) /\ Shape(a, start)
  BY <1>1, <1>2, BuyMath
<1>4. a.real_sol = curve.real_sol + b.net /\ a.real_tok = curve.real_tok - b.tokens_out
  BY DEF AfterBuy
<1> HIDE DEF a, b
<1>5. /\ curve.real_sol \in Nat /\ curve.real_tok \in Nat /\ start.paid \in Nat
      /\ start.lp_tokens \in Nat /\ sol_vault \in Nat /\ vault \in Nat /\ held \in Nat /\ now \in Nat
      /\ a \in Reserves
  BY <1>2, <1>3, BoundsAssumption DEF TypeOK, Reserves, Derived, Shape
<1>6. sol_vault' \in Nat /\ vault' \in Nat /\ held' \in Nat
  BY <1>1, <1>3, <1>5
<1>7. sol_vault' >= a.real_sol + start.paid /\ vault' >= a.real_tok + start.lp_tokens
  BY <1>1, <1>2, <1>3, <1>4, <1>5
<1>8. a.real_tok \in Nat
  BY <1>5 DEF Reserves
<1>9. TypeOK'
  BY <1>1, <1>2, <1>5, <1>6 DEF TypeOK, Around, Statuses
<1>10. Covered' /\ PoolGotTheRaise'
  BY <1>1, <1>3, <1>7, <1>8 DEF Covered, Open, PoolGotTheRaise
<1> QED BY <1>1, <1>3, <1>9, <1>10 DEF CurveInv

LEMMA SellLemma ==
  ASSUME CurveInv, NEW t \in 0..Supply, sell(t)
  PROVE  CurveInv' /\ k(curve') >= k(curve)
<1> DEFINE g == SellGross(curve, t)
           a == AfterSell(curve, t)
<1>1. /\ Selling /\ t > 0 /\ t <= held /\ curve.real_tok + t <= start.curve_tokens
      /\ g <= sol_vault /\ curve' = a /\ sol_vault' = sol_vault - g
      /\ vault' = vault + t /\ held' = held - t
      /\ UNCHANGED <<start, status, sold_out_at, Around>>
  BY DEF sell, MaySell
<1>2. /\ TypeOK /\ Shape(curve, start) /\ t \in Nat \ {0}
      /\ sol_vault >= curve.real_sol + start.paid /\ vault >= curve.real_tok + start.lp_tokens
  BY <1>1, BoundsAssumption DEF CurveInv, Covered, Open, Selling
<1>3. g \in 0..curve.real_sol /\ k(a) >= k(curve) /\ Shape(a, start)
  BY <1>1, <1>2, SellMath
<1>4. a.real_sol = curve.real_sol - g /\ a.real_tok = curve.real_tok + t
  BY DEF AfterSell
<1> HIDE DEF a, g
<1>5. /\ curve.real_sol \in Nat /\ curve.real_tok \in Nat /\ start.paid \in Nat
      /\ start.lp_tokens \in Nat /\ sol_vault \in Nat /\ vault \in Nat /\ held \in Nat
      /\ a \in Reserves
  BY <1>2, <1>3 DEF TypeOK, Reserves, Derived, Shape
<1>6. sol_vault' \in Nat /\ vault' \in Nat /\ held' \in Nat
  BY <1>1, <1>2, <1>3, <1>5
<1>7. sol_vault' >= a.real_sol + start.paid /\ vault' >= a.real_tok + start.lp_tokens
      /\ a.real_tok > 0
  BY <1>1, <1>2, <1>3, <1>4, <1>5
<1>8. TypeOK'
  BY <1>1, <1>2, <1>5, <1>6 DEF TypeOK, Around
<1>9. Covered' /\ PoolGotTheRaise'
  BY <1>1, <1>3, <1>7 DEF Covered, Open, Selling, PoolGotTheRaise
<1> QED BY <1>1, <1>3, <1>8, <1>9 DEF CurveInv

\* What a sliver of `left` out of `reserved` leaves.
LEMMA SliverLemma ==
  ASSUME NEW reserved \in Nat, NEW taken \in 0..reserved,
         migration_consumed_enough(reserved, reserved - taken)
  PROVE  taken * BPS >= reserved * (BPS - MIGRATION_DUST_BPS)
<1>1. BPS \in Nat /\ MIGRATION_DUST_BPS \in Nat /\ taken \in Nat
  BY FeeAssumption
<1>2. (reserved - taken) * BPS <= reserved * MIGRATION_DUST_BPS
  BY DEF migration_consumed_enough
<1>3. (reserved - taken) * BPS = reserved * BPS - taken * BPS
      /\ reserved * (BPS - MIGRATION_DUST_BPS) = reserved * BPS - reserved * MIGRATION_DUST_BPS
  BY <1>1, Z3
<1>4. reserved * BPS \in Nat /\ taken * BPS \in Nat /\ reserved * MIGRATION_DUST_BPS \in Nat
  BY <1>1
<1> QED BY <1>2, <1>3, <1>4

LEMMA MigrateLemma ==
  ASSUME CurveInv, NEW tok \in 0..start.lp_tokens, NEW sol \in 0..curve.real_sol, migrate(tok, sol)
  PROVE  CurveInv' /\ k(curve') = k(curve)
<1>1. /\ status = "SoldOut" /\ status' = "Migrated" /\ curve' = [curve EXCEPT !.real_sol = 0]
      /\ sol_vault' = sol_vault - curve.real_sol /\ vault' = vault - start.lp_tokens
      /\ curve.real_sol <= sol_vault /\ start.lp_tokens <= vault
      /\ migrator' = [tok |-> migrator.tok + start.lp_tokens - tok,
                      wsol |-> migrator.wsol + curve.real_sol - sol]
      /\ pool' = [tok |-> tok, sol |-> sol] /\ pool_taken' = TRUE
      /\ UNCHANGED <<start, sold_out_at, held, pool_fees, rent, now, gifts>>
      /\ migration_consumed_enough(start.lp_tokens, start.lp_tokens - tok)
      /\ migration_consumed_enough(curve.real_sol, curve.real_sol - sol)
  BY DEF migrate, MayMigrate
<1>2. TypeOK /\ Shape(curve, start)
  BY <1>1 DEF CurveInv, Covered, Open
<1>3. /\ curve \in Reserves /\ curve.real_sol \in Nat /\ start.lp_tokens \in Nat
      /\ sol_vault \in Nat /\ vault \in Nat /\ migrator.tok \in Nat /\ migrator.wsol \in Nat
      /\ curve.v_sol \in Nat /\ start.v_sol0 \in Nat /\ curve.v_sol = curve.real_sol + start.v_sol0
  BY <1>2 DEF TypeOK, Reserves, Derived, Shape
<1>4. curve' \in Reserves /\ curve'.v_sol = curve.v_sol /\ curve'.v_tok = curve.v_tok
  BY <1>1, <1>3 DEF Reserves
<1>5. /\ sol_vault' \in Nat /\ vault' \in Nat /\ tok \in Nat /\ sol \in Nat
      /\ migrator.tok + start.lp_tokens - tok \in Nat
      /\ migrator.wsol + curve.real_sol - sol \in Nat
  BY <1>1, <1>3
<1>6. migrator' \in [tok : Nat, wsol : Nat] /\ pool' \in [tok : Nat, sol : Nat]
  BY <1>1, <1>5
<1>7. TypeOK'
  BY <1>1, <1>2, <1>4, <1>5, <1>6 DEF TypeOK, Statuses
<1>8. tok * BPS >= start.lp_tokens * (BPS - MIGRATION_DUST_BPS)
      /\ sol * BPS >= curve.real_sol * (BPS - MIGRATION_DUST_BPS)
  BY <1>1, <1>3, SliverLemma
<1>9. curve'.v_sol - start'.v_sol0 = curve.real_sol
  BY <1>1, <1>3, <1>4
<1>10. PoolGotTheRaise'
  BY <1>1, <1>8, <1>9 DEF PoolGotTheRaise
<1>11. Covered'
  BY <1>1 DEF Covered, Open
<1> QED BY <1>4, <1>7, <1>10, <1>11 DEF CurveInv, k

LEMMA RestLemma ==
  ASSUME CurveInv,
         \/ abort_migration \/ claim_pool_fees \/ OpenPool \/ PoolEarns \/ Gift
         \/ (\E r \in Rents : SetRent(r)) \/ Tick \/ UNCHANGED vars
  PROVE  CurveInv' /\ curve' = curve
<1>1. UNCHANGED <<curve, start, sold_out_at, pool>> /\ TypeOK
  BY DEF abort_migration, claim_pool_fees, OpenPool, PoolEarns, Gift, SetRent, Tick, vars, Trade,
         Around, CurveInv
<1>2. status' = status \/ (status = "SoldOut" /\ status' = "Aborted")
  BY DEF abort_migration, MayAbort, claim_pool_fees, OpenPool, PoolEarns, Gift, SetRent, Tick, vars, Trade
<1>3. CASE Gift
  <2>1. /\ sol_vault' \in Nat /\ sol_vault' >= sol_vault /\ vault' \in Nat /\ vault' >= vault
        /\ held' \in Nat /\ migrator' \in [tok : Nat, wsol : Nat] /\ gifts' \in 0..MaxGifts
    BY <1>1, <1>3, BoundsAssumption DEF Gift, TypeOK
  <2>2. UNCHANGED <<start, status, curve, sold_out_at, pool, pool_taken, pool_fees, rent, now>>
    BY <1>3 DEF Gift
  <2>3. TypeOK'
    BY <1>1, <2>1, <2>2 DEF TypeOK
  <2>4. /\ curve.real_sol \in Nat /\ start.paid \in Nat /\ curve.real_tok \in Nat
        /\ start.lp_tokens \in Nat /\ sol_vault \in Nat /\ vault \in Nat
    BY <1>1 DEF TypeOK, Reserves, Derived
  <2>5. Covered' /\ PoolGotTheRaise'
    BY <2>1, <2>2, <2>4 DEF CurveInv, Covered, PoolGotTheRaise, Open
  <2> QED BY <2>2, <2>3, <2>5 DEF CurveInv
<1>4. CASE ~Gift
  <2>1. UNCHANGED <<sol_vault, vault, held, migrator, gifts>>
    BY <1>4 DEF abort_migration, claim_pool_fees, OpenPool, PoolEarns, SetRent, Tick, vars, Trade, Around
  <2>2. pool_taken' \in BOOLEAN /\ pool_fees' \in 0..1 /\ rent' \in Rents /\ now' \in 0..MaxTime
    <3>1. CASE Tick
      <4>1. MaxTime \in Nat /\ now \in 0..MaxTime
        BY <1>1, BoundsAssumption DEF TypeOK
      <4> QED BY <1>1, <3>1, <4>1 DEF Tick, TypeOK
    <3>2. CASE OpenPool \/ PoolEarns \/ claim_pool_fees
      <4>1. UNCHANGED <<rent, now>> /\ (pool_taken' = pool_taken \/ pool_taken' = TRUE)
            /\ (pool_fees' = pool_fees \/ pool_fees' = 0 \/ pool_fees' = 1)
        BY <3>2 DEF OpenPool, PoolEarns, claim_pool_fees
      <4>2. pool_taken \in BOOLEAN /\ pool_fees \in 0..1 /\ rent \in Rents /\ now \in 0..MaxTime
        BY <1>1 DEF TypeOK
      <4>3. pool_taken' \in BOOLEAN
        BY <4>1, <4>2, Zenon
      <4>4. pool_fees' \in 0..1
        <5>1. 0 \in 0..1 /\ 1 \in 0..1
          OBVIOUS
        <5> QED BY <4>1, <4>2, <5>1, Zenon
      <4> QED BY <4>1, <4>2, <4>3, <4>4
    <3>3. CASE abort_migration \/ (\E r \in Rents : SetRent(r)) \/ UNCHANGED vars
      <4>1. UNCHANGED <<pool_taken, pool_fees, now>> /\ rent' \in Rents
        BY <1>1, <3>3 DEF abort_migration, SetRent, vars, Trade, Around, TypeOK
      <4> QED BY <1>1, <4>1 DEF TypeOK
    <3> QED BY <1>4, <3>1, <3>2, <3>3
  <2>3. TypeOK'
    BY <1>1, <1>2, <2>1, <2>2 DEF TypeOK, Statuses
  <2>4. Covered' /\ PoolGotTheRaise'
    BY <1>1, <1>2, <2>1 DEF CurveInv, Covered, PoolGotTheRaise, Open
  <2> QED BY <1>1, <2>3, <2>4 DEF CurveInv
<1> QED BY <1>3, <1>4

LEMMA CurveNext == CurveInv /\ [Next]_vars => CurveInv'
BY CreateLemma, BuyLemma, SellLemma, MigrateLemma, RestLemma DEF Next

LEMMA CurveInvAlways == Spec => []CurveInv
<1> QED BY CurveInit, CurveNext, PTL DEF Spec

-----------------------------------------------------------------------------
(* Whoever holds tokens can go on.                                         *)

\* An instruction that moves `d` lamports out of the vault and out of what the curve owes
\* leaves the vault its rent, however much of it there was.
LEMMA StaysSolvent ==
  ASSUME CurveInv, Open, NEW d \in Int, d <= curve.real_sol
  PROVE  require_solvent(sol_vault - d, curve.real_sol - d, vault_surplus)
<1>1. /\ rent \in Nat /\ sol_vault \in Nat /\ curve.real_sol \in Nat /\ start.paid \in Nat
      /\ sol_vault >= curve.real_sol + start.paid
  BY BoundsAssumption DEF CurveInv, TypeOK, Covered, Reserves, Derived
<1>2. vault_surplus = sol_vault - curve.real_sol
  BY <1>1 DEF vault_surplus, SatSub
<1> QED BY <1>1, <1>2 DEF require_solvent, vault_rent_floor, AtMost

LEMMA BuyIsOpen ==
  ASSUME CurveInv, status = "Trading", NEW gross \in 1..MaxOffer, TakesAll(curve, gross)
  PROVE  MayBuy(gross)
<1> DEFINE b == BuyOf(curve, gross)
<1>1. /\ Shape(curve, start) /\ curve.real_tok > 0 /\ vault >= curve.real_tok + start.lp_tokens
      /\ Open
  BY DEF CurveInv, Covered, Open
<1>2. gross \in Nat \ {0} /\ gross \in Nat
  BY BoundsAssumption
<1>3. Buys(curve, gross)
  BY <1>1, <1>2, LastBuyMath
<1>4. b.net \in Nat /\ b.tokens_out \in 1..curve.real_tok
  BY <1>1, <1>2, <1>3, BuyMath
<1>5. AfterBuy(curve, b).real_sol = curve.real_sol + b.net
  BY DEF AfterBuy
<1> HIDE DEF b
<1>6. /\ curve.real_sol \in Nat /\ curve.real_tok \in Nat /\ start.lp_tokens \in Nat
      /\ vault \in Nat /\ sol_vault \in Nat
  BY <1>1 DEF CurveInv, TypeOK, Reserves, Derived
<1>7. require_solvent(sol_vault + b.net, AfterBuy(curve, b).real_sol, vault_surplus)
  <2> DEFINE d == 0 - b.net
  <2>1. d \in Int /\ d <= curve.real_sol
    BY <1>4, <1>6
  <2>2. sol_vault - d = sol_vault + b.net /\ curve.real_sol - d = curve.real_sol + b.net
    BY <1>4, <1>6
  <2> HIDE DEF d
  <2> QED BY <1>1, <1>5, <2>1, <2>2, StaysSolvent
<1>8. b.tokens_out <= vault
  BY <1>1, <1>4, <1>6
<1> QED BY <1>3, <1>7, <1>8 DEF MayBuy, b

LEMMA SellIsOpen ==
  ASSUME CurveInv, Selling, NEW t \in 1..AtMost(held, start.curve_tokens - curve.real_tok),
         ~Dust(SellGross(curve, t))
  PROVE  MaySell(t)
<1> DEFINE g == SellGross(curve, t)
<1>1. Shape(curve, start) /\ Open /\ sol_vault >= curve.real_sol + start.paid
  BY DEF CurveInv, Covered, Open, Selling
<1>2. /\ start.curve_tokens \in Nat /\ curve.real_tok \in Nat /\ curve.real_sol \in Nat
      /\ start.paid \in Nat /\ held \in Nat /\ sol_vault \in Nat
  BY <1>1, ShapeNumbers DEF CurveInv, TypeOK, Derived
<1>3. t \in Nat \ {0} /\ t <= held /\ curve.real_tok + t <= start.curve_tokens
  BY <1>2 DEF AtMost
<1>4. g \in 0..curve.real_sol
  BY <1>1, <1>3, SellMath
<1> HIDE DEF g
<1>5. g >= 0 /\ g <= curve.real_sol /\ g <= sol_vault /\ g \in Int
  BY <1>1, <1>2, <1>4
<1>6. require_solvent(sol_vault - g, curve.real_sol - g, vault_surplus)
  BY <1>1, <1>5, StaysSolvent
<1> QED BY <1>3, <1>5, <1>6 DEF MaySell, g

LEMMA MigrateIsOpen ==
  ASSUME CurveInv, status = "SoldOut", ~pool_taken
  PROVE  MayMigrate(start.lp_tokens, curve.real_sol)
<1>1. /\ Open /\ curve.real_tok = 0 /\ sol_vault >= curve.real_sol + start.paid
      /\ vault >= curve.real_tok + start.lp_tokens
  BY DEF CurveInv, Covered, Open
<1>2. /\ start.paid \in Nat /\ start.lp_tokens \in Nat /\ curve.real_sol \in Nat
      /\ sol_vault \in Nat /\ vault \in Nat /\ curve.real_tok \in Nat
  BY DEF CurveInv, TypeOK, Reserves, Derived
<1>3. curve.real_sol <= sol_vault /\ start.lp_tokens <= vault
  BY <1>1, <1>2
<1>4. require_solvent(sol_vault - curve.real_sol, 0, vault_surplus)
  <2>1. curve.real_sol \in Int /\ curve.real_sol <= curve.real_sol /\ curve.real_sol - curve.real_sol = 0
    BY <1>2
  <2> QED BY <1>1, <2>1, StaysSolvent
<1>5. ASSUME NEW n \in Nat PROVE migration_consumed_enough(n, n - n)
  <2>1. BPS \in Nat /\ MIGRATION_DUST_BPS \in Nat
    BY FeeAssumption
  <2>2. n * MIGRATION_DUST_BPS \in Nat /\ (n - n) * BPS = 0
    BY <2>1
  <2> QED BY <2>2 DEF migration_consumed_enough
<1> QED BY <1>1, <1>2, <1>3, <1>4, <1>5 DEF MayMigrate

-----------------------------------------------------------------------------
(* Theorems.                                                               *)

\* Every variable of the curve keeps its type.
THEOREM CurveTypeCorrect == Spec => []TypeOK
<1>1. CurveInv => TypeOK
  BY DEF CurveInv
<1> QED BY <1>1, CurveInvAlways, PTL

\* The vaults hold what the curve owes until the raise has moved.
THEOREM BackedAlways == Spec => []Backed
<1>1. CurveInv => Backed
  BY DEF CurveInv, Covered, Shape, Backed
<1> QED BY <1>1, CurveInvAlways, PTL

\* No sale of what the curve sold is priced above what the curve owes.
THEOREM NeverShortAlways == Spec => []NeverShort
<1>1. ASSUME CurveInv, Open, NEW t \in 1..(start.curve_tokens - curve.real_tok)
      PROVE  SellGross(curve, t) \in 0..curve.real_sol
  <2>1. Shape(curve, start)
    BY <1>1 DEF CurveInv, Covered
  <2>2. start.curve_tokens \in Nat /\ curve.real_tok \in Nat
    BY <2>1, ShapeNumbers
  <2>3. t \in Nat \ {0} /\ curve.real_tok + t <= start.curve_tokens
    BY <2>2
  <2> QED BY <2>1, <2>3, SellMath
<1>2. CurveInv => NeverShort
  BY <1>1 DEF NeverShort
<1> QED BY <1>2, CurveInvAlways, PTL

\* A buy that would take all there is is never refused.
THEOREM LastBuyAcceptedAlways == Spec => []LastBuyAccepted
<1>1. CurveInv => LastBuyAccepted
  BY BuyIsOpen DEF LastBuyAccepted
<1> QED BY <1>1, CurveInvAlways, PTL

\* No step lowers the product.
THEOREM ProductKeptAlways == Spec => ProductKept
<1>1. ASSUME CurveInv, [Next]_vars, status # "none"
      PROVE  k(curve') >= k(curve)
  <2>1. k(curve) \in Nat
    BY <1>1 DEF CurveInv, TypeOK, Reserves, k
  <2>2. CASE curve' = curve
    BY <2>1, <2>2
  <2>3. CASE \E tok \in 0..start.lp_tokens, sol \in 0..curve.real_sol : migrate(tok, sol)
    BY <1>1, <2>1, <2>3, MigrateLemma
  <2> QED BY <1>1, <2>2, <2>3, CreateLemma, BuyLemma, SellLemma, RestLemma DEF Next
<1>2. CurveInv /\ [Next]_vars => [status # "none" => k(curve') >= k(curve)]_vars
  BY <1>1
<1> QED BY <1>2, CurveInvAlways, PTL DEF Spec, ProductKept

\* What migrated is in the pool, but for a sliver.
THEOREM PoolGotTheRaiseAlways == Spec => []PoolGotTheRaise
<1>1. CurveInv => PoolGotTheRaise
  BY DEF CurveInv
<1> QED BY <1>1, CurveInvAlways, PTL

\* What the curve sold is bought back but for dust, and a sold-out curve may be unwound when
\* its pool's address is taken, and migrated with all it holds when it is not.
THEOREM WayOutAlways == Spec => []WayOut
<1>1. CurveInv => CanSell
  BY SellIsOpen DEF CanSell
<1>2. CurveInv => NoDeadEnd
  <2> SUFFICES ASSUME CurveInv, status = "SoldOut", ~pool_taken
               PROVE  \E tok \in 0..start.lp_tokens, sol \in 0..curve.real_sol : MayMigrate(tok, sol)
    BY DEF NoDeadEnd, MayAbort
  <2>1. start.lp_tokens \in 0..start.lp_tokens /\ curve.real_sol \in 0..curve.real_sol
    BY DEF CurveInv, TypeOK, Reserves, Derived
  <2> QED BY <2>1, MigrateIsOpen
<1> QED BY <1>1, <1>2, CurveInvAlways, PTL DEF WayOut
=============================================================================
