------------------------- MODULE ProgramMathProofs -------------------------
(***************************************************************************)
(* What the rounding divisions of the programs promise, and what the sums  *)
(* over their accounts do when an account changes.                         *)
(***************************************************************************)
EXTENDS ProgramMath, Integers, FiniteSetsExt, FiniteSetTheorems, WellFoundedInduction, TLAPS

LEMMA FloorLemma ==
  ASSUME NEW a \in Nat, NEW b \in Nat \ {0}
  PROVE  /\ a \div b \in Nat
         /\ b * (a \div b) <= a
         /\ a < b * (a \div b) + b
<1> DEFINE q == a \div b
           m == a % b
<1>1. q \in Int /\ m \in 0..(b - 1) /\ a = b * q + m
  BY Z3
<1>2. b * q \in Int
  BY <1>1
<1>3. b * q <= a /\ a < b * q + b
  BY <1>1, <1>2
<1>4. q >= 0
  BY Z3
<1> QED BY <1>1, <1>3, <1>4

\* A factor that is not zero may be dropped from both sides.
LEMMA CancelFactor ==
  ASSUME NEW a \in Int, NEW c \in Int, NEW b \in Nat \ {0}, b * a < b * c
  PROVE  a < c
BY Z3

LEMMA MulMono ==
  ASSUME NEW a \in Int, NEW c \in Int, NEW b \in Nat, a <= c
  PROVE  b * a <= b * c /\ a * b <= c * b
BY Z3

LEMMA CeilLemma ==
  ASSUME NEW a \in Nat, NEW b \in Nat \ {0}
  PROVE  /\ CeilDiv(a, b) \in Nat
         /\ b * CeilDiv(a, b) >= a
         /\ b * CeilDiv(a, b) < a + b
<1> DEFINE q == (a + b - 1) \div b
<1>1. a + b - 1 \in Nat
  OBVIOUS
<1>2. q \in Nat /\ b * q <= a + b - 1 /\ a + b - 1 < b * q + b
  BY <1>1, FloorLemma
<1>3. b * q \in Nat
  BY <1>2
<1>4. CeilDiv(a, b) = q
  BY DEF CeilDiv
<1> HIDE DEF q
<1>5. b * q >= a /\ b * q < a + b
  BY <1>2, <1>3
<1> QED BY <1>2, <1>4, <1>5

\* The ceiling is the least number that will do.
LEMMA CeilLeast ==
  ASSUME NEW a \in Nat, NEW b \in Nat \ {0}, NEW n \in Nat, a <= b * n
  PROVE  CeilDiv(a, b) <= n
<1> DEFINE q == CeilDiv(a, b)
<1>1. q \in Nat /\ b * q < a + b
  BY CeilLemma
<1> HIDE DEF q
<1>2. b * q \in Nat /\ b * n \in Nat /\ b * (n + 1) = b * n + b
  BY <1>1, Z3
<1>3. b * q < b * (n + 1)
  BY <1>1, <1>2
<1>4. q < n + 1
  BY <1>1, <1>3, CancelFactor
<1> QED BY <1>1, <1>4 DEF q

LEMMA CeilMono ==
  ASSUME NEW a \in Nat, NEW c \in Nat, NEW b \in Nat \ {0}, a <= c
  PROVE  CeilDiv(a, b) <= CeilDiv(c, b)
<1>1. CeilDiv(c, b) \in Nat /\ c <= b * CeilDiv(c, b) /\ b * CeilDiv(c, b) \in Nat
  BY CeilLemma
<1>2. a <= b * CeilDiv(c, b)
  BY <1>1
<1> QED BY <1>1, <1>2, CeilLeast

\* A part of a whole, at most the whole.
LEMMA FloorShare ==
  ASSUME NEW a \in Nat, NEW p \in Nat, NEW b \in Nat \ {0}, p <= b
  PROVE  (a * p) \div b \in 0..a
<1> DEFINE q == (a * p) \div b
<1>1. a * p \in Nat
  OBVIOUS
<1>2. q \in Nat /\ b * q <= a * p
  BY <1>1, FloorLemma
<1>3. a * p <= b * a
  BY MulMono, Z3
<1> HIDE DEF q
<1>4. b * q \in Nat /\ b * a \in Nat /\ b * (a + 1) = b * a + b
  BY <1>2, Z3
<1>5. b * q < b * (a + 1)
  BY <1>1, <1>2, <1>3, <1>4
<1>6. q < a + 1
  BY <1>2, <1>5, CancelFactor
<1> QED BY <1>2, <1>6 DEF q

-----------------------------------------------------------------------------
(* Induction over finite sets, by a smallest counterexample.               *)

\* A family of finite sets that is not empty has a member none of whose parts is in it.
LEMMA SmallestSet ==
  ASSUME NEW S, IsFiniteSet(S), NEW B \in SUBSET (SUBSET S), B # {}
  PROVE  \E T \in B : \A U \in B : U \subseteq T => U = T
<1> DEFINE C == {n \in Nat : \E T \in B : Cardinality(T) = n}
<1>1. \A T \in SUBSET S : IsFiniteSet(T) /\ Cardinality(T) \in Nat
  BY FS_Subset, FS_CardinalityType
<1>2. C # {}
  BY <1>1
<1>3. PICK n \in C : \A m \in C : ~(<<m, n>> \in OpToRel(<, Nat))
  <2>1. C \subseteq Nat
    OBVIOUS
  <2> HIDE DEF C
  <2> QED BY <1>2, <2>1, WFMin, NatLessThanWellFounded
<1>4. \A m \in C : ~(m < n)
  BY <1>3 DEF OpToRel
<1>5. PICK T \in B : Cardinality(T) = n
  OBVIOUS
<1>6. ASSUME NEW U \in B, U \subseteq T PROVE U = T
  <2>1. IsFiniteSet(T) /\ Cardinality(U) <= Cardinality(T) /\ (Cardinality(T) = Cardinality(U) => T = U)
    BY <1>1, <1>6, FS_Subset
  <2>2. Cardinality(U) \in C /\ ~(Cardinality(U) < Cardinality(T))
    BY <1>1, <1>4, <1>5
  <2> QED BY <1>1, <2>1, <2>2
<1> QED BY <1>6

-----------------------------------------------------------------------------
(* Sums over finite sets.                                                  *)

\* The element the fold of MapThenSumSet takes next, the function it computes with, and
\* its result for a function f.
Pick(s) == CHOOSE e \in s : TRUE

SumRec(f, S, g) ==
  g = [s \in SUBSET S |-> IF s = {} THEN 0 ELSE f[Pick(s)] + g[s \ {Pick(s)}]]

Total(f, S) == MapThenSumSet(LAMBDA e : f[e], S)

LEMMA PickLemma ==
  ASSUME NEW s, s # {}
  PROVE  Pick(s) \in s
BY DEF Pick

LEMMA SumRecMeans ==
  ASSUME NEW f, NEW S, NEW g, SumRec(f, S, g), NEW s \in SUBSET S
  PROVE  g[s] = IF s = {} THEN 0 ELSE f[Pick(s)] + g[s \ {Pick(s)}]
<1>1. g = [t \in SUBSET S |-> IF t = {} THEN 0 ELSE f[Pick(t)] + g[t \ {Pick(t)}]]
  BY DEF SumRec
<1> QED BY <1>1, Zenon

LEMMA SumRecAgree ==
  ASSUME NEW f, NEW S, NEW T, NEW g, NEW h, SumRec(f, S, g), SumRec(f, T, h), IsFiniteSet(S),
         NEW s \in SUBSET S, s \in SUBSET T
  PROVE  g[s] = h[s]
<1> DEFINE B == {u \in SUBSET S : u \subseteq T /\ g[u] # h[u]}
<1>1. SUFFICES ASSUME B # {} PROVE FALSE
  OBVIOUS
<1>2. PICK u \in B : \A v \in B : v \subseteq u => v = u
  <2>1. B \in SUBSET (SUBSET S)
    OBVIOUS
  <2> HIDE DEF B
  <2> QED BY <1>1, <2>1, SmallestSet
<1>3. u \in SUBSET S /\ u \in SUBSET T /\ g[u] # h[u]
  OBVIOUS
<1>4. /\ g[u] = IF u = {} THEN 0 ELSE f[Pick(u)] + g[u \ {Pick(u)}]
      /\ h[u] = IF u = {} THEN 0 ELSE f[Pick(u)] + h[u \ {Pick(u)}]
  BY <1>3, SumRecMeans
<1>5. u # {}
  BY <1>3, <1>4
<1>6. Pick(u) \in u
  BY <1>5, PickLemma
<1>7. u \ {Pick(u)} \notin B
  BY <1>2, <1>6
<1>8. g[u \ {Pick(u)}] = h[u \ {Pick(u)}]
  BY <1>3, <1>7
<1> QED BY <1>3, <1>4, <1>5, <1>8

LEMMA SumRecExists ==
  ASSUME NEW f, NEW S, IsFiniteSet(S)
  PROVE  \E g : SumRec(f, S, g)
<1> DEFINE B == {T \in SUBSET S : ~\E g : SumRec(f, T, g)}
<1>1. SUFFICES ASSUME B # {} PROVE FALSE
  OBVIOUS
<1>2. PICK T \in B : \A U \in B : U \subseteq T => U = T
  <2>1. B \in SUBSET (SUBSET S)
    OBVIOUS
  <2> HIDE DEF B
  <2> QED BY <1>1, <2>1, SmallestSet
<1> DEFINE G(U) == CHOOSE g : SumRec(f, U, g)
           h == [s \in SUBSET T |-> IF s = {} THEN 0
                                    ELSE f[Pick(s)] + G(s \ {Pick(s)})[s \ {Pick(s)}]]
<1>3. \A U \in SUBSET T : U # T => SumRec(f, U, G(U))
  <2> SUFFICES ASSUME NEW U \in SUBSET T, U # T PROVE SumRec(f, U, G(U))
    OBVIOUS
  <2>1. U \notin B /\ U \in SUBSET S
    BY <1>2
  <2>2. \E g : SumRec(f, U, g)
    BY <2>1
  <2> QED BY <2>2
<1> HIDE DEF G
<1>4. ASSUME NEW U \in SUBSET T, U # T PROVE h[U] = G(U)[U]
  <2>1. SumRec(f, U, G(U)) /\ IsFiniteSet(U)
    BY <1>3, <1>4, FS_Subset
  <2>2. G(U)[U] = IF U = {} THEN 0 ELSE f[Pick(U)] + G(U)[U \ {Pick(U)}]
    BY <2>1, SumRecMeans
  <2>3. CASE U = {}
    BY <2>2, <2>3
  <2>4. CASE U # {}
    <3>1. Pick(U) \in U
      BY <2>4, PickLemma
    <3> DEFINE V == U \ {Pick(U)}
    <3>2. V \in SUBSET T /\ V # T /\ V \in SUBSET U
      BY <3>1
    <3>3. SumRec(f, V, G(V))
      BY <1>3, <3>2
    <3>4. G(U)[V] = G(V)[V]
      BY <2>1, <3>2, <3>3, SumRecAgree
    <3> QED BY <2>2, <2>4, <3>4
  <2> QED BY <2>3, <2>4
<1>5. ASSUME NEW s \in SUBSET T, s # {}
      PROVE  G(s \ {Pick(s)})[s \ {Pick(s)}] = h[s \ {Pick(s)}]
  <2>1. Pick(s) \in s
    BY <1>5, PickLemma
  <2>2. s \ {Pick(s)} \in SUBSET T /\ s \ {Pick(s)} # T
    BY <2>1
  <2> QED BY <1>4, <2>2
<1>6. h = [s \in SUBSET T |-> IF s = {} THEN 0 ELSE f[Pick(s)] + h[s \ {Pick(s)}]]
  BY <1>5
<1> HIDE DEF h
<1>7. SumRec(f, T, h)
  BY <1>6 DEF SumRec
<1> QED BY <1>7

LEMMA TotalIs ==
  ASSUME NEW f, NEW S, IsFiniteSet(S)
  PROVE  \E g : SumRec(f, S, g) /\ Total(f, S) = g[S]
<1> DEFINE it == CHOOSE g : SumRec(f, S, g)
<1>1. SumRec(f, S, it)
  BY SumRecExists
<1>2. Total(f, S) = it[S]
  BY DEF Total, MapThenSumSet, MapThenFoldSet, SumRec, Pick
<1> QED BY <1>1, <1>2

\* The sum that any function so defined computes.
LEMMA TotalRec ==
  ASSUME NEW f, NEW S, IsFiniteSet(S), NEW g, SumRec(f, S, g), NEW T \in SUBSET S
  PROVE  Total(f, T) = g[T]
<1>1. IsFiniteSet(T) /\ T \in SUBSET T
  BY FS_Subset
<1>2. PICK h : SumRec(f, T, h) /\ Total(f, T) = h[T]
  BY <1>1, TotalIs
<1> QED BY <1>1, <1>2, SumRecAgree

LEMMA TotalStep ==
  ASSUME NEW f, NEW S, IsFiniteSet(S)
  PROVE  /\ Total(f, {}) = 0
         /\ S # {} => Pick(S) \in S /\ Total(f, S) = f[Pick(S)] + Total(f, S \ {Pick(S)})
<1>1. PICK g : SumRec(f, S, g)
  BY SumRecExists
<1>2. \A T \in SUBSET S : Total(f, T) = g[T]
  BY <1>1, TotalRec
<1>3. \A T \in SUBSET S : g[T] = IF T = {} THEN 0 ELSE f[Pick(T)] + g[T \ {Pick(T)}]
  BY <1>1, SumRecMeans
<1>4. Total(f, {}) = 0
  BY <1>2, <1>3
<1>5. ASSUME S # {} PROVE Pick(S) \in S /\ Total(f, S) = f[Pick(S)] + Total(f, S \ {Pick(S)})
  <2>1. Pick(S) \in S
    BY <1>5, PickLemma
  <2>2. S \in SUBSET S /\ S \ {Pick(S)} \in SUBSET S
    OBVIOUS
  <2>3. Total(f, S) = g[S] /\ Total(f, S \ {Pick(S)}) = g[S \ {Pick(S)}]
    BY <1>2, <2>2
  <2>4. g[S] = f[Pick(S)] + g[S \ {Pick(S)}]
    BY <1>3, <1>5, <2>2
  <2> QED BY <2>1, <2>3, <2>4
<1> QED BY <1>4, <1>5

\* Sums are linear.
LEMMA TotalLinear ==
  ASSUME NEW S, IsFiniteSet(S), NEW f, NEW g, NEW h, NEW d \in Int,
         \A e \in S : f[e] \in Int /\ g[e] \in Int /\ h[e] = f[e] + d * g[e]
  PROVE  /\ Total(f, S) \in Int /\ Total(g, S) \in Int
         /\ Total(h, S) = Total(f, S) + d * Total(g, S)
<1> DEFINE Good(T) == /\ Total(f, T) \in Int /\ Total(g, T) \in Int
                      /\ Total(h, T) = Total(f, T) + d * Total(g, T)
           B == {T \in SUBSET S : ~Good(T)}
<1>1. SUFFICES ASSUME B # {} PROVE FALSE
  OBVIOUS
<1>2. PICK T \in B : \A U \in B : U \subseteq T => U = T
  <2>1. B \in SUBSET (SUBSET S)
    OBVIOUS
  <2> HIDE DEF B
  <2> QED BY <1>1, <2>1, SmallestSet
<1>3. T \in SUBSET S /\ ~Good(T) /\ IsFiniteSet(T)
  BY FS_Subset
<1>4. T # {}
  <2>1. Total(f, {}) = 0 /\ Total(g, {}) = 0 /\ Total(h, {}) = 0
    BY TotalStep
  <2>2. Good({})
    BY <2>1
  <2> QED BY <1>3, <2>2
<1> DEFINE p == Pick(T)
           U == T \ {p}
<1>5. /\ p \in T
      /\ Total(f, T) = f[p] + Total(f, U)
      /\ Total(g, T) = g[p] + Total(g, U)
      /\ Total(h, T) = h[p] + Total(h, U)
  BY <1>3, <1>4, TotalStep
<1>6. Good(U)
  <2>1. U \notin B /\ U \in SUBSET S
    BY <1>2, <1>5
  <2> QED BY <2>1
<1>7. f[p] \in Int /\ g[p] \in Int /\ h[p] = f[p] + d * g[p]
  BY <1>3, <1>5
<1> HIDE DEF p, U
<1>8. Total(f, T) \in Int /\ Total(g, T) \in Int
  BY <1>5, <1>6, <1>7
<1>9. d * (g[p] + Total(g, U)) = d * g[p] + d * Total(g, U) /\ d * g[p] \in Int /\ d * Total(g, U) \in Int
  BY <1>6, <1>7, Z3
<1>10. Total(h, T) = Total(f, T) + d * Total(g, T)
  BY <1>5, <1>6, <1>7, <1>9
<1> QED BY <1>3, <1>8, <1>10

\* Two functions that agree on S have the same sum.
LEMMA TotalSame ==
  ASSUME NEW S, IsFiniteSet(S), NEW f, NEW g, \A e \in S : f[e] \in Int /\ g[e] = f[e]
  PROVE  Total(g, S) = Total(f, S) /\ Total(f, S) \in Int
<1> DEFINE Good(T) == Total(f, T) \in Int /\ Total(g, T) = Total(f, T)
           B == {T \in SUBSET S : ~Good(T)}
<1>1. SUFFICES ASSUME B # {} PROVE FALSE
  OBVIOUS
<1>2. PICK T \in B : \A U \in B : U \subseteq T => U = T
  <2>1. B \in SUBSET (SUBSET S)
    OBVIOUS
  <2> HIDE DEF B
  <2> QED BY <1>1, <2>1, SmallestSet
<1>3. T \in SUBSET S /\ ~Good(T) /\ IsFiniteSet(T)
  BY FS_Subset
<1>4. Total(f, {}) = 0 /\ Total(g, {}) = 0
  BY TotalStep
<1>5. T # {}
  BY <1>3, <1>4
<1> DEFINE p == Pick(T)
           U == T \ {p}
<1>6. p \in T /\ Total(f, T) = f[p] + Total(f, U) /\ Total(g, T) = g[p] + Total(g, U)
  BY <1>3, <1>5, TotalStep
<1>7. Good(U)
  <2>1. U \notin B /\ U \in SUBSET S
    BY <1>2, <1>6
  <2> QED BY <2>1
<1>8. f[p] \in Int /\ g[p] = f[p]
  BY <1>3, <1>6
<1> HIDE DEF p, U
<1> QED BY <1>3, <1>6, <1>7, <1>8

LEMMA TotalOut ==
  ASSUME NEW S, IsFiniteSet(S), NEW f, \A e \in S : f[e] \in Int, NEW o \in S
  PROVE  Total(f, S) = f[o] + Total(f, S \ {o}) /\ Total(f, S \ {o}) \in Int
<1> DEFINE B == {T \in SUBSET S : \E e \in T : Total(f, T) # f[e] + Total(f, T \ {e})}
<1>1. \A T \in SUBSET S : IsFiniteSet(T) /\ Total(f, T) \in Int
  <2> SUFFICES ASSUME NEW T \in SUBSET S PROVE IsFiniteSet(T) /\ Total(f, T) \in Int
    OBVIOUS
  <2>1. IsFiniteSet(T)
    BY FS_Subset
  <2> QED BY <2>1, TotalSame
<1>2. SUFFICES ASSUME B # {} PROVE FALSE
  BY <1>1
<1>3. PICK T \in B : \A U \in B : U \subseteq T => U = T
  <2>1. B \in SUBSET (SUBSET S)
    OBVIOUS
  <2> HIDE DEF B
  <2> QED BY <1>2, <2>1, SmallestSet
<1>4. PICK e \in T : Total(f, T) # f[e] + Total(f, T \ {e})
  OBVIOUS
<1>5. T \in SUBSET S /\ T # {}
  OBVIOUS
<1> DEFINE p == Pick(T)
<1>6. p \in T /\ Total(f, T) = f[p] + Total(f, T \ {p})
  BY <1>1, <1>5, TotalStep
<1>7. p # e
  BY <1>4, <1>6
<1>8. \A U \in SUBSET T : U # T => \A u \in U : Total(f, U) = f[u] + Total(f, U \ {u})
  <2> SUFFICES ASSUME NEW U \in SUBSET T, U # T, NEW u \in U
               PROVE  Total(f, U) = f[u] + Total(f, U \ {u})
    OBVIOUS
  <2>1. U \notin B /\ U \in SUBSET S
    BY <1>3, <1>5
  <2> QED BY <2>1
<1> HIDE DEF p
<1>9. /\ Total(f, T \ {p}) = f[e] + Total(f, (T \ {p}) \ {e})
      /\ Total(f, T \ {e}) = f[p] + Total(f, (T \ {e}) \ {p})
  BY <1>6, <1>7, <1>8
<1>10. (T \ {p}) \ {e} = (T \ {e}) \ {p}
  OBVIOUS
<1>11. f[p] \in Int /\ f[e] \in Int /\ Total(f, (T \ {e}) \ {p}) \in Int
  <2>1. (T \ {e}) \ {p} \in SUBSET S /\ p \in S /\ e \in S
    BY <1>5, <1>6
  <2> QED BY <1>1, <2>1
<1> DEFINE rest == Total(f, (T \ {e}) \ {p})
<1>12. Total(f, T) = f[p] + (f[e] + rest) /\ Total(f, T \ {e}) = f[p] + rest
  BY <1>6, <1>9, <1>10
<1> HIDE DEF rest
<1>13. rest \in Int
  BY <1>11 DEF rest
<1> QED BY <1>4, <1>11, <1>12, <1>13

\* One entry changes.
LEMMA TotalChange ==
  ASSUME NEW S, IsFiniteSet(S), NEW o \in S, NEW f, NEW g,
         \A e \in S : f[e] \in Int /\ g[e] \in Int,
         \A e \in S : e # o => g[e] = f[e]
  PROVE  Total(g, S) = Total(f, S) - f[o] + g[o] /\ Total(f, S) \in Int /\ Total(g, S) \in Int
<1>1. Total(f, S) = f[o] + Total(f, S \ {o}) /\ Total(f, S \ {o}) \in Int
  BY TotalOut
<1>2. Total(g, S) = g[o] + Total(g, S \ {o}) /\ Total(g, S \ {o}) \in Int
  BY TotalOut
<1>3. IsFiniteSet(S \ {o})
  BY FS_Subset, S \ {o} \in SUBSET S
<1>4. Total(g, S \ {o}) = Total(f, S \ {o})
  BY <1>3, TotalSame
<1> QED BY <1>1, <1>2, <1>4

\* An entry joins.
LEMMA TotalJoin ==
  ASSUME NEW S, IsFiniteSet(S), NEW o, o \notin S, NEW f, NEW g,
         \A e \in S : f[e] \in Int /\ g[e] = f[e],
         g[o] \in Int
  PROVE  Total(g, S \cup {o}) = Total(f, S) + g[o] /\ Total(f, S) \in Int
<1> DEFINE U == S \cup {o}
<1>1. U \ {o} = S /\ o \in U /\ \A e \in U : g[e] \in Int
  OBVIOUS
<1>2. IsFiniteSet(U)
  BY FS_AddElement
<1>3. Total(g, S) = Total(f, S) /\ Total(f, S) \in Int
  BY TotalSame
<1> HIDE DEF U
<1>4. Total(g, U) = g[o] + Total(g, U \ {o})
  BY <1>1, <1>2, TotalOut
<1>5. Total(g, U) = g[o] + Total(f, S)
  BY <1>1, <1>3, <1>4
<1>6. Total(g, U) = Total(f, S) + g[o]
  BY <1>3, <1>5
<1> QED BY <1>3, <1>6 DEF U

\* Bounds add up.
LEMMA TotalBound ==
  ASSUME NEW S, IsFiniteSet(S), NEW f, NEW g, NEW c \in Int,
         \A e \in S : f[e] \in Int /\ g[e] \in Int /\ c * f[e] <= g[e]
  PROVE  Total(f, S) \in Int /\ Total(g, S) \in Int /\ c * Total(f, S) <= Total(g, S)
<1> DEFINE Good(T) == /\ Total(f, T) \in Int /\ Total(g, T) \in Int
                      /\ c * Total(f, T) <= Total(g, T)
           B == {T \in SUBSET S : ~Good(T)}
<1>1. SUFFICES ASSUME B # {} PROVE FALSE
  OBVIOUS
<1>2. PICK T \in B : \A U \in B : U \subseteq T => U = T
  <2>1. B \in SUBSET (SUBSET S)
    OBVIOUS
  <2> HIDE DEF B
  <2> QED BY <1>1, <2>1, SmallestSet
<1>3. T \in SUBSET S /\ ~Good(T) /\ IsFiniteSet(T)
  BY FS_Subset
<1>4. T # {}
  <2>1. Total(f, {}) = 0 /\ Total(g, {}) = 0
    BY TotalStep
  <2>2. Good({})
    BY <2>1
  <2> QED BY <1>3, <2>2
<1> DEFINE p == Pick(T)
           U == T \ {p}
<1>5. p \in T /\ Total(f, T) = f[p] + Total(f, U) /\ Total(g, T) = g[p] + Total(g, U)
  BY <1>3, <1>4, TotalStep
<1>6. Good(U)
  <2>1. U \notin B /\ U \in SUBSET S
    BY <1>2, <1>5
  <2> QED BY <2>1
<1>7. f[p] \in Int /\ g[p] \in Int /\ c * f[p] <= g[p]
  BY <1>3, <1>5
<1> HIDE DEF p, U
<1>8. /\ c * (f[p] + Total(f, U)) = c * f[p] + c * Total(f, U)
      /\ c * f[p] \in Int /\ c * Total(f, U) \in Int
  BY <1>6, <1>7, Z3
<1> QED BY <1>3, <1>5, <1>6, <1>7, <1>8

\* No member of a sum of natural numbers is more than the sum.
LEMMA TotalMember ==
  ASSUME NEW S, IsFiniteSet(S), NEW f, \A e \in S : f[e] \in Nat, NEW o \in S
  PROVE  Total(f, S) \in Int /\ f[o] \in Nat /\ f[o] <= Total(f, S)
<1> DEFINE rest == S \ {o}
<1>1. \A e \in S : f[e] \in Int
  OBVIOUS
<1>2. Total(f, S) = f[o] + Total(f, rest) /\ Total(f, rest) \in Int
  BY <1>1, TotalOut
<1>3. IsFiniteSet(rest) /\ 0 \in Int
  BY FS_Subset
<1>4. \A e \in rest : f[e] \in Int /\ f[e] \in Int /\ 0 * f[e] <= f[e]
  OBVIOUS
<1> HIDE DEF rest
<1>5. 0 * Total(f, rest) <= Total(f, rest)
  BY <1>3, <1>4, TotalBound
<1> QED BY <1>2, <1>5
=============================================================================
