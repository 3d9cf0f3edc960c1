------------------------- MODULE OrderReviewProofs -------------------------
(* From the sums a valuation is made of to the orders it lets stand.       *)
(*   - Operators: rounding, sums over finite sets, fees, exit prices, the  *)
(*     order of purchases, the rail and the economics of a candidate.      *)
(*   - EntryTarget: the bisection returns the exact cap, for every value,  *)
(*     every floor above -100% and every overhead.                         *)
(*   - DealInv: a deal under appraisal holds what the pipeline computed    *)
(*     for its candidate; from it the types, the exits, the card and the   *)
(*     caps are what they promise.                                         *)
(*   - Appraisals and review composed: an order stands only on prices that *)
(*     keep its lead within every cap computed for it.                     *)
EXTENDS OrderReview, FoldProofs

-----------------------------------------------------------------------------
(* Powers, and rounding up and down. *)

LEMMA PowerFunction ==
  ASSUME NEW b \in Int, NEW n \in Nat
  PROVE  \E f \in [0..n -> Int] : /\ Power(b, n) = f[n] /\ f[0] = 1
                                  /\ \A k \in 1..n : f[k] = b * f[k - 1]
<1> DEFINE g == [p \in (1..n) \X Int |-> b * p[2]]
           W(f) == f = [k \in 0..n |-> IF k = 0 THEN 1 ELSE b * f[k - 1]]
           c == CHOOSE f : W(f)
<1>1. g \in [(1..n) \X Int -> Int]
  OBVIOUS
<1>2. \A k \in 1..n, x \in Int : g[<<k, x>>] = b * x
  OBVIOUS
<1> HIDE DEF g
<1>3. PICK f \in [0..n -> Int] : Recurses(f, n, 1, g)
  <2>1. 1 \in Int
    OBVIOUS
  <2> QED
    <3> HIDE DEF W, c
    <3> QED
      BY <1>1, <2>1, RecursionExists, Zenon
<1>4. \A k \in 1..n : f[k] = b * f[k - 1]
  <2> TAKE k \in 1..n
  <2>1. f[k - 1] \in Int
    OBVIOUS
  <2> QED
    BY <1>2, <1>3, <2>1 DEF Recurses
<1>5. W(f)
  <2>1. \A k \in 0..n : f[k] = IF k = 0 THEN 1 ELSE b * f[k - 1]
    BY <1>3, <1>4 DEF Recurses
  <2>2. f = [k \in 0..n |-> f[k]]
    OBVIOUS
  <2> QED
    BY <2>1, <2>2
<1>6. Power(b, n) = c[n]
  BY DEF Power
<1> DEFINE T == {k \in Nat : k <= n => c[k] = f[k]}
<1> HIDE DEF W
<1>7. W(c)
  BY <1>5
<1> HIDE DEF c
<1>8. c[0] = 1 /\ \A k \in 1..n : c[k] = b * c[k - 1]
  BY <1>7 DEF W
<1>9. 0 \in T
  BY <1>3, <1>8 DEF Recurses
<1>10. ASSUME NEW k \in T \cap Nat PROVE k + 1 \in T
  <2>1. CASE k + 1 <= n
    <3>1. k + 1 \in 1..n /\ (k + 1) - 1 = k /\ c[k] = f[k]
      BY <1>10, <2>1
    <3>2. c[k + 1] = b * c[k] /\ f[k + 1] = b * f[k]
      BY <1>4, <1>8, <3>1
    <3> QED
      BY <3>1, <3>2
  <2> QED
    BY <2>1
<1> HIDE DEF T
<1>11. n \in T
  BY <1>9, <1>10, Induction
<1>12. c[n] = f[n]
  BY <1>11 DEF T
<1> QED
  BY <1>3, <1>4, <1>6, <1>12 DEF Recurses

(* Powers of a positive number are positive. *)
LEMMA PowerPositive ==
  ASSUME NEW b \in Nat \ {0}, NEW n \in Nat
  PROVE  Power(b, n) \in Nat \ {0}
<1>1. PICK f \in [0..n -> Int] : /\ Power(b, n) = f[n] /\ f[0] = 1
                                 /\ \A k \in 1..n : f[k] = b * f[k - 1]
  <2>1. b \in Int
    OBVIOUS
  <2> QED
    BY <2>1, PowerFunction, Zenon
<1> DEFINE T == {k \in Nat : k <= n => f[k] \in Nat \ {0}}
<1>2. 0 \in T
  BY <1>1
<1>3. ASSUME NEW k \in T \cap Nat PROVE k + 1 \in T
  <2>1. CASE k + 1 <= n
    <3>1. k + 1 \in 1..n /\ (k + 1) - 1 = k /\ f[k] \in Nat \ {0}
      BY <1>3, <2>1
    <3>2. f[k + 1] = b * f[k]
      BY <1>1, <3>1
    <3>3. f[k + 1] \in Nat \ {0}
      BY <3>1, <3>2, PositiveProduct
    <3> QED
      BY <3>3
  <2> QED
    BY <2>1
<1> HIDE DEF T
<1>4. n \in T
  BY <1>2, <1>3, Induction
<1> QED
  BY <1>1, <1>4 DEF T

-----------------------------------------------------------------------------
(* Rounding a probability within bounds keeps it within them. *)
LEMMA HalfEvenWithin ==
  ASSUME NEW n \in Nat, NEW d \in Nat \ {0}, NEW b \in Nat, n <= d * b
  PROVE  RoundHalfEven(n, d) \in 0..b
<1> DEFINE q == n \div d
           rest == n - q * d
<1>1. q \in Int /\ d * q <= n /\ n < d * (q + 1) /\ q >= 0
  BY SMT
<1>2. RoundHalfEven(n, d) = IF 2 * rest < d \/ (2 * rest = d /\ q % 2 = 0) THEN q ELSE q + 1
  BY DEF RoundHalfEven
<1>3. rest = n - d * q /\ rest \in Int
  BY <1>1, SMT
<1> HIDE DEF q, rest
<1>4. q <= b
  <2>1. ASSUME b + 1 <= q PROVE FALSE
    <3>1. d * (b + 1) <= d * q
      BY <1>1, <2>1, Monotone, SMT
    <3>2. d * (b + 1) = d * b + d /\ d * b \in Int
      BY SMT
    <3> QED
      BY <1>1, <3>1, <3>2, SMT
  <2> QED
    BY <1>1, <2>1, SMT
<1>5. q = b => 2 * rest < d
  BY <1>1, <1>3, SMT
<1> QED
  BY <1>1, <1>2, <1>4, <1>5, SMT

(* The chance to survive is one, whatever the age and the seller. *)
LEMMA SurvivalWithin ==
  ASSUME NEW input, IsInput(input)
  PROVE  Survival(input) \in 0..SurvivalGrid
<1> DEFINE decay == Power(2, input.age)
           aged == FloorSurvival * decay + (BaseSurvival - FloorSurvival)
           R == IF input.reliability = {} THEN {<<1, 1>>} ELSE input.reliability
           relied(r) == RoundHalfEven(aged * r[1], decay * r[2])
<1>1. decay \in Nat \ {0}
  BY PowerPositive DEF IsInput
<1>2. FloorSurvival \in Nat /\ BaseSurvival - FloorSurvival \in Nat /\ BaseSurvival \in Nat
      /\ BaseSurvival <= SurvivalGrid /\ SurvivalGrid \in Nat
  BY PartialFillAssumption
<1>3. \A r \in R : r[1] \in Nat /\ r[2] \in Nat \ {0} /\ r[1] <= r[2]
  BY DEF IsInput, Fraction
<1>4. R # {}
  OBVIOUS
<1>5. Survival(input) = CHOOSE s \in {relied(r) : r \in R} : TRUE
  BY DEF Survival
<1> HIDE DEF decay, R
<1>6. aged \in Nat /\ aged <= decay * BaseSurvival
  <2> DEFINE spread == BaseSurvival - FloorSurvival
  <2>1. spread * 1 <= spread * decay
    BY <1>1, <1>2, Monotone, SMT
  <2>2. FloorSurvival * decay \in Nat
    BY <1>1, <1>2, Product
  <2>3. spread * decay = BaseSurvival * decay - FloorSurvival * decay /\ spread * 1 = spread
    BY <1>1, <1>2, SMT
  <2>4. decay * BaseSurvival = BaseSurvival * decay /\ BaseSurvival * decay \in Int
    BY <1>1, <1>2, SMT
  <2> QED
    BY <1>1, <1>2, <2>1, <2>2, <2>3, <2>4, SMT
<1> HIDE DEF aged
<1>7. ASSUME NEW r \in R PROVE relied(r) \in 0..BaseSurvival
  <2> DEFINE n == aged * r[1]
             d == decay * r[2]
             full == decay * BaseSurvival
  <2>1. r[1] \in Nat /\ r[2] \in Nat \ {0} /\ r[1] <= r[2]
    BY <1>3
  <2>2. n \in Nat /\ d \in Nat \ {0} /\ full \in Nat
    BY <1>1, <1>2, <1>6, <2>1, Product, PositiveProduct
  <2>3. r[1] * aged <= r[1] * full
    BY <1>6, <2>1, <2>2, Monotone
  <2>4. full * r[1] <= full * r[2]
    BY <2>1, <2>2, Monotone
  <2>5. r[1] * aged = n /\ r[1] * full = full * r[1]
    BY <1>6, <2>1, <2>2, SMT
  <2>6. full * r[2] = d * BaseSurvival
    BY <1>1, <1>2, <2>1, SMT
  <2>7. d * BaseSurvival \in Int /\ full * r[1] \in Int
    BY <2>2, <2>1, <1>2, SMT
  <2>8. n <= d * BaseSurvival
    BY <2>2, <2>3, <2>4, <2>5, <2>6, <2>7, SMT
  <2> HIDE DEF n, d
  <2>9. RoundHalfEven(n, d) \in 0..BaseSurvival
    BY <1>2, <2>2, <2>8, HalfEvenWithin
  <2> QED
    BY <2>9 DEF n, d
<1> HIDE DEF relied
<1>8. Survival(input) \in {relied(r) : r \in R}
  BY <1>4, <1>5
<1>9. Survival(input) \in 0..BaseSurvival
  BY <1>7, <1>8
<1> QED
  BY <1>2, <1>9

-----------------------------------------------------------------------------
(* The bundle of a bundle can be bought in one order only, riskiest first. *)
LEMMA SequenceIs ==
  ASSUME NEW bundle, IsBundle(bundle)
  PROVE  /\ PurchaseSequence(bundle) \in Arrangements(bundle)
         /\ \A i, j \in DOMAIN PurchaseSequence(bundle) :
              i < j => Riskier(PurchaseSequence(bundle)[i], PurchaseSequence(bundle)[j])
<1> DEFINE n == Len(bundle)
           R == {p \in (1..n) \X (1..n) : Riskier(bundle[p[1]], bundle[p[2]])}
<1>1. n \in Nat /\ DOMAIN bundle = 1..n
  BY DEF IsBundle
<1>2. \A i \in 1..n : Survival(bundle[i]) \in Int /\ bundle[i].id \in Int
  <2> TAKE i \in 1..n
  <2>1. IsInput(bundle[i])
    BY <1>1 DEF IsBundle
  <2>2. Survival(bundle[i]) \in 0..SurvivalGrid
    BY <2>1, SurvivalWithin
  <2> QED
    BY <2>1, <2>2 DEF IsInput
<1>3. \A i, j \in 1..n : i # j => bundle[i].id # bundle[j].id
  BY <1>1 DEF IsBundle
<1> HIDE DEF n
<1>4. \A i, j \in 1..n : <<i, j>> \in R <=> Riskier(bundle[i], bundle[j])
  OBVIOUS
<1> HIDE DEF R
<1>5. \A i \in 1..n : <<i, i>> \notin R
  BY <1>2, <1>4 DEF Riskier
<1>6. \A i, j, k \in 1..n : <<i, j>> \in R /\ <<j, k>> \in R => <<i, k>> \in R
  BY <1>2, <1>4 DEF Riskier
<1>7. \A i, j \in 1..n : i # j => <<i, j>> \in R \/ <<j, i>> \in R
  BY <1>2, <1>3, <1>4 DEF Riskier
<1>8. PICK f \in [1..n -> 1..n] :
        /\ \A i, j \in 1..n : f[i] = f[j] => i = j
        /\ \A i, j \in 1..n : i < j => <<f[i], f[j]>> \in R
  BY <1>1, <1>5, <1>6, <1>7, Sorting
<1> DEFINE order == [k \in DOMAIN bundle |-> bundle[f[k]]]
           Sorted(o) == \A i, j \in DOMAIN o : i < j => Riskier(o[i], o[j])
<1>9. order \in Arrangements(bundle)
  BY <1>1, <1>8 DEF Arrangements
<1>10. Sorted(order)
  BY <1>1, <1>4, <1>8
<1> HIDE DEF order
<1>11. PurchaseSequence(bundle) = CHOOSE o \in Arrangements(bundle) : Sorted(o)
  BY DEF PurchaseSequence
<1> HIDE DEF Sorted
<1>12. PurchaseSequence(bundle) \in Arrangements(bundle) /\ Sorted(PurchaseSequence(bundle))
  BY <1>9, <1>10, <1>11
<1> QED
  BY <1>12 DEF Sorted

LEMMA ArrangementIs ==
  ASSUME NEW bundle, IsBundle(bundle), NEW order \in Arrangements(bundle)
  PROVE  /\ DOMAIN order = DOMAIN bundle /\ DOMAIN order = 1..Len(bundle) /\ Len(order) = Len(bundle)
         /\ \A k \in DOMAIN order : IsInput(order[k])
         /\ \A k \in DOMAIN order : \E i \in DOMAIN bundle : order[k] = bundle[i]
<1>1. PICK f \in [DOMAIN bundle -> DOMAIN bundle] : order = [k \in DOMAIN bundle |-> bundle[f[k]]]
  BY DEF Arrangements
<1>2. DOMAIN order = 1..Len(bundle) /\ Len(bundle) \in Nat
  BY <1>1 DEF IsBundle
<1>3. Len(order) = Len(bundle)
  BY <1>2, LenOfInitial
<1> QED
  BY <1>1, <1>2, <1>3 DEF IsBundle

-----------------------------------------------------------------------------
(* The chance of getting as far as the k-th purchase is a product of the   *)
(* chances of those before it.                                             *)
LEMMA ReachedFunction ==
  ASSUME NEW order, NEW n \in Nat, \A j \in 1..n : Survival(order[j]) \in Nat, NEW m \in 0..n
  PROVE  \E f \in [0..m -> Nat] : /\ Reached(order, m + 1) = <<f[m], Power(SurvivalGrid, m)>>
                                  /\ f[0] = 1 /\ \A j \in 1..m : f[j] = f[j - 1] * Survival(order[j])
<1> DEFINE g == [p \in (1..m) \X Nat |-> p[2] * Survival(order[p[1]])]
           W(f) == f = [j \in 0..m |-> IF j = 0 THEN 1 ELSE f[j - 1] * Survival(order[j])]
           c == CHOOSE f : W(f)
<1>0. m \in Nat
  OBVIOUS
<1>1. g \in [(1..m) \X Nat -> Nat]
  <2>1. ASSUME NEW j \in 1..m, NEW x \in Nat PROVE x * Survival(order[j]) \in Nat
    BY Product
  <2> QED
    BY <2>1
<1>2. \A k \in 1..m, x \in Nat : g[<<k, x>>] = x * Survival(order[k])
  OBVIOUS
<1> HIDE DEF g
<1>3. PICK f \in [0..m -> Nat] : Recurses(f, m, 1, g)
  <2>1. 1 \in Nat
    OBVIOUS
  <2> HIDE DEF W, c
  <2> QED
    BY <1>0, <1>1, <2>1, RecursionExists, Zenon
<1>4. \A k \in 1..m : f[k] = f[k - 1] * Survival(order[k])
  <2> TAKE k \in 1..m
  <2>1. f[k - 1] \in Nat
    OBVIOUS
  <2> QED
    BY <1>2, <1>3, <2>1 DEF Recurses
<1>5. W(f)
  <2>1. \A k \in 0..m : f[k] = IF k = 0 THEN 1 ELSE f[k - 1] * Survival(order[k])
    BY <1>3, <1>4 DEF Recurses
  <2>2. f = [k \in 0..m |-> f[k]]
    OBVIOUS
  <2> QED
    BY <2>1, <2>2
<1>6. Reached(order, m + 1) = <<c[m], Power(SurvivalGrid, m)>>
  <2>1. (m + 1) - 1 = m
    OBVIOUS
  <2> QED
    BY <2>1, Zenon DEF Reached
<1> DEFINE T == {k \in Nat : k <= m => c[k] = f[k]}
<1> HIDE DEF W
<1>7. W(c)
  BY <1>5
<1> HIDE DEF c
<1>8. c[0] = 1 /\ \A k \in 1..m : c[k] = c[k - 1] * Survival(order[k])
  BY <1>7 DEF W
<1>9. 0 \in T
  BY <1>3, <1>8 DEF Recurses
<1>10. ASSUME NEW k \in T \cap Nat PROVE k + 1 \in T
  <2>1. CASE k + 1 <= m
    <3>1. k + 1 \in 1..m /\ (k + 1) - 1 = k /\ c[k] = f[k]
      BY <1>10, <2>1
    <3>2. c[k + 1] = c[k] * Survival(order[k + 1]) /\ f[k + 1] = f[k] * Survival(order[k + 1])
      BY <1>4, <1>8, <3>1
    <3> QED
      BY <3>1, <3>2
  <2> QED
    BY <2>1
<1> HIDE DEF T
<1>11. m \in T
  BY <1>0, <1>9, <1>10, Induction
<1>12. c[m] = f[m]
  BY <1>11 DEF T
<1> QED
  BY <1>3, <1>4, <1>6, <1>12 DEF Recurses

-----------------------------------------------------------------------------
(* What a purchase that fails loses, and with what chance. *)
LEMMA SurvivalNat ==
  ASSUME NEW bundle, IsBundle(bundle), NEW order \in Arrangements(bundle), NEW k \in DOMAIN order
  PROVE  Survival(order[k]) \in Nat /\ SurvivalGrid - Survival(order[k]) \in Nat
<1>1. Survival(order[k]) \in 0..SurvivalGrid
  BY ArrangementIs, SurvivalWithin
<1> QED
  BY <1>1, PartialFillAssumption

LEMMA LossFacts ==
  ASSUME NEW bundle, IsBundle(bundle), NEW order \in Arrangements(bundle), NEW k \in DOMAIN order
  PROVE  /\ Committed(order, k) \in Nat /\ LossAt(order, k) \in Nat
         /\ FailsAt(order, k) \in Fraction
<1>1. DOMAIN order = 1..Len(bundle) /\ Len(bundle) \in Nat
  BY ArrangementIs DEF IsBundle
<1>2. k \in Nat \ {0}
  BY <1>1
<1>3. Committed(order, k) \in Nat
  <2> DEFINE f == [j \in Before(k) |-> order[j].cost]
  <2>1. IsFiniteSet(Before(k))
    BY <1>2, FS_Interval DEF Before
  <2>2. \A j \in Before(k) : f[j] \in Nat
    <3> TAKE j \in Before(k)
    <3>1. j \in DOMAIN order
      BY <1>1 DEF Before
    <3> QED
      BY <3>1, ArrangementIs DEF IsInput
  <2> HIDE DEF f
  <2>3. SumOver(Before(k), f) \in Nat
    BY <2>1, <2>2, SumNat
  <2> QED
    BY <2>3 DEF Committed, f
<1>4. LossAt(order, k) \in Nat
  <2> DEFINE spent == Committed(order, k)
  <2>1. ScaledDown(spent, SalvageRate) \in Nat /\ ScaledDown(spent, SalvageRate) <= spent
    BY <1>3, PartialFillAssumption, Scaling
  <2> QED
    BY <1>3, <2>1 DEF LossAt
<1>5. FailsAt(order, k) \in Fraction
  <2>1. \A j \in 1..Len(bundle) : Survival(order[j]) \in Nat
    BY <1>1, SurvivalNat
  <2>2. k - 1 \in 0..Len(bundle) /\ (k - 1) + 1 = k /\ k \in Nat /\ k - 1 \in Nat
    BY <1>1
  <2>3. PICK f \in [0..(k - 1) -> Nat] : Reached(order, (k - 1) + 1) = <<f[k - 1], Power(SurvivalGrid, k - 1)>>
    <3> DEFINE m == k - 1
    <3>1. m \in 0..Len(bundle)
      BY <2>2
    <3> HIDE DEF m
    <3>2. \E f \in [0..m -> Nat] : Reached(order, m + 1) = <<f[m], Power(SurvivalGrid, m)>>
      BY <1>1, <2>1, <3>1, ReachedFunction
    <3> QED
      BY <3>2 DEF m
  <2>4. f[k - 1] \in Nat
    BY <2>2
  <2>5. Reached(order, k)[1] \in Nat
    BY <2>2, <2>3, <2>4
  <2>6. Reached(order, k)[1] * (SurvivalGrid - Survival(order[k])) \in Nat
    BY <2>5, SurvivalNat, Product
  <2>7. Power(SurvivalGrid, k) \in Nat \ {0}
    BY <2>2, PowerPositive, PartialFillAssumption
  <2> QED
    BY <2>6, <2>7 DEF FailsAt, Fraction
<1> QED
  BY <1>3, <1>4, <1>5

LEMMA AssessmentFacts ==
  ASSUME NEW bundle, IsBundle(bundle), NEW order \in Arrangements(bundle)
  PROVE  /\ ExpectedLoss(order) \in Nat /\ MaxExposure(order) \in Nat
         /\ \A k \in DOMAIN order : LossAt(order, k) <= MaxExposure(order)
<1>1. DOMAIN order = 1..Len(bundle) /\ Len(bundle) \in Nat \ {0} /\ IsFiniteSet(DOMAIN order)
  <2>1. DOMAIN order = 1..Len(bundle) /\ Len(bundle) \in Nat \ {0}
    BY ArrangementIs DEF IsBundle
  <2>2. IsFiniteSet(1..Len(bundle))
    BY <2>1, FS_Interval
  <2> QED
    BY <2>1, <2>2
<1>2. ExpectedLoss(order) \in Nat
  <2> DEFINE f == [k \in DOMAIN order |-> ScaledUp(LossAt(order, k), FailsAt(order, k))]
  <2>1. \A k \in DOMAIN order : f[k] \in Nat
    BY LossFacts, Scaling
  <2> HIDE DEF f
  <2>2. SumOver(DOMAIN order, f) \in Nat
    BY <1>1, <2>1, SumNat
  <2> QED
    BY <2>2 DEF ExpectedLoss, f
<1>3. MaxExposure(order) \in Nat /\ \A k \in DOMAIN order : LossAt(order, k) <= MaxExposure(order)
  <2> DEFINE f == [k \in DOMAIN order |-> LossAt(order, k)]
             S == {f[k] : k \in DOMAIN order}
  <2>1. \A k \in DOMAIN order : f[k] = LossAt(order, k) /\ f[k] \in Nat
    BY LossFacts
  <2>2. MaxExposure(order) = Max(S)
    BY DEF MaxExposure
  <2> HIDE DEF f
  <2>3. IsFiniteSet(S)
    BY <1>1, ImageFinite
  <2>4. S \in SUBSET Int /\ S \subseteq Nat /\ S # {}
    <3>1. 1 \in DOMAIN order
      BY <1>1
    <3> QED
      BY <2>1, <3>1
  <2> HIDE DEF S
  <2>5. Max(S) \in S /\ \A x \in S : x <= Max(S)
    BY <2>3, <2>4, MaxIs
  <2>6. \A k \in DOMAIN order : LossAt(order, k) \in S
    BY <2>1 DEF S
  <2> QED
    BY <2>2, <2>4, <2>5, <2>6
<1> QED
  BY <1>2, <1>3

-----------------------------------------------------------------------------
(* The quantile is one of the prices it is taken of. *)
LEMMA QuantileIs ==
  ASSUME NEW obs, NEW J, IsFiniteSet(J), J # {}, \A i \in J : obs[i].gross \in Nat
  PROVE  \E i \in J : QuantilePrice(obs, J) = obs[i].gross
<1> DEFINE C == Cardinality(J)
           index == RoundDown(Quantile[1] * (C - 1), Quantile[2])
           g == [i \in J |-> obs[i].gross]
           P == {obs[i].gross : i \in J}
           below(p) == {i \in J : obs[i].gross < p}
           upTo(p) == {i \in J : obs[i].gross <= p}
           Low == {p \in P : Cardinality(below(p)) <= index}
<1>1. C \in Nat \ {0}
  <2>1. C \in Nat
    BY FS_CardinalityType
  <2>2. C # 0
    BY FS_EmptySet
  <2> QED
    BY <2>1, <2>2
<1> HIDE DEF C
<1>2. index \in Nat /\ index <= C - 1
  <2>1. Quantile \in Fraction /\ Quantile[1] <= Quantile[2] /\ C - 1 \in Nat
    BY <1>1, ExitAssumption
  <2>2. ScaledDown(C - 1, Quantile) \in Nat /\ ScaledDown(C - 1, Quantile) <= C - 1
    BY <2>1, Scaling
  <2>3. Quantile[1] * (C - 1) = (C - 1) * Quantile[1]
    BY <2>1, SMT DEF Fraction
  <2> QED
    BY <2>2, <2>3 DEF ScaledDown
<1>3. QuantilePrice(obs, J) = CHOOSE p \in P : Cardinality(below(p)) <= index /\ index < Cardinality(upTo(p))
  BY DEF QuantilePrice, C
<1> HIDE DEF index
<1>4. P \in SUBSET Int /\ P # {} /\ IsFiniteSet(P)
  <2>1. P = {g[i] : i \in J}
    OBVIOUS
  <2> HIDE DEF g
  <2>2. IsFiniteSet({g[i] : i \in J})
    BY ImageFinite
  <2>3. P \in SUBSET Int /\ P # {}
    OBVIOUS
  <2> HIDE DEF P
  <2> QED
    BY <2>1, <2>2, <2>3
<1>5. \A i \in J : obs[i].gross \in P
  OBVIOUS
<1> HIDE DEF P
<1>6. Low # {} /\ IsFiniteSet(Low) /\ Low \in SUBSET Int
  <2>1. Min(P) \in P /\ \A x \in P : Min(P) <= x
    BY <1>4, MinIs
  <2>2. below(Min(P)) = {}
    <3>1. ASSUME NEW i \in J PROVE ~(obs[i].gross < Min(P))
      <4>1. obs[i].gross \in P /\ obs[i].gross \in Int
        BY <1>5
      <4>2. Min(P) \in Int /\ Min(P) <= obs[i].gross
        BY <1>4, <2>1, <4>1
      <4> HIDE DEF below
      <4> QED
        BY <4>1, <4>2, SMT
    <3> QED
      BY <3>1
  <2>3. Cardinality(below(Min(P))) = 0
    BY <2>2, FS_EmptySet
  <2> HIDE DEF below
  <2>4. Min(P) \in Low
    BY <1>2, <2>1, <2>3
  <2>5. Low \in SUBSET P
    OBVIOUS
  <2> HIDE DEF Low
  <2> QED
    BY <1>4, <2>4, <2>5, FS_Subset
<1> DEFINE p == Max(Low)
<1>7. p \in Low /\ \A x \in Low : x <= p
  <2> HIDE DEF Low
  <2> QED
    BY <1>6, MaxIs
<1> HIDE DEF p
<1>8. p \in P /\ Cardinality(below(p)) <= index
  BY <1>7
<1>9. index < Cardinality(upTo(p))
  <2> DEFINE Above == {q \in P : p < q}
  <2>1. CASE Above = {}
    <3>1. upTo(p) = J
      <4>1. \A i \in J : obs[i].gross <= p
        BY <1>4, <1>5, <1>8, <2>1
      <4> QED
        BY <4>1
    <3> HIDE DEF upTo
    <3> QED
      BY <1>1, <1>2, <3>1 DEF C
  <2>2. CASE Above # {}
    <3>1. Above \in SUBSET P /\ Above \in SUBSET Int /\ IsFiniteSet(Above)
      <4>1. Above \in SUBSET P
        OBVIOUS
      <4> HIDE DEF Above
      <4> QED
        BY <1>4, <4>1, FS_Subset
    <3> DEFINE q == Min(Above)
    <3>2. q \in Above /\ \A x \in Above : q <= x
      <4> HIDE DEF Above
      <4> QED
        BY <2>2, <3>1, MinIs
    <3> HIDE DEF q
    <3>3. q \in P /\ p < q /\ q \in Int /\ p \in Int
      BY <1>4, <1>8, <3>2
    <3>4. below(q) = upTo(p)
      <4>1. ASSUME NEW i \in J PROVE obs[i].gross < q <=> obs[i].gross <= p
        <5>1. obs[i].gross \in P /\ obs[i].gross \in Int
          BY <1>5
        <5>2. ASSUME obs[i].gross < q, p < obs[i].gross PROVE FALSE
          <6>1. obs[i].gross \in Above
            BY <5>1, <5>2
          <6>2. q <= obs[i].gross
            BY <3>2, <6>1
          <6> QED
            BY <3>3, <5>1, <5>2, <6>2
        <5> QED
          BY <3>3, <5>1, <5>2
      <4> QED
        BY <4>1
    <3>5. q \notin Low
      BY <1>4, <1>7, <3>3
    <3>6. ~(Cardinality(below(q)) <= index)
      BY <3>3, <3>5
    <3>7. Cardinality(upTo(p)) \in Nat
      <4>1. upTo(p) \in SUBSET J
        OBVIOUS
      <4> HIDE DEF upTo
      <4> QED
        BY <4>1, FS_Subset, FS_CardinalityType
    <3> HIDE DEF below, upTo
    <3> QED
      BY <1>2, <3>4, <3>6, <3>7
  <2> QED
    BY <2>1, <2>2
<1> HIDE DEF below, upTo, Low
<1>10. QuantilePrice(obs, J) \in P
  BY <1>3, <1>8, <1>9
<1> QED
  BY <1>10 DEF P

-----------------------------------------------------------------------------
(* The evidence of an item that can be used at all. *)
IsEvidence(obs, I) ==
  /\ IsFiniteSet(I) /\ I # {}
  /\ \A i \in I : /\ obs[i].gross \in Nat /\ obs[i].venue \in Nat /\ obs[i].evidence \in Nat
                  /\ \E n \in DOMAIN Sources : Sources[n] = obs[i].source

LEMMA UsableIsEvidence ==
  ASSUME NEW obs, IsFiniteSet(DOMAIN obs), \A i \in DOMAIN obs : IsObservation(obs[i]),
         NEW item, Usable(obs, item) # {}
  PROVE  IsEvidence(obs, Usable(obs, item))
<1>1. Usable(obs, item) \in SUBSET DOMAIN obs
  BY DEF Usable
<1>2. IsFiniteSet(Usable(obs, item))
  BY <1>1, FS_Subset
<1>3. ASSUME NEW i \in Usable(obs, item)
      PROVE  IsObservation(obs[i]) /\ obs[i].source # "unvaluable"
  BY DEF Usable
<1> QED
  BY <1>2, <1>3 DEF IsEvidence, IsObservation

(* The best rung there is evidence on. *)
LEMMA BestRungIs ==
  ASSUME NEW obs, NEW I, IsEvidence(obs, I)
  PROVE  \E i \in I : BestRung(obs, I) = obs[i].source
<1> DEFINE g == [i \in I |-> Rank(obs[i].source)]
           S == {g[i] : i \in I}
<1>1. \A i \in I : Rank(obs[i].source) \in DOMAIN Sources /\ Sources[Rank(obs[i].source)] = obs[i].source
  <2> TAKE i \in I
  <2>1. \E n \in DOMAIN Sources : Sources[n] = obs[i].source
    BY DEF IsEvidence
  <2> QED
    BY <2>1 DEF Rank
<1>2. \A n \in DOMAIN Sources : n \in Int
  BY DEF Sources
<1>3. BestRung(obs, I) = Sources[Min(S)]
  BY DEF BestRung
<1>4. \A i \in I : g[i] = Rank(obs[i].source)
  OBVIOUS
<1> HIDE DEF g
<1>5. S \in SUBSET Int /\ S # {}
  BY <1>1, <1>2, <1>4 DEF IsEvidence
<1>6. IsFiniteSet(S)
  BY ImageFinite DEF IsEvidence
<1> HIDE DEF S
<1>7. Min(S) \in S
  BY <1>5, <1>6, MinIs
<1>8. PICK i \in I : Min(S) = Rank(obs[i].source)
  BY <1>4, <1>7 DEF S
<1> QED
  BY <1>1, <1>3, <1>8

LEMMA LowestAsksAre ==
  ASSUME NEW obs, NEW I, IsEvidence(obs, I), AtRung(obs, I, "ask") # {}
  PROVE  /\ LowestAsks(obs, I) \in SUBSET I /\ LowestAsks(obs, I) # {}
         /\ \A i \in LowestAsks(obs, I) :
              /\ obs[i].source = "ask"
              /\ obs[i].gross = Min({obs[a].gross : a \in AtRung(obs, I, "ask")})
<1> DEFINE asks == AtRung(obs, I, "ask")
           P == {obs[a].gross : a \in asks}
           price == Min(P)
           V == {obs[a].venue : a \in {a \in asks : obs[a].gross = price}}
           venue == Min(V)
<1>1. LowestAsks(obs, I) = {a \in asks : obs[a].gross = price /\ obs[a].venue = venue}
  BY DEF LowestAsks
<1>2. /\ asks \in SUBSET I /\ IsFiniteSet(asks)
      /\ \A a \in asks : obs[a].source = "ask" /\ obs[a].gross \in Nat /\ obs[a].venue \in Nat
  <2>1. asks \in SUBSET I /\ \A a \in asks : obs[a].source = "ask"
    BY DEF AtRung
  <2> HIDE DEF asks
  <2> QED
    BY <2>1, FS_Subset DEF IsEvidence
<1>3. asks # {}
  OBVIOUS
<1> HIDE DEF asks
<1>4. price \in P
  <2> DEFINE g == [a \in asks |-> obs[a].gross]
  <2>1. P = {g[a] : a \in asks} /\ P \in SUBSET Int /\ P # {}
    BY <1>2, <1>3
  <2> HIDE DEF g, P
  <2>2. IsFiniteSet(P)
    BY <1>2, <2>1, ImageFinite
  <2> QED
    BY <2>1, <2>2, MinIs
<1> DEFINE B == {a \in asks : obs[a].gross = price}
<1>5. B # {} /\ B \in SUBSET asks
  BY <1>4
<1> HIDE DEF price
<1>6. venue \in V
  <2> DEFINE g == [a \in B |-> obs[a].venue]
  <2>0. V = {obs[a].venue : a \in B} /\ \A a \in B : g[a] = obs[a].venue /\ obs[a].venue \in Nat
    BY <1>2, <1>5
  <2> HIDE DEF g, V, B
  <2>1. V = {g[a] : a \in B} /\ V \in SUBSET Int /\ V # {}
    BY <1>5, <2>0
  <2>2. IsFiniteSet(B)
    BY <1>2, <1>5, FS_Subset
  <2>3. IsFiniteSet(V)
    BY <2>1, <2>2, ImageFinite
  <2> QED
    BY <2>1, <2>3, MinIs
<1> HIDE DEF venue
<1>7. PICK a \in asks : obs[a].gross = price /\ obs[a].venue = venue
  BY <1>6
<1>8. LowestAsks(obs, I) # {} /\ LowestAsks(obs, I) \in SUBSET I
  BY <1>1, <1>2, <1>7
<1>9. \A i \in LowestAsks(obs, I) : obs[i].source = "ask" /\ obs[i].gross = price
  BY <1>1, <1>2
<1> QED
  BY <1>8, <1>9 DEF price, P, asks

(* What a valuation stands on is some of the evidence, of one source, and  *)
(* where nobody bids its price is within every standing ask.               *)
LEMMA ChosenIs ==
  ASSUME NEW obs, NEW I, IsEvidence(obs, I)
  PROVE  /\ Chosen(obs, I) \in SUBSET I /\ Chosen(obs, I) # {}
         /\ \A i, j \in Chosen(obs, I) : obs[i].source = obs[j].source
         /\ \A i \in Chosen(obs, I), a \in AtRung(obs, I, "ask") :
              obs[i].source # "bid" => QuantilePrice(obs, Chosen(obs, I)) <= obs[a].gross
<1> DEFINE rung == BestRung(obs, I)
           best == AtRung(obs, I, rung)
           asks == AtRung(obs, I, "ask")
           P == {obs[a].gross : a \in asks}
           capped == rung # "bid" /\ asks # {} /\ Min(P) < QuantilePrice(obs, best)
<1>1. Chosen(obs, I) = IF capped THEN LowestAsks(obs, I) ELSE best
  BY DEF Chosen
<1>2. PICK i \in I : rung = obs[i].source
  BY BestRungIs
<1> HIDE DEF rung
<1>3. best \in SUBSET I /\ best # {} /\ \A j \in best : obs[j].source = rung
  BY <1>2 DEF AtRung
<1>4. asks \in SUBSET I
  BY DEF AtRung
<1>5. ASSUME asks # {} PROVE Min(P) \in Int /\ \A a \in asks : Min(P) <= obs[a].gross
  <2> DEFINE g == [a \in asks |-> obs[a].gross]
  <2>1. \A a \in asks : obs[a].gross \in Nat
    BY <1>4 DEF IsEvidence
  <2>2. IsFiniteSet(asks)
    BY <1>4, FS_Subset DEF IsEvidence
  <2> HIDE DEF asks
  <2>3. P = {g[a] : a \in asks} /\ P \in SUBSET Int /\ P # {} /\ \A a \in asks : obs[a].gross \in P
    BY <1>5, <2>1
  <2> HIDE DEF g, P
  <2>4. IsFiniteSet(P)
    BY <2>2, <2>3, ImageFinite
  <2> QED
    BY <2>3, <2>4, MinIs
<1> HIDE DEF best, asks
<1>6. CASE capped
  <2>1. /\ LowestAsks(obs, I) \in SUBSET I /\ LowestAsks(obs, I) # {}
        /\ \A j \in LowestAsks(obs, I) : obs[j].source = "ask" /\ obs[j].gross = Min(P)
    BY <1>6, LowestAsksAre DEF asks
  <2> DEFINE J == LowestAsks(obs, I)
  <2>2. Chosen(obs, I) = J
    BY <1>1, <1>6
  <2>3. IsFiniteSet(J) /\ \A j \in J : obs[j].gross \in Nat
    BY <2>1, FS_Subset DEF IsEvidence
  <2> HIDE DEF J, P
  <2>4. QuantilePrice(obs, J) = Min(P)
    <3>1. PICK j \in J : QuantilePrice(obs, J) = obs[j].gross
      BY <2>1, <2>2, <2>3, QuantileIs DEF J
    <3> QED
      BY <2>1, <3>1 DEF J
  <2>5. \A a \in asks : QuantilePrice(obs, J) <= obs[a].gross
    BY <1>5, <1>6, <2>4
  <2> QED
    BY <2>1, <2>2, <2>5 DEF J, asks
<1>7. CASE ~capped
  <2>1. Chosen(obs, I) = best
    BY <1>1, <1>7
  <2>2. IsFiniteSet(best) /\ \A j \in best : obs[j].gross \in Nat
    BY <1>3, FS_Subset DEF IsEvidence
  <2>3. PICK j \in best : QuantilePrice(obs, best) = obs[j].gross
    BY <1>3, <2>2, QuantileIs
  <2>4. QuantilePrice(obs, best) \in Nat
    BY <2>2, <2>3
  <2>5. ASSUME NEW k \in best, NEW a \in asks, obs[k].source # "bid"
        PROVE  QuantilePrice(obs, best) <= obs[a].gross
    <3>1. rung # "bid" /\ asks # {}
      BY <1>3, <2>5
    <3>2. ~(Min(P) < QuantilePrice(obs, best))
      BY <1>7, <3>1
    <3>3. Min(P) \in Int /\ Min(P) <= obs[a].gross /\ obs[a].gross \in Nat
      BY <1>4, <1>5, <3>1 DEF IsEvidence
    <3> HIDE DEF P
    <3> QED
      BY <2>4, <3>2, <3>3
  <2> QED
    BY <1>3, <2>1, <2>5 DEF asks
<1> QED
  BY <1>6, <1>7

-----------------------------------------------------------------------------
(* Time is charged to the unit upwards, more for more capital. *)
LEMMA CarryCostGrows ==
  ASSUME NEW a \in Nat, NEW b \in Nat, a <= b, NEW days \in Nat
  PROVE  /\ CarryCost(a, days) \in Nat /\ CarryCost(b, days) \in Nat
         /\ CarryCost(a, days) <= CarryCost(b, days)
<1> DEFINE r == <<RoundUp(CarryRate[1] * days * FactorGrid, CarryRate[2] * 365), FactorGrid>>
<1>1. CarryRate[1] \in Nat /\ CarryRate[2] \in Nat \ {0} /\ FactorGrid \in Nat \ {0}
  BY ExitAssumption DEF Fraction
<1>2. CarryRate[1] * days \in Nat
  BY <1>1, Product
<1>3. (CarryRate[1] * days) * FactorGrid \in Nat
  BY <1>1, <1>2, Product
<1>4. CarryRate[2] * 365 \in Nat \ {0}
  BY <1>1
<1>5. RoundUp(CarryRate[1] * days * FactorGrid, CarryRate[2] * 365) \in Nat
  <2> DEFINE x == CarryRate[1] * days * FactorGrid
             d == CarryRate[2] * 365
  <2>1. x \in Int /\ 0 <= x /\ d \in Nat \ {0}
    BY <1>3, <1>4
  <2> HIDE DEF x, d
  <2>2. RoundUp(x, d) \in Int /\ 0 <= RoundUp(x, d)
    BY <2>1, Rounding
  <2>3. RoundUp(x, d) \in Nat
    BY <2>2
  <2> QED
    BY <2>3 DEF x, d
<1>6. r \in Nat \X (Nat \ {0})
  BY <1>1, <1>5
<1>7. CarryCost(a, days) = ScaledUp(a, r) /\ CarryCost(b, days) = ScaledUp(b, r)
  BY DEF CarryCost
<1> HIDE DEF r
<1>8. ScaledUp(a, r) \in Nat /\ ScaledUp(b, r) \in Nat
  BY <1>6, Scaling DEF Fraction
<1>9. ScaledUp(a, r) <= ScaledUp(b, r)
  BY <1>6, ScaledUpGrows
<1> QED
  BY <1>7, <1>8, <1>9

IsValuation(v) ==
  /\ v.net \in Nat /\ v.gross \in Nat /\ v.days \in Nat /\ v.confidence \in 0..3

(* An output is worth a whole number of minor units, at least nothing, and *)
(* is counted on within every ask unless somebody bids for it.             *)
LEMMA ValuationIs ==
  ASSUME NEW obs, IsFiniteSet(DOMAIN obs), \A i \in DOMAIN obs : IsObservation(obs[i]),
         NEW item, NEW s, IsSchedule(s), ExitFeesKnown(obs, item, s, 0)
  PROVE  /\ IsValuation(Valuation(obs, item, s, 0))
         /\ Valuation(obs, item, s, 0).source # "bid" =>
              \A a \in Usable(obs, item) :
                obs[a].source = "ask" => Valuation(obs, item, s, 0).gross <= obs[a].gross
<1> DEFINE I == Usable(obs, item)
           J == Chosen(obs, I)
           source == obs[CHOOSE i \in J : TRUE].source
           gross == QuantilePrice(obs, J)
           venue == ExitVenue(obs, J)
           sale == Fee(s, venue, "sale", gross, 0)
           withdrawal == Fee(s, venue, "withdrawal", gross - sale, 0)
           haircut == ScaledUp(gross, Haircut[source])
           carry == CarryCost(gross, DaysToSale[source])
           costs == sale + withdrawal + haircut + carry
           found == [source |-> source, venue |-> venue, gross |-> gross, costs |-> costs,
                     net |-> Net(gross, costs), days |-> DaysToSale[source],
                     confidence |-> ConfidenceOf(source, EvidenceCount(obs, J))]
           v == Valuation(obs, item, s, 0)
<1>1. v = IF I = {} THEN Unvaluable ELSE found
  BY DEF Valuation
<1>2. CASE I = {}
  <2>1. v = Unvaluable
    BY <1>1, <1>2
  <2> HIDE DEF v
  <2>2. IsValuation(v)
    BY <2>1 DEF Unvaluable, IsValuation
  <2> QED
    BY <1>2, <2>2 DEF v, I
<1>3. CASE I # {}
  <2>1. v = found
    BY <1>1, <1>3
  <2>2. IsEvidence(obs, I)
    BY <1>3, UsableIsEvidence
  <2>3. I # {} => /\ FeeKnown(s, venue, "sale", gross, 0)
                  /\ FeeKnown(s, venue, "withdrawal", gross - sale, 0)
    BY DEF ExitFeesKnown
  <2>4. \A a \in I : obs[a].source = "ask" => a \in AtRung(obs, I, "ask")
    BY DEF AtRung
  <2> HIDE DEF I, v
  <2>5. /\ J \in SUBSET I /\ J # {} /\ \A i, j \in J : obs[i].source = obs[j].source
        /\ \A i \in J, a \in AtRung(obs, I, "ask") :
             obs[i].source # "bid" => gross <= obs[a].gross
    BY <2>2, ChosenIs
  <2> HIDE DEF J
  <2>6. PICK i \in J : source = obs[i].source
    BY <2>5
  <2> HIDE DEF source
  <2>7. PICK n \in DOMAIN Sources : Sources[n] = source
    BY <2>2, <2>5, <2>6 DEF IsEvidence
  <2>8. /\ Haircut[source] \in Int \X (Nat \ {0})
        /\ DaysToSale[source] \in Nat /\ Confidence[source] \in 1..3
    BY <2>7, ExitAssumption
  <2>9. gross \in Nat
    <3>1. IsFiniteSet(J) /\ \A j \in J : obs[j].gross \in Nat
      BY <2>2, <2>5, FS_Subset DEF IsEvidence
    <3>2. \E j \in J : QuantilePrice(obs, J) = obs[j].gross
      BY <2>5, <3>1, QuantileIs
    <3> QED
      BY <3>1, <3>2
  <2> HIDE DEF gross, venue
  <2>10. sale \in Nat
    BY <1>3, <2>3, <2>9, FeeType DEF I
  <2> HIDE DEF sale
  <2>11. withdrawal \in Nat
    <3>1. gross - sale \in Int
      BY <2>9, <2>10
    <3> QED
      BY <1>3, <2>3, <3>1, FeeType DEF I
  <2> HIDE DEF withdrawal
  <2>12. haircut \in Int /\ carry \in Nat
    <3>1. haircut \in Int
      BY <2>8, <2>9, ScaledType
    <3>2. carry \in Nat
      <4>1. gross <= gross
        BY <2>9
      <4> QED
        BY <2>8, <2>9, <4>1, CarryCostGrows
    <3> QED
      BY <3>1, <3>2
  <2> HIDE DEF haircut, carry
  <2>13. costs \in Int
    BY <2>10, <2>11, <2>12
  <2> HIDE DEF costs
  <2>14. Net(gross, costs) \in Nat
    <3> DEFINE S == {gross - costs, 0}
    <3>1. S \in SUBSET Int /\ S # {} /\ 0 \in S
      BY <2>9, <2>13
    <3>2. IsFiniteSet(S)
      BY PairFinite
    <3>3. Net(gross, costs) = Max(S)
      BY DEF Net
    <3> HIDE DEF S
    <3>4. Max(S) \in Int /\ 0 <= Max(S)
      BY <3>1, <3>2, MaxIs
    <3> QED
      BY <3>3, <3>4
  <2>15. ConfidenceOf(source, EvidenceCount(obs, J)) \in 0..3
    <3> DEFINE S == {Confidence[source] - 1, 1}
    <3>1. S \in SUBSET Int /\ S \subseteq 0..3 /\ S # {}
      BY <2>8
    <3>2. IsFiniteSet(S)
      BY PairFinite
    <3> HIDE DEF S
    <3>3. Max(S) \in 0..3
      BY <3>1, <3>2, MaxIs
    <3> QED
      BY <2>8, <3>3 DEF ConfidenceOf, S
  <2>16. /\ v.source = source /\ v.gross = gross /\ v.net = Net(gross, costs)
         /\ v.days = DaysToSale[source]
         /\ v.confidence = ConfidenceOf(source, EvidenceCount(obs, J))
    BY <2>1
  <2>17. IsValuation(v)
    BY <2>8, <2>9, <2>14, <2>15, <2>16 DEF IsValuation
  <2>18. v.source # "bid" => \A a \in I : obs[a].source = "ask" => v.gross <= obs[a].gross
    BY <2>4, <2>5, <2>6, <2>16 DEF gross
  <2> QED
    BY <2>17, <2>18 DEF v, I
<1> QED
  BY <1>2, <1>3

(* The cautious reading of a valuation is not above the plain one. *)
LEMMA LowerBoundIs ==
  ASSUME NEW v, IsValuation(v)
  PROVE  LowerBound(v) \in Nat /\ LowerBound(v) <= v.net
<1>1. Weight[v.confidence] \in Fraction /\ Weight[v.confidence][1] <= Weight[v.confidence][2]
  BY ExitAssumption DEF IsValuation
<1> QED
  BY <1>1, Scaling DEF IsValuation, LowerBound

-----------------------------------------------------------------------------
(* Expectations over the outcomes, and what a contract is charged. *)
LEMMA SharesPositive ==
  ASSUME NEW c, IsCandidate(c)
  PROVE  Shares(c) \in Nat \ {0}
<1> DEFINE f == [o \in DOMAIN c.outcomes |-> c.outcomes[o].share]
           D == DOMAIN c.outcomes
<1>1. IsFiniteSet(D) /\ D # {} /\ \A o \in D : f[o] \in Nat \ {0}
  BY DEF IsCandidate
<1> HIDE DEF f, D
<1>2. SumOver(D, f) \in Nat \ {0}
  BY <1>1, SumPositive
<1> QED
  BY <1>2 DEF Shares, f, D

LEMMA WeightedNat ==
  ASSUME NEW c, IsCandidate(c), NEW amounts, DOMAIN amounts = DOMAIN c.outcomes,
         \A o \in DOMAIN amounts : amounts[o] \in Nat
  PROVE  WeightedSum(c, amounts) \in Nat
<1> DEFINE D == DOMAIN amounts
           f == [o \in D |-> c.outcomes[o].share * amounts[o]]
<1>1. IsFiniteSet(D)
  BY DEF IsCandidate
<1>2. \A o \in D : f[o] \in Nat
  <2> TAKE o \in D
  <2>1. c.outcomes[o].share \in Nat /\ amounts[o] \in Nat
    BY DEF IsCandidate
  <2> QED
    BY <2>1, Product
<1>3. WeightedSum(c, amounts) = SumOver(D, f)
  BY DEF WeightedSum
<1> HIDE DEF f, D
<1> QED
  BY <1>1, <1>2, <1>3, SumNat

LEMMA WeightedMonotone ==
  ASSUME NEW c, IsCandidate(c), NEW a, NEW b,
         DOMAIN a = DOMAIN c.outcomes, DOMAIN b = DOMAIN c.outcomes,
         \A o \in DOMAIN a : a[o] \in Nat /\ b[o] \in Nat /\ a[o] <= b[o]
  PROVE  WeightedSum(c, a) <= WeightedSum(c, b)
<1> DEFINE D == DOMAIN c.outcomes
           f == [o \in D |-> c.outcomes[o].share * a[o]]
           g == [o \in D |-> c.outcomes[o].share * b[o]]
<1>1. IsFiniteSet(D)
  BY DEF IsCandidate
<1>2. \A o \in D : f[o] \in Int /\ g[o] \in Int /\ f[o] <= g[o]
  <2> TAKE o \in D
  <2> DEFINE share == c.outcomes[o].share
  <2>1. share \in Nat /\ a[o] \in Int /\ b[o] \in Int /\ a[o] <= b[o]
    BY DEF IsCandidate
  <2>2. f[o] = share * a[o] /\ g[o] = share * b[o]
    OBVIOUS
  <2> HIDE DEF share, f, g
  <2>3. share * a[o] <= share * b[o] /\ share * a[o] \in Int /\ share * b[o] \in Int
    BY <2>1, Monotone, SMT
  <2> QED
    BY <2>2, <2>3
<1>3. WeightedSum(c, a) = SumOver(D, f) /\ WeightedSum(c, b) = SumOver(D, g)
  BY DEF WeightedSum
<1> HIDE DEF f, g, D
<1> QED
  BY <1>1, <1>2, <1>3, SumMonotone

(* An expectation is rounded once, downwards. *)
LEMMA ExpectationIs ==
  ASSUME NEW c, IsCandidate(c), NEW amounts, DOMAIN amounts = DOMAIN c.outcomes,
         \A o \in DOMAIN amounts : amounts[o] \in Nat
  PROVE  /\ Expectation(c, amounts) \in Nat
         /\ Expectation(c, amounts) * Shares(c) <= WeightedSum(c, amounts)
<1> DEFINE x == WeightedSum(c, amounts)
           d == Shares(c)
<1>1. x \in Nat /\ d \in Nat \ {0}
  BY WeightedNat, SharesPositive
<1>2. Expectation(c, amounts) = RoundDown(x, d)
  BY DEF Expectation
<1> HIDE DEF x, d
<1>3. RoundDown(x, d) \in Int /\ d * RoundDown(x, d) <= x /\ 0 <= RoundDown(x, d)
  BY <1>1, Rounding
<1>4. RoundDown(x, d) * d = d * RoundDown(x, d)
  BY <1>1, <1>3, SMT
<1> QED
  BY <1>2, <1>3, <1>4 DEF x, d

LEMMA ExpectationMonotone ==
  ASSUME NEW c, IsCandidate(c), NEW a, NEW b,
         DOMAIN a = DOMAIN c.outcomes, DOMAIN b = DOMAIN c.outcomes,
         \A o \in DOMAIN a : a[o] \in Nat /\ b[o] \in Nat /\ a[o] <= b[o]
  PROVE  Expectation(c, a) <= Expectation(c, b)
<1>1. WeightedSum(c, a) \in Int /\ WeightedSum(c, b) \in Int
  BY WeightedNat
<1>2. WeightedSum(c, a) <= WeightedSum(c, b)
  BY WeightedMonotone
<1> QED
  BY <1>1, <1>2, SharesPositive, RoundDownMonotone DEF Expectation

LEMMA AcquisitionNat ==
  ASSUME NEW c, IsCandidate(c)
  PROVE  Acquisition(c) \in Nat
<1> DEFINE D == DOMAIN c.inputs
           f == [i \in D |-> c.inputs[i].cost]
<1>1. IsFiniteSet(D)
  <2>1. D = 1..Len(c.inputs) /\ Len(c.inputs) \in Nat
    BY DEF IsCandidate, IsBundle
  <2>2. IsFiniteSet(1..Len(c.inputs))
    BY <2>1, FS_Interval
  <2> QED
    BY <2>1, <2>2
<1>2. \A i \in D : f[i] \in Nat
  BY DEF IsCandidate, IsBundle, IsInput
<1>3. Acquisition(c) = SumOver(D, f)
  BY DEF Acquisition
<1> HIDE DEF D, f
<1> QED
  BY <1>1, <1>2, <1>3, SumNat

LEMMA TotalDaysNat ==
  ASSUME NEW c, IsCandidate(c), NEW values, DOMAIN values = DOMAIN c.outcomes,
         \A o \in DOMAIN values : IsValuation(values[o])
  PROVE  TotalDays(c, values) \in Nat
<1> DEFINE D == DOMAIN c.inputs
           locks == [i \in D |-> c.inputs[i].lock]
           S == {locks[i] : i \in D}
           days == [o \in DOMAIN values |-> values[o].days]
<1>1. IsFiniteSet(D) /\ 1 \in D
  <2>1. D = 1..Len(c.inputs) /\ Len(c.inputs) \in Nat \ {0}
    BY DEF IsCandidate, IsBundle
  <2>2. IsFiniteSet(1..Len(c.inputs))
    BY <2>1, FS_Interval
  <2> QED
    BY <2>1, <2>2
<1>2. \A i \in D : locks[i] \in Nat
  BY DEF IsCandidate, IsBundle, IsInput
<1>3. MaxOfInputs(locks) \in Nat
  <2>1. MaxOfInputs(locks) = Max(S)
    BY DEF MaxOfInputs
  <2> HIDE DEF locks, D
  <2>2. IsFiniteSet(S) /\ S \in SUBSET Int /\ S \subseteq Nat /\ S # {}
    BY <1>1, <1>2, ImageFinite
  <2> HIDE DEF S
  <2> QED
    BY <2>1, <2>2, MaxIs
<1>4. WeightedSum(c, days) \in Nat
  <2>1. DOMAIN days = DOMAIN c.outcomes /\ \A o \in DOMAIN days : days[o] \in Nat
    BY DEF IsValuation
  <2> HIDE DEF days
  <2> QED
    BY <2>1, WeightedNat
<1>5. TotalDays(c, values) = MaxOfInputs(locks) + FixedDays + RoundUp(WeightedSum(c, days), Shares(c))
  BY DEF TotalDays
<1> HIDE DEF locks, days
<1>6. RoundUp(WeightedSum(c, days), Shares(c)) \in Nat
  <2>1. Shares(c) \in Nat \ {0}
    BY SharesPositive
  <2> QED
    BY <1>4, <2>1, Rounding
<1> QED
  BY <1>3, <1>5, <1>6, EvaluationAssumption

(* Overheads are never negative and never less for a dearer contract. *)
LEMMA OverheadGrows ==
  ASSUME NEW a \in Nat, NEW b \in Nat, a <= b, NEW rate \in Fraction, NEW days \in Nat,
         NEW reserve \in Nat
  PROVE  /\ OverheadAt(a, rate, days, reserve) \in Nat /\ OverheadAt(b, rate, days, reserve) \in Nat
         /\ OverheadAt(a, rate, days, reserve) <= OverheadAt(b, rate, days, reserve)
<1>1. ScaledUp(a, rate) \in Nat /\ ScaledUp(b, rate) \in Nat
  BY Scaling
<1>2. ScaledUp(a, rate) <= ScaledUp(b, rate)
  BY ScaledUpGrows DEF Fraction
<1>3. CarryCost(a, days) \in Nat /\ CarryCost(b, days) \in Nat /\ CarryCost(a, days) <= CarryCost(b, days)
  BY CarryCostGrows
<1>4. OperationalCost \in Nat
  BY EvaluationAssumption
<1> QED
  BY <1>1, <1>2, <1>3, <1>4 DEF OverheadAt

NetsOf(values) == [o \in DOMAIN values |-> values[o].net]

(* What the figures of an evaluation are to each other and to what they    *)
(* are made of.                                                            *)
IsEvaluation(c, values, rate, e) ==
  /\ e.acquisition \in Nat /\ e.overhead \in Nat /\ e.reserve \in Nat /\ e.days \in Nat
  /\ e.expected \in Nat /\ e.orphan \in Nat /\ e.worst \in Int
  /\ e.ev = e.expected - e.acquisition - e.overhead
  /\ e.overhead = OverheadAt(e.acquisition, rate, e.days, e.reserve)
  /\ e.expected * Shares(c) <= WeightedSum(c, NetsOf(values))
  /\ e.lowerBound <= e.ev
  /\ \A o \in DOMAIN values : e.worst <= values[o].net - e.acquisition - e.overhead
  /\ \A k \in DOMAIN PurchaseSequence(c.inputs) : LossAt(PurchaseSequence(c.inputs), k) <= e.orphan

LEMMA EvaluateIs ==
  ASSUME NEW c, IsCandidate(c), NEW values, DOMAIN values = DOMAIN c.outcomes,
         \A o \in DOMAIN values : IsValuation(values[o]), NEW rate \in Fraction
  PROVE  IsEvaluation(c, values, rate, Evaluate(c, values, rate))
<1> DEFINE e == Evaluate(c, values, rate)
           order == PurchaseSequence(c.inputs)
           spend == Acquisition(c)
           days == TotalDays(c, values)
           reserve == ExpectedLoss(order)
           overhead == OverheadAt(spend, rate, days, reserve)
           nets == NetsOf(values)
           bounds == [o \in DOMAIN values |-> LowerBound(values[o])]
           expected == Expectation(c, nets)
           cautious == Expectation(c, bounds)
           N == {nets[o] : o \in DOMAIN nets}
<1>1. /\ e.acquisition = spend /\ e.overhead = overhead /\ e.reserve = reserve /\ e.days = days
      /\ e.expected = expected /\ e.ev = expected - spend - overhead
      /\ e.lowerBound = cautious - spend - overhead /\ e.worst = Min(N) - spend - overhead
      /\ e.orphan = MaxExposure(order)
  BY DEF Evaluate, Assessment, NetsOf
<1>2. \A o \in DOMAIN values : nets[o] = values[o].net /\ nets[o] \in Nat
  BY DEF NetsOf, IsValuation
<1>3. \A o \in DOMAIN values : bounds[o] \in Nat /\ bounds[o] <= nets[o]
  BY <1>2, LowerBoundIs
<1>4. DOMAIN nets = DOMAIN c.outcomes /\ DOMAIN bounds = DOMAIN c.outcomes
  BY DEF NetsOf
<1> HIDE DEF e, nets, bounds
<1>5. expected \in Nat /\ cautious \in Nat /\ expected * Shares(c) <= WeightedSum(c, nets)
  BY <1>2, <1>3, <1>4, ExpectationIs
<1>6. cautious <= expected
  BY <1>2, <1>3, <1>4, ExpectationMonotone
<1>7. IsBundle(c.inputs) /\ order \in Arrangements(c.inputs)
  BY SequenceIs DEF IsCandidate
<1> HIDE DEF order
<1>8. /\ reserve \in Nat /\ MaxExposure(order) \in Nat
      /\ \A k \in DOMAIN order : LossAt(order, k) <= MaxExposure(order)
  BY <1>7, AssessmentFacts
<1>9. spend \in Nat /\ days \in Nat
  BY AcquisitionNat, TotalDaysNat
<1> HIDE DEF spend, days, reserve, expected, cautious
<1>10. overhead \in Nat
  <2>1. spend <= spend
    BY <1>9
  <2> QED
    BY <1>8, <1>9, <2>1, OverheadGrows
<1>11. Min(N) \in Int /\ \A o \in DOMAIN values : Min(N) <= nets[o]
  <2>1. IsFiniteSet(DOMAIN nets) /\ DOMAIN nets # {}
    BY <1>4 DEF IsCandidate
  <2>2. IsFiniteSet(N)
    BY <2>1, ImageFinite
  <2>3. N \in SUBSET Int /\ N # {} /\ \A o \in DOMAIN values : nets[o] \in N
    BY <1>2, <1>4, <2>1
  <2> HIDE DEF N
  <2> QED
    BY <2>2, <2>3, MinIs
<1> HIDE DEF N
<1>12. \A o \in DOMAIN values : Min(N) - spend - overhead <= values[o].net - spend - overhead
  <2> TAKE o \in DOMAIN values
  <2>1. Min(N) <= values[o].net /\ values[o].net \in Int
    BY <1>2, <1>11
  <2> QED
    BY <1>9, <1>10, <1>11, <2>1
<1>13. /\ expected - spend - overhead \in Int /\ Min(N) - spend - overhead \in Int
       /\ cautious - spend - overhead <= expected - spend - overhead
  BY <1>5, <1>6, <1>9, <1>10, <1>11
<1>14. e.overhead = OverheadAt(e.acquisition, rate, e.days, e.reserve)
  BY <1>1
<1> HIDE DEF overhead
<1>15. \A o \in DOMAIN values : e.worst <= values[o].net - e.acquisition - e.overhead
  BY <1>1, <1>12
<1>16. \A k \in DOMAIN order : LossAt(order, k) <= e.orphan
  BY <1>1, <1>8
<1>17. /\ e.acquisition \in Nat /\ e.overhead \in Nat /\ e.reserve \in Nat /\ e.days \in Nat
       /\ e.expected \in Nat /\ e.orphan \in Nat /\ e.worst \in Int
       /\ e.ev = e.expected - e.acquisition - e.overhead /\ e.lowerBound <= e.ev
  BY <1>1, <1>5, <1>8, <1>9, <1>10, <1>13
<1>18. e.expected * Shares(c) <= WeightedSum(c, nets)
  BY <1>1, <1>5
<1> QED
  BY <1>14, <1>15, <1>16, <1>17, <1>18 DEF IsEvaluation, e, nets, order

(* What the rail charges is a share that is not negative. *)
LEMMA ConversionType ==
  ASSUME NEW quote, IsQuote(quote), NEW amount \in Int
  PROVE  /\ CostInCrypto(quote, amount) \in Int /\ ProceedsInCrypto(quote, amount) \in Int
         /\ CostInFiat(quote, amount) \in Int /\ ProceedsInFiat(quote, amount) \in Int
<1> DEFINE p == quote.rate[1]
           q == quote.rate[2]
<1>1. p \in Nat \ {0} /\ q \in Nat \ {0}
  BY DEF IsQuote
<1>2. /\ CostInCrypto(quote, amount) = RoundUp(amount * q, p)
      /\ ProceedsInCrypto(quote, amount) = RoundDown(amount * q, p)
      /\ CostInFiat(quote, amount) = RoundUp(amount * p, q)
      /\ ProceedsInFiat(quote, amount) = RoundDown(amount * p, q)
  BY DEF CostInCrypto, ProceedsInCrypto, CostInFiat, ProceedsInFiat
<1> HIDE DEF p, q
<1>3. amount * p \in Int /\ amount * q \in Int
  BY <1>1
<1> QED
  BY <1>1, <1>2, <1>3, Rounding

LEMMA DragType ==
  ASSUME NEW s, IsSchedule(s), NEW capital \in Int, NEW quote, IsQuote(quote),
         Plannable(s, capital, quote)
  PROVE  Drag(s, capital, quote) \in Int
<1> DEFINE sent == Sent(s, capital, quote)
           returned == Returned(s, capital, quote)
           outlay == Outlay(s, capital, quote)
           received == Received(s, capital, quote)
<1>1. \A op \in {"deposit", "conversion", "withdrawal"} : OnRail(s, op, capital) \in Int
  BY FeeType DEF Plannable, OnRail
<1>2. sent \in Int
  <2> DEFINE amount == capital + OnRail(s, "deposit", capital) + OnRail(s, "conversion", capital)
  <2>1. amount \in Int
    BY <1>1
  <2>2. sent = CostInCrypto(quote, amount)
    BY DEF Sent
  <2> HIDE DEF amount
  <2> QED
    BY <2>1, <2>2, ConversionType
<1>3. returned \in Int
  <2> DEFINE amount == capital - OnRail(s, "withdrawal", capital) - OnRail(s, "conversion", capital)
  <2>1. amount \in Int
    BY <1>1
  <2>2. returned = ProceedsInCrypto(quote, amount)
    BY DEF Returned
  <2> HIDE DEF amount
  <2> QED
    BY <2>1, <2>2, ConversionType
<1>4. NetworkFee(s, sent) \in Int /\ NetworkFee(s, returned) \in Int
  <2>1. FeeKnown(s, Network, "transfer", sent, 0) /\ FeeKnown(s, Network, "transfer", returned, 0)
    BY DEF Plannable
  <2> HIDE DEF sent, returned
  <2> QED
    BY <1>2, <1>3, <2>1, FeeType DEF NetworkFee
<1>5. outlay \in Int /\ received \in Int
  BY <1>2, <1>3, <1>4 DEF Outlay, Received
<1> HIDE DEF sent, returned, outlay, received
<1>6. AfterHaircut(received) \in Int
  <2> DEFINE r == <<VolatilityHaircut[2] - VolatilityHaircut[1], VolatilityHaircut[2]>>
  <2>1. r \in Int \X (Nat \ {0})
    BY SettlementAssumption DEF Fraction
  <2> HIDE DEF r
  <2>2. ScaledDown(received, r) \in Int
    BY <1>5, <2>1, ScaledType
  <2> QED
    BY <2>2 DEF AfterHaircut, r
<1>7. CostInFiat(quote, outlay) \in Int /\ ProceedsInFiat(quote, AfterHaircut(received)) \in Int
  BY <1>5, <1>6, ConversionType
<1> QED
  BY <1>7 DEF Drag, outlay, received

LEMMA RailRateIs ==
  ASSUME NEW s, IsSchedule(s), NEW capital \in Int, NEW quote, IsQuote(quote),
         Plannable(s, capital, quote), Drag(s, capital, quote) >= 0
  PROVE  ChargeRate(s, capital, quote) \in Fraction
<1>1. Drag(s, capital, quote) \in Nat
  BY DragType
<1>2. capital \in Nat \ {0}
  BY DEF Plannable
<1>3. capital * Contracts \in Nat \ {0}
  BY <1>2, SettlementAssumption, PositiveProduct
<1> QED
  BY <1>1, <1>3 DEF ChargeRate, Fraction

-----------------------------------------------------------------------------

(* One more than a quotient, multiplied back, is past the dividend. *)
LEMMA PastQuotient ==
  ASSUME NEW x \in Int, NEW n \in Nat \ {0}
  PROVE  /\ (x \div n) + 1 \in Int
         /\ n * ((x \div n) + 1) > x
  BY SMT

-----------------------------------------------------------------------------
(* The bounds of the loop: low clears and high does not. *)
Bracketed ==
  search.pc = "narrow" =>
    /\ search.low > 0 /\ search.low < search.high
    /\ Clears(search.low, search.headroom, search.target, search.rate)
    /\ ~Clears(search.high, search.headroom, search.target, search.rate)

(* What the loop leaves behind: the next unit does not clear. *)
Settled ==
  search.pc = "done" =>
    /\ search.low >= 0
    /\ search.low > 0 => Clears(search.low, search.headroom, search.target, search.rate)
    /\ ~Clears(search.low + 1, search.headroom, search.target, search.rate)

IInv == SearchTypeOK /\ Bracketed /\ Settled

(* More spend, no less overhead; and never a negative one. *)
LEMMA ProportionalGrows ==
  ASSUME NEW r \in Nat \X (Nat \ {0}), NEW a \in Int, NEW b \in Int, a <= b
  PROVE  /\ Proportional(a, r) \in Int /\ Proportional(b, r) \in Int
         /\ Proportional(a, r) <= Proportional(b, r)
         /\ 0 <= b => 0 <= Proportional(b, r)
  BY ScaledUpGrows DEF Proportional

(* A spend past one that fails the floor fails it too. *)
LEMMA FailsUpwards ==
  ASSUME NEW h \in Int, NEW t \in Ratios, NEW r \in Nat \X (Nat \ {0}),
         NEW a \in Int, NEW b \in Int, a <= b, ~Clears(a, h, t, r)
  PROVE  ~Clears(b, h, t, r)
<1> DEFINE n == t[1]
           d == t[2]
           room == h * t[2]
           oa == Proportional(a, r)
           ob == Proportional(b, r)
<1>1. n \in Nat /\ d \in Nat /\ room \in Int
  BY SMT DEF Ratios
<1>2. oa \in Int /\ ob \in Int /\ oa <= ob
  BY ProportionalGrows
<1>3. ~(n * a + d * oa <= room)
  BY DEF Clears
<1> HIDE DEF n, d, room, oa, ob
<1>4. n * a <= n * b /\ n * a \in Int /\ n * b \in Int
  BY <1>1, Monotone, SMT
<1>5. d * oa <= d * ob /\ d * oa \in Int /\ d * ob \in Int
  BY <1>1, <1>2, Monotone, SMT
<1>6. ~(n * b + d * ob <= room)
  BY <1>1, <1>3, <1>4, <1>5, SMT
<1> QED
  BY <1>6 DEF Clears, n, d, room, ob

(* The loop starts from a bound that fails, before any overhead. *)
LEMMA SeedFails ==
  ASSUME NEW h \in Int, h > 0, NEW t \in Ratios, NEW r \in Nat \X (Nat \ {0})
  PROVE  Seed(h, t) \in Int /\ ~Clears(Seed(h, t), h, t, r)
<1> DEFINE n == t[1]
           d == t[2]
           room == h * t[2]
           seed == Seed(h, t)
           over == Proportional(seed, r)
<1>1. n \in Nat \ {0} /\ d \in Nat \ {0} /\ room \in Int
  BY SMT DEF Ratios
<1>2. room >= 0
  BY <1>1, SMT
<1>3. seed = (room \div n) + 1
  BY DEF Seed
<1> HIDE DEF room, n, d
<1>4. seed \in Int /\ n * seed > room
  BY <1>1, <1>3, PastQuotient
<1> HIDE DEF seed
<1>5. seed >= 0
  <2> SUFFICES ASSUME seed <= 0 PROVE FALSE
    BY <1>4, SMT
  <2>1. n * seed <= n * 0 /\ n * seed \in Int
    BY <1>1, <1>4, Monotone, SMT
  <2> QED
    BY <1>1, <1>2, <1>4, <2>1, SMT
<1>6. over \in Int /\ over >= 0
  BY <1>4, <1>5, ProportionalGrows
<1> HIDE DEF over
<1>7. d * over >= 0 /\ d * over \in Int /\ n * seed \in Int
  <2>1. d * 0 <= d * over
    BY <1>1, <1>6, Monotone, SMT
  <2> QED
    BY <1>1, <1>4, <1>6, <2>1, SMT
<1>8. ~(n * seed + d * over <= room)
  BY <1>1, <1>4, <1>7, SMT
<1> QED
  BY <1>4, <1>8 DEF Clears, n, d, room, seed, over

LEMMA InitEstablishes == SearchInit => IInv
  BY DEF SearchInit, NoSearch, IInv, SearchTypeOK, Searches, Ratios, Bracketed, Settled

(* A call starts bracketed, or answers zero because one unit fails. *)
LEMMA BeginPreserves ==
  ASSUME NEW h \in Int, NEW t \in Ratios, NEW r \in Nat \X (Nat \ {0}), Begin(h, t, r)
  PROVE  IInv'
<1>1. h \in Int /\ t \in Ratios /\ r \in Nat \X (Nat \ {0})
  OBVIOUS
<1>2. CASE h > 0 /\ Clears(1, h, t, r)
  <2> DEFINE seed == Seed(h, t)
  <2>1. search' = [pc |-> "narrow", headroom |-> h, target |-> t, rate |-> r, low |-> 1, high |-> seed]
    BY <1>2 DEF Begin
  <2>2. seed \in Int /\ ~Clears(seed, h, t, r)
    BY <1>1, <1>2, SeedFails
  <2> HIDE DEF seed
  <2>3. 1 < seed
    <3>1. SUFFICES ASSUME seed <= 1 PROVE FALSE
      BY <2>2, SMT
    <3>2. ~Clears(1, h, t, r)
      BY <1>1, <2>2, <3>1, FailsUpwards
    <3> QED
      BY <1>2, <3>2
  <2>4. SearchTypeOK'
    BY <1>1, <2>1, <2>2 DEF SearchTypeOK, Searches
  <2>5. Bracketed'
    BY <1>2, <2>1, <2>2, <2>3 DEF Bracketed
  <2> QED
    BY <2>1, <2>4, <2>5 DEF IInv, Settled
<1>3. CASE ~(h > 0 /\ Clears(1, h, t, r))
  <2>1. search' = [pc |-> "done", headroom |-> h, target |-> t, rate |-> r, low |-> 0, high |-> 1]
    BY <1>3 DEF Begin
  <2>2. ~Clears(1, h, t, r)
    <3>1. CASE h > 0
      BY <1>3, <3>1
    <3>2. CASE ~(h > 0)
      <4> DEFINE n == t[1]
                 d == t[2]
                 over == Proportional(1, r)
      <4>1. n \in Nat \ {0} /\ d \in Nat
        BY <1>1 DEF Ratios
      <4>2. over \in Int /\ over >= 0
        BY <1>1, ProportionalGrows, SMT
      <4> HIDE DEF over
      <4>3. d * h <= d * 0 /\ d * h \in Int /\ d * 0 <= d * over /\ d * over \in Int
        BY <1>1, <3>2, <4>1, <4>2, Monotone, SMT
      <4>4. h * d <= 0 /\ h * d \in Int /\ d * over >= 0
        BY <1>1, <4>1, <4>3, SMT
      <4>5. ~(n * 1 + d * over <= h * d)
        BY <4>1, <4>3, <4>4, SMT
      <4> QED
        BY <4>5 DEF Clears, over
    <3> QED
      BY <3>1, <3>2
  <2>3. SearchTypeOK'
    BY <1>1, <2>1 DEF SearchTypeOK, Searches
  <2> QED
    BY <2>1, <2>2, <2>3 DEF IInv, Bracketed, Settled
<1> QED
  BY <1>2, <1>3

(* Halving keeps the bracket: the middle lies strictly inside it. *)
LEMMA NarrowPreserves ==
  ASSUME IInv, Narrow
  PROVE  IInv'
<1> DEFINE middle == Middle
           h == search.headroom
           t == search.target
           r == search.rate
<1>1. /\ search.low \in Int /\ search.high \in Int /\ h \in Int
      /\ t \in Ratios /\ r \in Nat \X (Nat \ {0})
  BY DEF IInv, SearchTypeOK, Searches
<1>2. middle \in Int /\ search.low < middle /\ middle < search.high
  BY <1>1, SMT DEF Narrow, Middle
<1> HIDE DEF middle
<1>3. search' = Halved(search, middle)
  BY DEF Narrow, middle
<1>4. /\ search.low > 0 /\ search.low < search.high
      /\ Clears(search.low, h, t, r) /\ ~Clears(search.high, h, t, r)
  BY DEF IInv, Bracketed, Narrow
<1>5. CASE Clears(middle, h, t, r)
  <2>1. search' = [search EXCEPT !.low = middle]
    BY <1>3, <1>5 DEF Halved
  <2>2. SearchTypeOK' /\ search'.pc = "narrow" /\ search'.low = middle
        /\ search'.high = search.high /\ search'.headroom = h /\ search'.target = t /\ search'.rate = r
    BY <1>2, <2>1 DEF IInv, SearchTypeOK, Searches, Narrow
  <2>3. Bracketed'
    BY <1>1, <1>2, <1>4, <1>5, <2>2, SMT DEF Bracketed
  <2> QED
    BY <2>2, <2>3 DEF IInv, Settled
<1>6. CASE ~Clears(middle, h, t, r)
  <2>1. search' = [search EXCEPT !.high = middle]
    BY <1>3, <1>6 DEF Halved
  <2>2. SearchTypeOK' /\ search'.pc = "narrow" /\ search'.low = search.low
        /\ search'.high = middle /\ search'.headroom = h /\ search'.target = t /\ search'.rate = r
    BY <1>2, <2>1 DEF IInv, SearchTypeOK, Searches, Narrow
  <2>3. Bracketed'
    BY <1>1, <1>2, <1>4, <1>6, <2>2 DEF Bracketed
  <2> QED
    BY <2>2, <2>3 DEF IInv, Settled
<1> QED
  BY <1>5, <1>6

(* When the bounds meet, the upper one is the next unit. *)
LEMMA ReturnPreserves ==
  ASSUME IInv, Return
  PROVE  IInv'
<1>1. /\ search.low \in Int /\ search.high \in Int
      /\ search.low > 0 /\ search.low < search.high
      /\ Clears(search.low, search.headroom, search.target, search.rate)
      /\ ~Clears(search.high, search.headroom, search.target, search.rate)
  BY DEF IInv, SearchTypeOK, Searches, Bracketed, Return
<1>2. search.high = search.low + 1
  BY <1>1, SMT DEF Return
<1>3. SearchTypeOK' /\ search'.pc = "done" /\ search'.low = search.low
      /\ search'.headroom = search.headroom /\ search'.target = search.target
      /\ search'.rate = search.rate
  BY DEF IInv, SearchTypeOK, Searches, Return
<1> QED
  BY <1>1, <1>2, <1>3 DEF IInv, Bracketed, Settled

(* Between two calls nothing is held. *)
LEMMA TakenPreserves == Taken => IInv'
  BY DEF Taken, NoSearch, IInv, SearchTypeOK, Searches, Ratios, Bracketed, Settled

LEMMA StepPreserves == IInv /\ [SearchNext]_search => IInv'
<1> SUFFICES ASSUME IInv, [SearchNext]_search PROVE IInv'
  OBVIOUS
<1>1. CASE \E h \in Headrooms, t \in Targets, r \in Rates : Begin(h, t, r)
  <2>1. PICK h \in Headrooms, t \in Targets, r \in Rates : Begin(h, t, r)
    BY <1>1
  <2> QED
    BY <2>1, EntryAssumption, BeginPreserves
<1>2. CASE Narrow
  BY <1>2, NarrowPreserves
<1>3. CASE Return
  BY <1>3, ReturnPreserves
<1>4. CASE Taken
  BY <1>4, TakenPreserves
<1>5. CASE UNCHANGED search
  BY <1>5 DEF IInv, SearchTypeOK, Bracketed, Settled
<1> QED
  BY <1>1, <1>2, <1>3, <1>4, <1>5 DEF SearchNext

(* The bracket implies the answer. *)
LEMMA SettledIsExact == IInv => CapIsExact
<1> SUFFICES ASSUME IInv, search.pc = "done",
                    NEW spend \in (search.low + 1)..Seed(search.headroom, search.target)
             PROVE  ~Clears(spend, search.headroom, search.target, search.rate)
  BY DEF CapIsExact, IInv, Settled
<1>1. /\ search.headroom \in Int /\ search.low \in Int
      /\ search.target \in Ratios /\ search.rate \in Nat \X (Nat \ {0})
  BY DEF IInv, SearchTypeOK, Searches
<1>2. Seed(search.headroom, search.target) \in Int
  BY <1>1, PastQuotient, SMT DEF Ratios, Seed
<1>3. spend \in Int /\ search.low + 1 \in Int /\ search.low + 1 <= spend
  BY <1>1, <1>2, SMT
<1>4. ~Clears(search.low + 1, search.headroom, search.target, search.rate)
  BY DEF IInv, Settled
<1> QED
  BY <1>1, <1>3, <1>4, FailsUpwards

(* The state of a search is what the code's variables can hold. *)
THEOREM TypeCorrect == SearchSpec => []SearchTypeOK
<1>1. IInv => SearchTypeOK
  BY DEF IInv
<1> QED
  BY <1>1, InitEstablishes, StepPreserves, PTL DEF SearchSpec

(* Every returned cap clears its floor, and nothing above it does. *)
THEOREM CapExact == SearchSpec => []CapIsExact
  BY SettledIsExact, InitEstablishes, StepPreserves, PTL DEF SearchSpec

-----------------------------------------------------------------------------
Judging == {"reserve", "requery", "assess", "search"}

(* What is known of the deal at each stage of its appraisal: whose it is,  *)
(* that every figure is the one computed from what came before, and, once  *)
(* the final gate has spoken, that the reasons are what it said.           *)
DealInv ==
  /\ stage \in {"idle", "rail", "value", "screen", "refused", "asked"} \cup Judging
  /\ stage \notin {"idle", "asked"} => "candidate" \in DOMAIN deal /\ deal.candidate \in Candidate
  /\ stage \in {"rail", "value", "screen"} \cup Judging =>
       /\ {"schedule", "rate", "answers"} \subseteq DOMAIN deal
       /\ deal.schedule \in Schedule /\ deal.rate \in Fraction
  /\ stage \in {"screen"} \cup Judging =>
       /\ "values" \in DOMAIN deal
       /\ ExitsKnown(deal.candidate, deal.schedule)
       /\ deal.values = ValuesOf(deal.candidate, deal.schedule)
  /\ stage \in Judging =>
       /\ {"evaluation", "stage", "reasons"} \subseteq DOMAIN deal
       /\ deal.evaluation = Evaluate(deal.candidate, deal.values, deal.rate)
  /\ stage \in {"reserve", "requery"} => deal.stage = "discovery"
  /\ stage = "requery" => "reserved" \in DOMAIN deal
  /\ (stage \in Judging /\ deal.stage = "operator_card") =>
       deal.reasons = CardReasons(deal.candidate, deal.evaluation, deal.answers, deal.reserved)

Floor == <<Limits.finalRoi[1] + Limits.finalRoi[2], Limits.finalRoi[2]>>

(* The search under way is the one for this deal. *)
SearchInv ==
  /\ IInv
  /\ stage = "search" =>
       /\ search.pc # "idle"
       /\ search.headroom = Headroom(deal.evaluation)
       /\ search.target = Floor /\ search.rate = <<0, 1>>
       /\ deal.evaluation.acquisition >= 1

Taking == [lead: Lead, ceiling: Int]
Cells == {Nothing} \cup [status: {"exact"}, ceiling: Int, evidence: {"exact"}]
Verdicts == [status: {"STILL_VALID", "CEILING_DECAYED", "LEAD_UNPRICEABLE"},
             ceiling: Int, evidence: {"exact", "sweep", "none"}]

WatchTypeOK ==
  /\ orders \in Seq(Order) /\ board \in SUBSET Prospect /\ measures \in Seq(Taking)
  /\ pc \in {"measure", "judge", "done", "raised"} /\ pos \in Nat \ {0}
  /\ ceilings \in [Key -> Cells] /\ verdicts \in Seq(Verdicts)
  /\ pc = "measure" => verdicts = << >>
  /\ pc = "judge" => Len(verdicts) = pos - 1
  /\ Len(verdicts) <= Len(orders)

(* Each measurement that was read bounds the ceiling filed for its key. *)
CeilingsBound ==
  \A i \in DOMAIN measures : pc # "measure" \/ i < pos =>
    /\ ceilings[KeyOf(measures[i].lead)] # Nothing
    /\ ceilings[KeyOf(measures[i].lead)].ceiling <= measures[i].ceiling

Conclusion == [lead: Lead, cap: Nat, inputs: Nat]

(* Each conclusion that has a cap stands among the measurements. *)
CapsMeasured ==
  /\ appraised \in Seq(Conclusion)
  /\ \A k \in DOMAIN appraised :
       \/ appraised[k].inputs = 0 /\ appraised[k].cap = 0
       \/ \E i \in DOMAIN measures :
            /\ measures[i].lead = appraised[k].lead
            /\ appraised[k].inputs * measures[i].ceiling <= appraised[k].cap

WatchInv == WatchTypeOK /\ CeilingsBound /\ ExactEvidenceWins /\ CapsMeasured

(* No lead is under appraisal once the review has begun. *)
ConfirmedFirst == stage \notin {"idle", "asked"} => Confirming

ReviewInv == ConfirmedFirst /\ DealInv /\ SearchInv /\ WatchInv

-----------------------------------------------------------------------------
LEMMA FloorIsRatio == Floor \in Ratios /\ <<0, 1>> \in Nat \X (Nat \ {0})
  BY AppraisalAssumption DEF Floor, Ratios

(* A bundle bought at the price per unit stays within the cap. *)
LEMMA PerUnitFits ==
  ASSUME NEW cap \in Int, NEW n \in Nat \ {0}
  PROVE  PerUnit(cap, n) \in Int /\ n * PerUnit(cap, n) <= cap
  BY SMT DEF PerUnit

LEMMA ReviewInitEstablishes == ReviewInit => ReviewInv
<1> SUFFICES ASSUME ReviewInit PROVE ReviewInv
  OBVIOUS
<1> USE DEF ReviewInit, AppraisalInit, Init
<1>1. DealInv
  BY DEF DealInv, Judging
<1>2. SearchInv
  BY InitEstablishes DEF SearchInv
<1>3. WatchTypeOK
  <2>1. orders \in Seq(Order) /\ board \in SUBSET Prospect /\ measures \in Seq(Measured)
    BY WatchAssumption
  <2>2. ASSUME NEW m \in Measured PROVE m \in Taking
    <3>1. Price \subseteq Int
      BY WatchAssumption
    <3> QED
      BY <3>1 DEF Measured, Taking
  <2>3. measures \in Seq(Taking)
    BY <2>1, <2>2
  <2>4. ceilings \in [Key -> Cells]
    BY DEF Cells
  <2> QED
    BY <2>1, <2>3, <2>4 DEF WatchTypeOK
<1>4. CeilingsBound /\ ExactEvidenceWins
  <2>1. \A i \in DOMAIN measures : ~(i < pos)
    BY <1>3 DEF WatchTypeOK
  <2> QED
    BY <2>1 DEF CeilingsBound, ExactEvidenceWins
<1>5. CapsMeasured /\ ConfirmedFirst
  BY DEF CapsMeasured, ConfirmedFirst
<1> QED
  BY <1>1, <1>2, <1>3, <1>4, <1>5 DEF ReviewInv, WatchInv

-----------------------------------------------------------------------------
(* The deal: what an appraisal has established when it goes on.            *)
LEMMA OpenKeepsDeal == DealInv /\ Start => DealInv'
<1> SUFFICES ASSUME DealInv, Start PROVE DealInv'
  OBVIOUS
<1>1. PICK c \in Candidate, s \in Schedule :
        deal' = [candidate |-> c, schedule |-> s, rate |-> <<0, 1>>, rail |-> {}, answers |-> << >>]
  BY DEF Start
<1>2. /\ {"candidate", "schedule", "rate", "answers"} \subseteq DOMAIN deal'
      /\ deal'.candidate \in Candidate /\ deal'.schedule \in Schedule /\ deal'.rate = <<0, 1>>
  BY <1>1
<1>3. <<0, 1>> \in Fraction
  BY DEF Fraction
<1>4. stage' = "rail"
  BY DEF Start
<1> QED
  BY <1>2, <1>3, <1>4 DEF DealInv, Judging

LEMMA PlanKeepsDeal == DealInv /\ (NoRail \/ PlanRail) => DealInv'
<1> SUFFICES ASSUME DealInv, NoRail \/ PlanRail PROVE DealInv'
  OBVIOUS
<1>1. CASE NoRail
  BY <1>1 DEF DealInv, NoRail, Judging
<1>2. CASE PlanRail
  <2>1. PICK capital \in Capital, quote \in Quote :
          IF Plannable(deal.schedule, capital, quote) /\ Drag(deal.schedule, capital, quote) >= 0
          THEN /\ deal' = [deal EXCEPT !.rate = ChargeRate(deal.schedule, capital, quote),
                             !.rail = {<<capital, Drag(deal.schedule, capital, quote)>>}]
               /\ stage' = "value"
          ELSE stage' = "refused" /\ UNCHANGED deal
    BY <1>2 DEF PlanRail
  <2>2. CASE stage' = "refused" /\ UNCHANGED deal
    BY <1>2, <2>2 DEF DealInv, PlanRail, Judging
  <2>3. CASE /\ Plannable(deal.schedule, capital, quote) /\ Drag(deal.schedule, capital, quote) >= 0
             /\ deal' = [deal EXCEPT !.rate = ChargeRate(deal.schedule, capital, quote),
                           !.rail = {<<capital, Drag(deal.schedule, capital, quote)>>}]
             /\ stage' = "value"
    <3>1. stage = "rail" /\ {"rate", "schedule", "candidate", "answers"} \subseteq DOMAIN deal
          /\ deal.candidate \in Candidate /\ deal.schedule \in Schedule
      BY <1>2 DEF DealInv, PlanRail
    <3>2. ChargeRate(deal.schedule, capital, quote) \in Fraction
      BY <2>3, <3>1, AppraisalAssumption, RailRateIs
    <3>3. /\ deal'.candidate = deal.candidate /\ DOMAIN deal' = DOMAIN deal
          /\ deal'.schedule = deal.schedule
          /\ deal'.rate = ChargeRate(deal.schedule, capital, quote)
      BY <2>3, <3>1
    <3> QED
      BY <2>3, <3>1, <3>2, <3>3 DEF DealInv, Judging
  <2> QED
    BY <2>1, <2>2, <2>3
<1> QED
  BY <1>1, <1>2

LEMMA ValueKeepsDeal == DealInv /\ Value => DealInv'
<1> SUFFICES ASSUME DealInv, Value PROVE DealInv'
  OBVIOUS
<1>1. CASE ~ExitsKnown(deal.candidate, deal.schedule)
  BY <1>1 DEF DealInv, Value, Judging
<1>2. CASE ExitsKnown(deal.candidate, deal.schedule)
  <2>1. /\ deal' = Noted([values |-> ValuesOf(deal.candidate, deal.schedule)])
        /\ stage' = "screen" /\ stage = "value"
    BY <1>2 DEF Value
  <2>2. /\ deal'.candidate = deal.candidate
        /\ {"candidate", "schedule", "rate", "answers", "values"} \subseteq DOMAIN deal'
        /\ deal'.schedule = deal.schedule /\ deal'.rate = deal.rate
        /\ deal'.values = ValuesOf(deal.candidate, deal.schedule)
    BY <2>1 DEF DealInv, Noted
  <2> QED
    BY <1>2, <2>1, <2>2 DEF DealInv, Judging
<1> QED
  BY <1>1, <1>2

LEMMA ScreenKeepsDeal == DealInv /\ Screen => DealInv'
<1> SUFFICES ASSUME DealInv, Screen PROVE DealInv'
  OBVIOUS
<1> DEFINE e == Evaluate(deal.candidate, deal.values, deal.rate)
           reasons == DiscoveryReasons(deal.candidate, e)
<1>1. /\ deal' = Noted([evaluation |-> e, stage |-> "discovery", reasons |-> reasons])
      /\ stage' \in {"reserve", "assess"} /\ stage = "screen"
  BY DEF Screen
<1>2. deal' = Noted([evaluation |-> e, stage |-> "discovery", reasons |-> reasons])
  BY <1>1
<1> HIDE DEF reasons
<1>3. /\ deal'.candidate = deal.candidate /\ deal'.schedule = deal.schedule
      /\ deal'.rate = deal.rate /\ deal'.values = deal.values
      /\ {"candidate", "schedule", "rate", "answers", "values"} \subseteq DOMAIN deal'
  <2> HIDE DEF e
  <2> QED
    BY <1>1 DEF DealInv, Noted
<1>4. /\ deal'.evaluation = e /\ deal'.stage = "discovery"
      /\ {"evaluation", "stage", "reasons"} \subseteq DOMAIN deal'
  <2> HIDE DEF e
  <2> QED
    BY <1>1 DEF Noted
<1>5. deal'.evaluation = Evaluate(deal'.candidate, deal'.values, deal'.rate)
  BY <1>3, <1>4
<1> HIDE DEF e
<1> QED
  BY <1>1, <1>3, <1>4, <1>5 DEF DealInv, Judging

LEMMA ReserveKeepsDeal == DealInv /\ Reserve => DealInv'
<1> SUFFICES ASSUME DealInv, Reserve PROVE DealInv'
  OBVIOUS
<1>1. PICK reserved \in {{}, Ids(deal.candidate)} : deal' = Noted([reserved |-> reserved, next |-> 1])
  BY DEF Reserve
<1>2. stage = "reserve" /\ stage' = "requery"
  BY DEF Reserve
<1>3. /\ deal'.candidate = deal.candidate /\ deal'.schedule = deal.schedule
      /\ deal'.rate = deal.rate /\ deal'.values = deal.values
      /\ deal'.evaluation = deal.evaluation /\ deal'.stage = "discovery"
      /\ {"candidate", "schedule", "rate", "answers", "values", "evaluation", "stage", "reasons",
          "reserved"} \subseteq DOMAIN deal'
  BY <1>1, <1>2 DEF DealInv, Noted, Judging
<1> QED
  BY <1>2, <1>3 DEF DealInv, Judging

LEMMA RequeryKeepsDeal == DealInv /\ Requery => DealInv'
<1> SUFFICES ASSUME DealInv, Requery PROVE DealInv'
  OBVIOUS
<1>1. stage = "requery" /\ stage' = stage
  BY DEF Requery
<1>2. PICK answers : deal' = [deal EXCEPT !.answers = answers, !.next = @ + 1]
  BY DEF Requery
<1>3. /\ deal'.candidate = deal.candidate /\ deal'.schedule = deal.schedule
      /\ deal'.rate = deal.rate /\ deal'.values = deal.values
      /\ deal'.evaluation = deal.evaluation /\ deal'.stage = "discovery"
      /\ DOMAIN deal' = DOMAIN deal
  BY <1>1, <1>2 DEF DealInv, Judging
<1> QED
  BY <1>1, <1>3 DEF DealInv, Judging

LEMMA GateKeepsDeal == DealInv /\ Gate => DealInv'
<1> SUFFICES ASSUME DealInv, Gate PROVE DealInv'
  OBVIOUS
<1> DEFINE reasons == CardReasons(deal.candidate, deal.evaluation, deal.answers, deal.reserved)
<1>1. stage = "requery" /\ stage' = "assess"
      /\ deal' = [deal EXCEPT !.stage = "operator_card", !.reasons = reasons]
  BY DEF Gate
<1>2. {"candidate", "schedule", "rate", "values", "evaluation", "stage", "reasons",
       "answers", "reserved"} \subseteq DOMAIN deal
  BY <1>1 DEF DealInv, Judging
<1>3. /\ deal'.candidate = deal.candidate /\ deal'.schedule = deal.schedule
      /\ deal'.rate = deal.rate /\ deal'.values = deal.values /\ deal'.answers = deal.answers
      /\ deal'.evaluation = deal.evaluation /\ deal'.reserved = deal.reserved
      /\ deal'.reasons = reasons /\ DOMAIN deal' = DOMAIN deal
  <2> HIDE DEF reasons
  <2> QED
    BY <1>1, <1>2
<1>4. deal'.reasons = CardReasons(deal'.candidate, deal'.evaluation, deal'.answers, deal'.reserved)
  BY <1>3
<1> HIDE DEF reasons
<1> QED
  BY <1>1, <1>2, <1>3, <1>4 DEF DealInv, Judging

LEMMA OthersKeepDeal ==
  DealInv /\ (Assess \/ Search \/ Conclude \/ Refuse \/ AskSticker \/ AskCap \/ TakeCap
              \/ UNCHANGED <<stage, deal>>) => DealInv'
<1> SUFFICES ASSUME DealInv, Assess \/ Search \/ Conclude \/ Refuse \/ AskSticker \/ AskCap \/ TakeCap
                               \/ UNCHANGED <<stage, deal>>
             PROVE  DealInv'
  OBVIOUS
<1>1. CASE Assess
  BY <1>1 DEF DealInv, Assess, Judging
<1>2. CASE Conclude \/ Refuse \/ TakeCap
  BY <1>2 DEF DealInv, Conclude, Refuse, TakeCap, Judging
<1>3. CASE AskCap
  BY <1>3 DEF DealInv, AskCap, Judging
<1>4. CASE Search \/ AskSticker \/ UNCHANGED <<stage, deal>>
  BY <1>4 DEF DealInv, Search, AskSticker
<1> QED
  BY <1>1, <1>2, <1>3, <1>4

-----------------------------------------------------------------------------
(* What the deal's figures are, from the stage on at which they are there. *)
LEMMA ValuesAre ==
  ASSUME DealInv, Valued
  PROVE  /\ IsCandidate(deal.candidate) /\ DOMAIN deal.values = DOMAIN deal.candidate.outcomes
         /\ \A o \in DOMAIN deal.values : IsValuation(deal.values[o])
         /\ \A o \in DOMAIN deal.values : deal.values[o].source # "bid" =>
              \A a \in Usable(deal.candidate.obs, deal.candidate.outcomes[o].item) :
                deal.candidate.obs[a].source = "ask"
                  => deal.values[o].gross <= deal.candidate.obs[a].gross
<1> DEFINE c == deal.candidate
           s == deal.schedule
<1>1. /\ c \in Candidate /\ s \in Schedule /\ ExitsKnown(c, s) /\ deal.values = ValuesOf(c, s)
  BY DEF DealInv, Valued, Judging
<1>2. IsCandidate(c) /\ IsSchedule(s)
  BY <1>1, AppraisalAssumption
<1> HIDE DEF c, s
<1>3. IsFiniteSet(DOMAIN c.obs) /\ \A i \in DOMAIN c.obs : IsObservation(c.obs[i])
  BY <1>2 DEF IsCandidate
<1>4. DOMAIN deal.values = DOMAIN c.outcomes
      /\ \A o \in DOMAIN c.outcomes : deal.values[o] = Valuation(c.obs, c.outcomes[o].item, s, 0)
  BY <1>1 DEF ValuesOf
<1>5. \A o \in DOMAIN c.outcomes : ExitFeesKnown(c.obs, c.outcomes[o].item, s, 0)
  BY <1>1 DEF ExitsKnown
<1>6. ASSUME NEW o \in DOMAIN c.outcomes
      PROVE  /\ IsValuation(deal.values[o])
             /\ deal.values[o].source # "bid" =>
                  \A a \in Usable(c.obs, c.outcomes[o].item) :
                    c.obs[a].source = "ask" => deal.values[o].gross <= c.obs[a].gross
  <2> DEFINE item == c.outcomes[o].item
  <2>1. ExitFeesKnown(c.obs, item, s, 0) /\ deal.values[o] = Valuation(c.obs, item, s, 0)
    BY <1>4, <1>5, <1>6
  <2> HIDE DEF item
  <2>2. /\ IsValuation(Valuation(c.obs, item, s, 0))
        /\ Valuation(c.obs, item, s, 0).source # "bid" =>
              \A a \in Usable(c.obs, item) :
                c.obs[a].source = "ask" => Valuation(c.obs, item, s, 0).gross <= c.obs[a].gross
    BY <1>2, <1>3, <2>1, ValuationIs
  <2> QED
    BY <2>1, <2>2 DEF item
<1> QED
  BY <1>2, <1>4, <1>6 DEF c

LEMMA FiguresAre ==
  ASSUME DealInv, Evaluated
  PROVE  /\ IsEvaluation(deal.candidate, deal.values, deal.rate, deal.evaluation)
         /\ deal.rate \in Fraction
<1>1. Valued /\ deal.rate \in Fraction
      /\ deal.evaluation = Evaluate(deal.candidate, deal.values, deal.rate)
  BY DEF DealInv, Evaluated, Valued, Judging
<1> QED
  BY <1>1, ValuesAre, EvaluateIs

-----------------------------------------------------------------------------
(* The search: it is begun from the deal and is taken when it is done.     *)
LEMMA AssessKeepsSearch == DealInv /\ SearchInv /\ Assess => SearchInv'
<1> SUFFICES ASSUME DealInv, SearchInv, Assess PROVE SearchInv'
  OBVIOUS
<1>1. UNCHANGED deal /\ stage = "assess" /\ Evaluated
  BY DEF Assess, Evaluated, Valued
<1>2. Headroom(deal.evaluation) \in Int
  BY <1>1, FiguresAre DEF IsEvaluation, Headroom
<1>3. CASE deal.evaluation.acquisition >= 1
  <2>1. Begin(Headroom(deal.evaluation), Floor, <<0, 1>>)
    BY <1>3 DEF Assess, Floor
  <2>2. IInv'
    BY <1>2, <2>1, FloorIsRatio, BeginPreserves
  <2>3. /\ search'.pc # "idle" /\ search'.headroom = Headroom(deal.evaluation)
        /\ search'.target = Floor /\ search'.rate = <<0, 1>>
    BY <2>1 DEF Begin
  <2>4. deal'.evaluation = deal.evaluation /\ Headroom(deal.evaluation)' = Headroom(deal.evaluation)
    BY <1>1 DEF Headroom
  <2> QED
    BY <1>3, <2>2, <2>3, <2>4 DEF SearchInv, Floor
<1>4. CASE ~(deal.evaluation.acquisition >= 1)
  BY <1>4 DEF SearchInv, Assess, IInv, SearchTypeOK, Bracketed, Settled
<1> QED
  BY <1>3, <1>4

LEMMA SearchingKeepsSearch == SearchInv /\ Search => SearchInv'
<1> SUFFICES ASSUME SearchInv, Search PROVE SearchInv'
  OBVIOUS
<1>1. IInv'
  BY NarrowPreserves, ReturnPreserves DEF SearchInv, Search
<1>2. /\ search'.headroom = search.headroom /\ search'.target = search.target
      /\ search'.rate = search.rate /\ search'.pc # "idle"
  BY DEF SearchInv, IInv, SearchTypeOK, Searches, Search, Narrow, Halved, Return
<1>3. stage' = stage /\ deal' = deal
  BY DEF Search
<1> QED
  BY <1>1, <1>2, <1>3 DEF SearchInv, Headroom, Floor

LEMMA OthersKeepSearch ==
  ASSUME SearchInv, DealInv,
         NoRail \/ PlanRail \/ Value \/ Screen \/ Reserve \/ Requery \/ Gate \/ Start
           \/ Conclude \/ Refuse \/ AskSticker \/ AskCap \/ TakeCap
           \/ UNCHANGED <<stage, deal, search>>
  PROVE  SearchInv'
<1>1. CASE /\ NoRail \/ PlanRail \/ Value \/ Screen \/ Reserve \/ Requery \/ Gate \/ Start
                \/ Refuse \/ AskSticker
  <2>1. stage' # "search" /\ search' = search
    BY <1>1 DEF NoRail, PlanRail, Value, Screen, Reserve, Requery, Gate, Start, Refuse, AskSticker
  <2> QED
    BY <2>1 DEF SearchInv, IInv, SearchTypeOK, Bracketed, Settled
<1>2. CASE Conclude \/ TakeCap
  <2>1. stage' # "search" /\ Taken
    BY <1>2 DEF Conclude, TakeCap
  <2> QED
    BY <2>1, TakenPreserves DEF SearchInv
<1>3. CASE AskCap
  <2>1. PICK h \in Headrooms, t \in Targets, r \in Rates : Begin(h, t, r)
    BY <1>3 DEF AskCap
  <2>2. IInv'
    BY <2>1, EntryAssumption, BeginPreserves
  <2> QED
    BY <1>3, <2>2 DEF SearchInv, AskCap
<1>4. CASE UNCHANGED <<stage, deal, search>>
  BY <1>4 DEF SearchInv, IInv, SearchTypeOK, Bracketed, Settled, Headroom, Floor
<1> QED
  BY <1>1, <1>2, <1>3, <1>4

-----------------------------------------------------------------------------
(* The review: what is measured and what is judged.                        *)
LEMMA StillWatching == WatchInv /\ UNCHANGED <<vars, appraised>> => WatchInv'
  BY DEF WatchInv, WatchTypeOK, CeilingsBound, ExactEvidenceWins, ExactOf, CapsMeasured, vars

LEMMA CandidatesHaveLeads ==
  ASSUME NEW c \in Candidate
  PROVE  c.lead \in Lead /\ KeyOf(c.lead) \in Key /\ Len(c.inputs) \in Nat \ {0}
<1>1. IsBundle(c.inputs)
  BY AppraisalAssumption DEF IsCandidate
<1> QED
  BY <1>1, ReviewAssumption DEF Lead, KeyOf, IsBundle

LEMMA RefuseKeepsWatch ==
  ASSUME WatchInv, DealInv, Refuse, UNCHANGED vars
  PROVE  WatchInv'
<1> DEFINE x == [lead |-> deal.candidate.lead, cap |-> 0, inputs |-> 0]
<1>1. x \in Conclusion /\ appraised' = Append(appraised, x)
  BY CandidatesHaveLeads DEF DealInv, Refuse, Conclusion
<1>2. appraised \in Seq(Conclusion)
  BY DEF WatchInv, CapsMeasured
<1>3. /\ appraised' \in Seq(Conclusion)
      /\ \A k \in DOMAIN appraised' :
           \/ k \in DOMAIN appraised /\ appraised'[k] = appraised[k]
           \/ appraised'[k] = x
  BY <1>1, <1>2
<1>4. x.inputs = 0 /\ x.cap = 0
  OBVIOUS
<1> HIDE DEF x
<1>5. CapsMeasured'
  BY <1>3, <1>4 DEF WatchInv, CapsMeasured, vars
<1> QED
  BY <1>5 DEF WatchInv, WatchTypeOK, CeilingsBound, ExactEvidenceWins, ExactOf, vars

(* The cap that is concluded and the ceiling that is measured from it.     *)
LEMMA MeasureLeadKeepsWatch ==
  ASSUME ReviewInv, MeasureLead
  PROVE  WatchInv'
<1> USE DEF ReviewInv
<1> DEFINE n == Len(deal.candidate.inputs)
           x == [lead |-> deal.candidate.lead, cap |-> search.low, inputs |-> n]
           m == [lead |-> deal.candidate.lead, ceiling |-> PerUnit(search.low, n)]
<1>1. /\ appraised' = Append(appraised, x) /\ measures' = Append(measures, m)
      /\ pc = "measure" /\ pos = 1 /\ stage = "search"
      /\ UNCHANGED <<orders, board, pc, pos, ceilings, verdicts>>
  <2>1. pc = "measure" /\ pos = 1 /\ stage = "search"
    BY DEF MeasureLead, Conclude, ConfirmedFirst, Confirming
  <2>2. appraised' = Append(appraised, x)
    BY DEF MeasureLead, Conclude
  <2>3. measures' = Append(measures, m) /\ UNCHANGED <<orders, board, pc, pos, ceilings, verdicts>>
    BY DEF MeasureLead
  <2> QED
    BY <2>1, <2>2, <2>3
<1>2. search.low \in Nat /\ n \in Nat \ {0} /\ deal.candidate.lead \in Lead
  <2>1. search.pc = "done"
    BY DEF MeasureLead, Conclude, Taken
  <2> QED
    BY <1>1, <2>1, CandidatesHaveLeads DEF SearchInv, IInv, SearchTypeOK, Searches, Settled, DealInv
<1> HIDE DEF n
<1>3. PerUnit(search.low, n) \in Int /\ n * PerUnit(search.low, n) <= search.low
  BY <1>2, PerUnitFits
<1>4. x \in Conclusion /\ m \in Taking /\ x.inputs * m.ceiling <= x.cap /\ m.lead = x.lead
  BY <1>2, <1>3 DEF Conclusion, Taking
<1> HIDE DEF x, m
<1>5. appraised \in Seq(Conclusion) /\ measures \in Seq(Taking)
  BY DEF WatchInv, CapsMeasured, WatchTypeOK
<1>6. /\ appraised' \in Seq(Conclusion) /\ measures' \in Seq(Taking)
      /\ \A k \in DOMAIN appraised' :
           \/ k \in DOMAIN appraised /\ appraised'[k] = appraised[k]
           \/ appraised'[k] = x
      /\ \A i \in DOMAIN measures : i \in DOMAIN measures' /\ measures'[i] = measures[i]
      /\ \E i \in DOMAIN measures' : measures'[i] = m
  <2>1. Len(measures) + 1 \in DOMAIN measures' /\ measures'[Len(measures) + 1] = m
    BY <1>1, <1>4, <1>5
  <2> QED
    BY <1>1, <1>4, <1>5, <2>1
<1>7. CapsMeasured'
  BY <1>4, <1>6 DEF WatchInv, CapsMeasured
<1>8. WatchTypeOK'
  BY <1>1, <1>6 DEF WatchInv, WatchTypeOK
<1>9. CeilingsBound' /\ ExactEvidenceWins'
  <2>1. verdicts' = << >> /\ pc' = "measure" /\ pos' = 1
    BY <1>1 DEF WatchInv, WatchTypeOK
  <2>2. \A i \in DOMAIN measures' : ~(i < pos')
    BY <1>6, <2>1
  <2> QED
    BY <2>1, <2>2 DEF CeilingsBound, ExactEvidenceWins
<1> QED
  BY <1>7, <1>8, <1>9 DEF WatchInv

(* The lower of two ceilings of a key is kept. *)
LEMMA MeasureKeepsWatch ==
  ASSUME WatchInv, Measure, UNCHANGED appraised
  PROVE  WatchInv'
<1>1. WatchTypeOK /\ CeilingsBound /\ CapsMeasured
  BY DEF WatchInv
<1>2. pc = "measure" /\ UNCHANGED <<inputs, verdicts>> /\ verdicts = << >>
  BY <1>1 DEF Measure, WatchTypeOK
<1>3. ExactEvidenceWins' /\ CapsMeasured'
  BY <1>1, <1>2 DEF ExactEvidenceWins, CapsMeasured, inputs
<1>4. CASE pos > Len(measures)
  <2>1. pc' = "judge" /\ pos' = 1 /\ UNCHANGED ceilings
    BY <1>1, <1>4 DEF Measure, WatchTypeOK
  <2>2. WatchTypeOK'
    BY <1>1, <1>2, <2>1 DEF WatchTypeOK, inputs
  <2>3. \A i \in DOMAIN measures : i < pos
    BY <1>1, <1>4 DEF WatchTypeOK
  <2>4. CeilingsBound'
    BY <1>1, <1>2, <2>1, <2>3 DEF CeilingsBound, inputs
  <2> QED
    BY <1>3, <2>2, <2>4 DEF WatchInv
<1>5. CASE pos <= Len(measures)
  <2> DEFINE k == KeyOf(measures[pos].lead)
             new == [status |-> "exact", ceiling |-> measures[pos].ceiling, evidence |-> "exact"]
             kept == Kept(ceilings[k], new)
  <2>1. /\ ceilings' = [ceilings EXCEPT ![k] = kept] /\ pos' = pos + 1 /\ pc' = pc
    BY <1>1, <1>5 DEF Measure, WatchTypeOK
  <2>2. pos \in DOMAIN measures /\ measures[pos] \in Taking
    BY <1>1, <1>5 DEF WatchTypeOK
  <2>3. k \in Key /\ new \in Cells /\ new # Nothing /\ new.ceiling = measures[pos].ceiling
        /\ measures[pos].ceiling \in Int
    BY <2>2 DEF Taking, Lead, KeyOf, Cells, Nothing
  <2> HIDE DEF k, new
  <2>4. ceilings[k] \in Cells /\ ceilings \in [Key -> Cells]
    BY <1>1, <2>3 DEF WatchTypeOK
  <2>5. /\ kept \in Cells /\ kept # Nothing /\ kept.ceiling <= measures[pos].ceiling
        /\ ceilings[k] # Nothing => kept.ceiling <= ceilings[k].ceiling
    BY <2>3, <2>4 DEF Kept, Cells
  <2> HIDE DEF kept
  <2>6. /\ ceilings' \in [Key -> Cells] /\ ceilings'[k] = kept
        /\ \A l \in Key \ {k} : ceilings'[l] = ceilings[l]
    BY <2>1, <2>3, <2>4, <2>5
  <2>7. WatchTypeOK'
    BY <1>1, <1>2, <2>1, <2>6 DEF WatchTypeOK, inputs
  <2>8. CeilingsBound'
    <3> SUFFICES ASSUME NEW i \in DOMAIN measures, i < pos + 1
                 PROVE  /\ ceilings'[KeyOf(measures[i].lead)] # Nothing
                        /\ ceilings'[KeyOf(measures[i].lead)].ceiling <= measures[i].ceiling
      BY <1>2, <2>1 DEF CeilingsBound, inputs
    <3> DEFINE l == KeyOf(measures[i].lead)
    <3>1. measures[i] \in Taking
      BY <1>1 DEF WatchTypeOK
    <3>2. l \in Key /\ measures[i].ceiling \in Int
      BY <3>1 DEF Taking, Lead, KeyOf
    <3>3. CASE i = pos
      BY <2>5, <2>6, <3>3 DEF k
    <3>4. CASE i < pos
      <4>1. ceilings[l] # Nothing /\ ceilings[l].ceiling <= measures[i].ceiling
        BY <1>1, <3>4 DEF CeilingsBound
      <4>2. ceilings[l] \in Cells
        BY <2>4, <3>2
      <4> HIDE DEF l
      <4>3. CASE l = k
        <5>1. kept.ceiling <= ceilings[l].ceiling /\ kept.ceiling \in Int /\ ceilings[l].ceiling \in Int
          BY <2>5, <4>1, <4>2, <4>3 DEF Cells
        <5> QED
          BY <2>5, <2>6, <3>2, <4>1, <4>3, <5>1 DEF l
      <4>4. CASE l # k
        BY <2>6, <3>2, <4>1, <4>4 DEF l
      <4> QED
        BY <4>3, <4>4
    <3> QED
      BY <1>1, <3>3, <3>4 DEF WatchTypeOK
  <2> QED
    BY <1>3, <2>7, <2>8 DEF WatchInv
<1> QED
  BY <1>1, <1>4, <1>5 DEF WatchTypeOK

(* One more verdict; what stays standing is within all that was measured.  *)
LEMMA JudgedKeepsWatch ==
  ASSUME WatchInv, pc = "judge", pos <= Len(orders), NEW v \in Verdicts, Judged(v),
         UNCHANGED <<inputs, ceilings, appraised>>,
         v.status = "STILL_VALID" =>
           \A c \in ExactOf(orders[pos].lead) : orders[pos].price <= c
  PROVE  WatchInv'
<1>1. WatchTypeOK /\ CeilingsBound /\ CapsMeasured /\ ExactEvidenceWins
  BY DEF WatchInv
<1>2. /\ verdicts' = Append(verdicts, v) /\ pos' = pos + 1 /\ pc' = pc
      /\ orders' = orders /\ measures' = measures /\ board' = board
  BY DEF Judged, inputs
<1>3. verdicts \in Seq(Verdicts) /\ Len(verdicts) = pos - 1 /\ pos \in Nat \ {0}
  BY <1>1 DEF WatchTypeOK
<1>4. /\ verdicts' \in Seq(Verdicts) /\ Len(verdicts') = pos
      /\ \A i \in DOMAIN verdicts' :
           \/ i \in DOMAIN verdicts /\ verdicts'[i] = verdicts[i]
           \/ i = pos /\ verdicts'[i] = v
  BY <1>2, <1>3
<1>5. WatchTypeOK'
  BY <1>1, <1>2, <1>3, <1>4 DEF WatchTypeOK
<1>6. CeilingsBound' /\ CapsMeasured'
  BY <1>1, <1>2 DEF CeilingsBound, CapsMeasured
<1>7. ExactEvidenceWins'
  <2> SUFFICES ASSUME NEW i \in DOMAIN verdicts', verdicts'[i].status = "STILL_VALID",
                      NEW c \in ExactOf(orders[i].lead)
               PROVE  orders[i].price <= c
    BY <1>2 DEF ExactEvidenceWins, ExactOf
  <2> QED
    BY <1>1, <1>4 DEF ExactEvidenceWins
<1> QED
  BY <1>5, <1>6, <1>7 DEF WatchInv

LEMMA JudgeKeepsWatch ==
  ASSUME WatchInv, Judge, UNCHANGED appraised
  PROVE  WatchInv'
<1> DEFINE o == orders[pos]
           key == KeyOf(o.lead)
<1>1. WatchTypeOK /\ CeilingsBound /\ CapsMeasured /\ ExactEvidenceWins
  BY DEF WatchInv
<1>2. /\ pc = "judge" /\ pos \in 1..Len(orders) /\ orders[pos] \in Order
      /\ UNCHANGED <<inputs, ceilings>>
  BY <1>1 DEF Judge, WatchTypeOK
<1>3. o.price \in Nat /\ key \in Key /\ ceilings[key] \in Cells
  BY <1>1, <1>2, WatchAssumption DEF Order, Lead, KeyOf, WatchTypeOK
<1>4. ASSUME NEW c \in ExactOf(o.lead)
      PROVE  ceilings[key] # Nothing /\ ceilings[key].ceiling <= c /\ c \in Int
  <2>1. PICK i \in DOMAIN measures : measures[i].lead = o.lead /\ c = measures[i].ceiling
    BY <1>4 DEF ExactOf
  <2>2. measures[i] \in Taking
    BY <1>1 DEF WatchTypeOK
  <2> QED
    BY <1>1, <1>2, <2>1, <2>2 DEF CeilingsBound, Taking
<1>5. Unpriceable \in Verdicts /\ Unpriceable.status # "STILL_VALID"
  BY DEF Unpriceable, Verdicts
<1>6. CASE ceilings[key] # Nothing
  <2>1. EvidenceOf(key) = "exact"
    BY <1>6 DEF EvidenceOf
  <2>2. CASE o.currency = Base
    <3> DEFINE v == Verdict(o, ceilings[key].ceiling, "exact")
    <3>1. Judged(v)
      BY <2>1, <2>2 DEF Judge
    <3>2. ceilings[key].ceiling \in Int
      BY <1>3, <1>6 DEF Cells
    <3>3. v \in Verdicts /\ (v.status = "STILL_VALID" => o.price <= ceilings[key].ceiling)
      BY <3>2 DEF Verdict, Verdicts
    <3> HIDE DEF v
    <3>4. v.status = "STILL_VALID" => \A c \in ExactOf(o.lead) : o.price <= c
      BY <1>3, <1>4, <3>2, <3>3
    <3> QED
      BY <1>2, <3>1, <3>3, <3>4, JudgedKeepsWatch
  <2>3. CASE o.currency # Base
    <3>1. pc' = "raised" /\ UNCHANGED <<pos, verdicts>>
      BY <2>1, <2>3 DEF Judge
    <3> QED
      BY <1>1, <1>2, <3>1
      DEF WatchInv, WatchTypeOK, CeilingsBound, CapsMeasured, ExactEvidenceWins, ExactOf, inputs
  <2> QED
    BY <2>2, <2>3
<1>7. CASE ceilings[key] = Nothing
  <2>1. ExactOf(o.lead) = {}
    BY <1>4, <1>7
  <2>2. CASE BestVariants(key) # {}
    <3>1. EvidenceOf(key) = "sweep"
      BY <1>7, <2>2 DEF EvidenceOf
    <3>2. PICK p \in BestVariants(key) :
            Judged(IF o.currency = Base THEN Verdict(o, p.ceiling, "sweep") ELSE Unpriceable)
      BY <3>1 DEF Judge
    <3>3. p.ceiling \in Int
      <4>1. p \in board
        BY DEF BestVariants
      <4>2. p.ceiling \in Price
        BY <1>1, <4>1 DEF WatchTypeOK, Prospect
      <4>3. Price \subseteq Int
        BY WatchAssumption
      <4> QED
        BY <4>2, <4>3
    <3> DEFINE v == IF o.currency = Base THEN Verdict(o, p.ceiling, "sweep") ELSE Unpriceable
    <3>4. v \in Verdicts
      BY <1>5, <3>3 DEF Verdict, Verdicts
    <3> HIDE DEF v
    <3>5. Judged(v)
      BY <3>2 DEF v
    <3> QED
      BY <1>2, <2>1, <3>4, <3>5, JudgedKeepsWatch
  <2>3. CASE BestVariants(key) = {}
    <3>1. EvidenceOf(key) = "none"
      BY <1>7, <2>3 DEF EvidenceOf
    <3>2. Judged(Unpriceable)
      BY <3>1 DEF Judge
    <3> QED
      BY <1>2, <1>5, <3>2, JudgedKeepsWatch
  <2> QED
    BY <2>2, <2>3
<1> QED
  BY <1>6, <1>7

LEMMA FinishKeepsWatch ==
  ASSUME WatchInv, Finish, UNCHANGED appraised
  PROVE  WatchInv'
<1>1. pc = "judge" /\ pc' = "done" /\ UNCHANGED <<orders, board, measures, pos, ceilings, verdicts>>
  BY DEF Finish, inputs
<1> QED
  BY <1>1 DEF WatchInv, WatchTypeOK, CeilingsBound, CapsMeasured, ExactEvidenceWins, ExactOf

-----------------------------------------------------------------------------
LEMMA AppraiseKeepsReview == ReviewInv /\ Appraise => ReviewInv'
<1> SUFFICES ASSUME ReviewInv, Appraise PROVE ReviewInv'
  OBVIOUS
<1>1. ConfirmedFirst /\ DealInv /\ SearchInv /\ WatchInv /\ Deliberate /\ UNCHANGED vars
  BY DEF ReviewInv, Appraise
<1>2. ConfirmedFirst'
  BY <1>1 DEF ConfirmedFirst, Confirming, vars, Deliberate, NoRail, PlanRail, Value, Screen, Reserve,
              Requery, Gate, Assess, Search, Refuse, AskSticker, AskCap, TakeCap
<1>3. DealInv'
  BY <1>1, PlanKeepsDeal, ValueKeepsDeal, ScreenKeepsDeal, ReserveKeepsDeal,
     RequeryKeepsDeal, GateKeepsDeal, OthersKeepDeal DEF Deliberate
<1>4. SearchInv'
  BY <1>1, AssessKeepsSearch, SearchingKeepsSearch, OthersKeepSearch DEF Deliberate
<1>5. WatchInv'
  <2>1. CASE Refuse
    BY <1>1, <2>1, RefuseKeepsWatch
  <2>2. CASE ~Refuse
    <3>1. UNCHANGED appraised
      BY <1>1, <2>2 DEF Deliberate, NoRail, PlanRail, Value, Screen, Reserve,
                        Requery, Gate, Assess, Search, AskSticker, AskCap, TakeCap
    <3> QED
      BY <1>1, <3>1, StillWatching
  <2> QED
    BY <2>1, <2>2
<1> QED
  BY <1>2, <1>3, <1>4, <1>5 DEF ReviewInv

LEMMA ReviewPreserves == ReviewInv /\ [ReviewNext]_reviewVars => ReviewInv'
<1> SUFFICES ASSUME ReviewInv, [ReviewNext]_reviewVars PROVE ReviewInv'
  OBVIOUS
<1>0. ConfirmedFirst /\ DealInv /\ SearchInv /\ WatchInv
  BY DEF ReviewInv
<1>1. CASE Open
  <2>1. ConfirmedFirst' /\ UNCHANGED <<vars, appraised>>
    BY <1>1 DEF Open, Start, ConfirmedFirst, Confirming, vars
  <2>2. DealInv' /\ SearchInv'
    BY <1>0, <1>1, OpenKeepsDeal, OthersKeepSearch DEF Open
  <2> QED
    BY <1>0, <2>1, <2>2, StillWatching DEF ReviewInv
<1>2. CASE Appraise
  BY <1>2, AppraiseKeepsReview
<1>3. CASE MeasureLead
  <2>1. ConfirmedFirst'
    BY <1>3 DEF MeasureLead, Conclude, ConfirmedFirst
  <2>2. DealInv' /\ SearchInv'
    BY <1>0, <1>3, OthersKeepDeal, OthersKeepSearch DEF MeasureLead
  <2> QED
    BY <1>3, <2>1, <2>2, MeasureLeadKeepsWatch DEF ReviewInv
<1>4. CASE Review
  <2>1. stage = "idle" /\ UNCHANGED appraisalVars
    BY <1>4 DEF Review
  <2>2. ConfirmedFirst' /\ DealInv' /\ SearchInv'
    BY <1>0, <2>1, OthersKeepDeal, OthersKeepSearch DEF ConfirmedFirst, appraisalVars
  <2>3. WatchInv'
    BY <1>0, <1>4, <2>1, MeasureKeepsWatch, JudgeKeepsWatch, FinishKeepsWatch DEF Review, Next, appraisalVars
  <2> QED
    BY <2>2, <2>3 DEF ReviewInv
<1>5. CASE UNCHANGED reviewVars
  <2>1. ConfirmedFirst'
    BY <1>0, <1>5 DEF ConfirmedFirst, Confirming, reviewVars, appraisalVars, vars
  <2>2. DealInv' /\ SearchInv'
    BY <1>0, <1>5, OthersKeepDeal, OthersKeepSearch DEF reviewVars, appraisalVars
  <2> QED
    BY <1>0, <1>5, <2>1, <2>2, StillWatching DEF ReviewInv, reviewVars, appraisalVars
<1> QED
  BY <1>1, <1>2, <1>3, <1>4, <1>5 DEF ReviewNext

-----------------------------------------------------------------------------
(* What is within the ceiling of a lead keeps the lead within its cap.     *)
LEMMA StandingFits == ReviewInv => StandingOrdersFit
<1> SUFFICES ASSUME ReviewInv, NEW i \in DOMAIN verdicts, NEW k \in DOMAIN appraised,
                    verdicts[i].status = "STILL_VALID", appraised[k].lead = orders[i].lead
             PROVE  appraised[k].inputs * orders[i].price <= appraised[k].cap
  BY DEF StandingOrdersFit
<1>1. WatchTypeOK /\ ExactEvidenceWins /\ CapsMeasured
  BY DEF ReviewInv, WatchInv
<1>2. orders[i] \in Order
  BY <1>1 DEF WatchTypeOK
<1>3. orders[i].price \in Nat
  BY <1>2, WatchAssumption DEF Order
<1>4. appraised[k] \in Conclusion
  BY <1>1 DEF CapsMeasured
<1>5. appraised[k].inputs \in Nat /\ appraised[k].cap \in Int
  BY <1>4 DEF Conclusion
<1>6. CASE appraised[k].inputs = 0 /\ appraised[k].cap = 0
  BY <1>3, <1>6
<1>7. CASE \E m \in DOMAIN measures :
             /\ measures[m].lead = appraised[k].lead
             /\ appraised[k].inputs * measures[m].ceiling <= appraised[k].cap
  <2>1. PICK m \in DOMAIN measures :
          /\ measures[m].lead = appraised[k].lead
          /\ appraised[k].inputs * measures[m].ceiling <= appraised[k].cap
    BY <1>7
  <2>2. measures[m] \in Taking
    BY <1>1 DEF WatchTypeOK
  <2>3. orders[i].price <= measures[m].ceiling /\ measures[m].ceiling \in Int
    BY <1>1, <2>1, <2>2 DEF ExactEvidenceWins, ExactOf, Taking
  <2> DEFINE n == appraised[k].inputs
             p == orders[i].price
             c == measures[m].ceiling
  <2>4. n * p <= n * c /\ n * p \in Int /\ n * c \in Int
    BY <1>3, <1>5, <2>3, Monotone, SMT
  <2> QED
    BY <1>5, <2>1, <2>4, SMT
<1> QED
  BY <1>1, <1>6, <1>7 DEF CapsMeasured

(* A verdict rests on what was measured: no order stands above what the    *)
(* batch measured for its own lead, and one filled at its price for every  *)
(* input costs no more than any cap computed for that lead.                *)
THEOREM VerdictsRest == ReviewSpec => []VerdictsRestOnEvidence
<1>1. ReviewInv => VerdictsRestOnEvidence
  BY StandingFits DEF ReviewInv, WatchInv, VerdictsRestOnEvidence
<1> QED
  BY <1>1, ReviewInitEstablishes, ReviewPreserves, PTL DEF ReviewSpec

(* The cap of every appraisal is exact: it clears the floor under the      *)
(* overheads of that lead, and no greater spend does.                      *)
THEOREM AppraisedCapExact == ReviewSpec => []CapIsExact
<1>1. ReviewInv => CapIsExact
  BY SettledIsExact DEF ReviewInv, SearchInv
<1> QED
  BY <1>1, ReviewInitEstablishes, ReviewPreserves, PTL DEF ReviewSpec

(* Without a proportional overhead clearing is a matter of the return.     *)
LEMMA ClearsIsReturn ==
  ASSUME NEW h \in Int, NEW spend \in Int
  PROVE  Clears(spend, h, Floor, <<0, 1>>)
           <=> (h - spend) * Limits.finalRoi[2] >= Limits.finalRoi[1] * spend
<1> DEFINE f == Limits.finalRoi[1]
           d == Limits.finalRoi[2]
<1>1. f \in Int /\ d \in Int
  BY AppraisalAssumption
<1>2. Proportional(spend, <<0, 1>>) = 0
  BY SMT DEF Proportional, ScaledUp, RoundUp
<1>3. Clears(spend, h, Floor, <<0, 1>>) <=> (f + d) * spend + d * 0 <= h * d
  BY <1>2 DEF Clears, Floor
<1> HIDE DEF f, d
<1>4. (f + d) * spend = f * spend + d * spend /\ (h - spend) * d = h * d - d * spend
  BY <1>1, SMT
<1>5. f * spend \in Int /\ d * spend \in Int /\ h * d \in Int /\ d * 0 = 0
  BY <1>1, SMT
<1> QED
  BY <1>3, <1>4, <1>5, SMT DEF f, d

(* The operator's question "is the target met?" and the final gate's "is   *)
(* the return enough?" have one answer, to the minor unit.                 *)
THEOREM EntryAgrees == ReviewSpec => []EntryAgreesWithReturn
<1>1. ASSUME ReviewInv PROVE EntryAgreesWithReturn
  <2> SUFFICES ASSUME stage = "search", search.pc = "done"
               PROVE  EntryMet <=> AtLeast(Roi(deal.evaluation), Limits.finalRoi)
    BY DEF EntryAgreesWithReturn
  <2> DEFINE e == deal.evaluation
             h == Headroom(e)
             spend == e.acquisition
  <2>1. /\ search.headroom = h /\ search.target = Floor /\ search.rate = <<0, 1>>
        /\ spend >= 1 /\ IsEvaluation(deal.candidate, deal.values, deal.rate, e) /\ IInv
    BY <1>1, FiguresAre DEF ReviewInv, SearchInv, Evaluated, Valued
  <2>2. spend \in Int /\ h \in Int /\ e.ev = h - spend
    BY <2>1, SMT DEF IsEvaluation, Headroom
  <2>3. AtLeast(Roi(e), Limits.finalRoi)
          <=> (h - spend) * Limits.finalRoi[2] >= Limits.finalRoi[1] * spend
    <3>1. Roi(e) = <<e.ev, spend>>
      BY <2>1, <2>2, SMT DEF Roi
    <3> QED
      BY <2>2, <3>1 DEF AtLeast
  <2> HIDE DEF h, spend
  <2>4. AtLeast(Roi(e), Limits.finalRoi) <=> Clears(spend, h, Floor, <<0, 1>>)
    BY <2>2, <2>3, ClearsIsReturn
  <2>5. /\ search.low \in Int /\ search.low >= 0
        /\ search.low > 0 => Clears(search.low, h, Floor, <<0, 1>>)
        /\ ~Clears(search.low + 1, h, Floor, <<0, 1>>)
    BY <2>1 DEF IInv, SearchTypeOK, Searches, Settled
  <2>6. ASSUME spend <= search.low PROVE Clears(spend, h, Floor, <<0, 1>>)
    <3>1. search.low > 0
      BY <2>1, <2>2, <2>5, <2>6
    <3> QED
      BY <2>2, <2>5, <2>6, <3>1, FloorIsRatio, FailsUpwards
  <2>7. ASSUME ~(spend <= search.low) PROVE ~Clears(spend, h, Floor, <<0, 1>>)
    <3>1. search.low + 1 <= spend /\ search.low + 1 \in Int
      BY <2>2, <2>5, <2>7
    <3> QED
      BY <2>2, <2>5, <3>1, FloorIsRatio, FailsUpwards
  <2> QED
    BY <2>4, <2>6, <2>7 DEF EntryMet, spend
<1> QED
  BY <1>1, ReviewInitEstablishes, ReviewPreserves, PTL DEF ReviewSpec

-----------------------------------------------------------------------------
(* Amounts are whole minor units, never a negative exit, reserve or cap,   *)
(* through valuation, economics and search.                                *)
THEOREM AppraisalTypes == ReviewSpec => []AppraisalTypeOK
<1>1. ASSUME ReviewInv PROVE AppraisalTypeOK
  <2>1. DealInv /\ SearchInv /\ WatchInv
    BY <1>1 DEF ReviewInv
  <2>2. stage \in {"idle", "rail", "value", "screen", "reserve", "requery", "assess", "search",
                   "refused", "asked"}
    BY <2>1 DEF DealInv, Judging
  <2>3. SearchTypeOK
    BY <2>1 DEF SearchInv, IInv
  <2>4. \A i \in DOMAIN appraised : appraised[i].cap \in Nat /\ appraised[i].inputs \in Nat
    <3>1. appraised \in Seq(Conclusion)
      BY <2>1 DEF WatchInv, CapsMeasured
    <3>2. \A i \in DOMAIN appraised : appraised[i] \in Conclusion
      BY <3>1
    <3> QED
      BY <3>2 DEF Conclusion
  <2>5. ASSUME Valued PROVE \A o \in DOMAIN deal.values : deal.values[o].net \in Nat /\ deal.values[o].gross \in Nat
    BY <2>1, <2>5, ValuesAre DEF IsValuation
  <2>6. ASSUME Evaluated PROVE deal.evaluation.reserve \in Nat /\ deal.evaluation.overhead \in Nat
    BY <2>1, <2>6, FiguresAre DEF IsEvaluation
  <2> QED
    BY <2>2, <2>3, <2>4, <2>5, <2>6 DEF AppraisalTypeOK
<1> QED
  BY <1>1, ReviewInitEstablishes, ReviewPreserves, PTL DEF ReviewSpec

(* No exit is counted on above a standing ask, unless somebody bids.       *)
THEOREM ExitsWithinAsks == ReviewSpec => []ExitWithinAsks
<1>1. ASSUME ReviewInv PROVE ExitWithinAsks
  BY <1>1, ValuesAre DEF ReviewInv, ExitWithinAsks
<1> QED
  BY <1>1, ReviewInitEstablishes, ReviewPreserves, PTL DEF ReviewSpec

(* The expectation promises no more than the outcomes pay, and the         *)
(* cautious reading no more than the plain one.                            *)
THEOREM NothingPromised == ReviewSpec => []NeverOverstated
<1>1. ASSUME ReviewInv PROVE NeverOverstated
  <2> SUFFICES ASSUME Evaluated
               PROVE  /\ deal.evaluation.expected * Shares(deal.candidate)
                           <= WeightedSum(deal.candidate, NetsOf(deal.values))
                      /\ deal.evaluation.lowerBound <= deal.evaluation.ev
    BY DEF NeverOverstated, NetsOf
  <2> QED
    BY <1>1, FiguresAre DEF ReviewInv, IsEvaluation
<1> QED
  BY <1>1, ReviewInitEstablishes, ReviewPreserves, PTL DEF ReviewSpec

(* What a gate without objections has found true of the economics.         *)
LEMMA EconomicsPassed ==
  ASSUME NEW e, NEW allowed, EconomicReasons(e) \subseteq allowed,
         "WORST_CASE_LOSS_EXCEEDED" \notin allowed, "PARTIAL_FILL_EXPOSURE_EXCEEDED" \notin allowed
  PROVE  ~(Magnitude(e.worst) > Limits.worstCase) /\ ~(e.orphan > Limits.orphan)
<1> DEFINE checks ==
      [BELOW_DISCOVERY_ROI |-> ~AtLeast(Roi(e), Limits.discoveryRoi),
       BELOW_FINAL_ROI |-> ~AtLeast(Roi(e), Limits.finalRoi),
       BELOW_MIN_ABSOLUTE_PROFIT |-> e.ev < Limits.profit,
       NEGATIVE_LOWER_BOUND_EV |-> e.lowerBound <= 0,
       WORST_CASE_LOSS_EXCEEDED |-> Magnitude(e.worst) > Limits.worstCase,
       CONTRACT_COST_EXCEEDED |-> e.acquisition > Limits.contractCost,
       PARTIAL_FILL_EXPOSURE_EXCEEDED |-> e.orphan > Limits.orphan,
       CAPITAL_DAYS_EXCEEDED |-> e.days > Limits.capitalDays]
<1>1. EconomicReasons(e) = {r \in DOMAIN checks : checks[r]}
  BY DEF EconomicReasons, Refusals
<1>2. /\ {"WORST_CASE_LOSS_EXCEEDED", "PARTIAL_FILL_EXPOSURE_EXCEEDED"} \subseteq DOMAIN checks
      /\ checks["WORST_CASE_LOSS_EXCEEDED"] = (Magnitude(e.worst) > Limits.worstCase)
      /\ checks["PARTIAL_FILL_EXPOSURE_EXCEEDED"] = (e.orphan > Limits.orphan)
  OBVIOUS
<1> HIDE DEF checks
<1> QED
  BY <1>1, <1>2

(* What it has found true of a listing: its venue answered, and neither    *)
(* denied nor contradicted it.                                             *)
LEMMA ListingPassed ==
  ASSUME NEW input, NEW answers, NEW allowed, ListingReasons(input, answers) \subseteq allowed,
         {"INCOMPLETE_BUNDLE", "LISTING_DISAPPEARED", "LISTING_PRICE_CHANGED",
          "LISTING_IDENTITY_MISMATCH"} \cap allowed = {}
  PROVE  /\ input.id \in DOMAIN answers
         /\ answers[input.id].present
         /\ answers[input.id].price \subseteq {input.price}
         /\ answers[input.id].asset \subseteq {input.asset}
<1> DEFINE answered == input.id \in DOMAIN answers
           found == answered /\ answers[input.id].present
           checks ==
             [INCOMPLETE_BUNDLE |-> ~answered,
              LISTING_DISAPPEARED |-> answered /\ ~found,
              LISTING_PRICE_CHANGED |-> found /\ \E p \in answers[input.id].price : p # input.price,
              LISTING_FLOAT_MISMATCH |-> found /\ \E f \in answers[input.id].float : f # input.float,
              LISTING_IDENTITY_MISMATCH |-> found /\ \E a \in answers[input.id].asset : a # input.asset,
              LISTING_NOT_PURCHASABLE |-> found /\ ~input.usable]
<1>1. ListingReasons(input, answers) = {r \in DOMAIN checks : checks[r]}
  BY DEF ListingReasons, Refusals
<1>2. /\ {"INCOMPLETE_BUNDLE", "LISTING_DISAPPEARED", "LISTING_PRICE_CHANGED",
          "LISTING_IDENTITY_MISMATCH"} \subseteq DOMAIN checks
      /\ checks["INCOMPLETE_BUNDLE"] = ~answered
      /\ checks["LISTING_DISAPPEARED"] = (answered /\ ~found)
      /\ checks["LISTING_PRICE_CHANGED"] = (found /\ \E p \in answers[input.id].price : p # input.price)
      /\ checks["LISTING_IDENTITY_MISMATCH"] = (found /\ \E a \in answers[input.id].asset : a # input.asset)
  OBVIOUS
<1> HIDE DEF checks
<1>3. answered /\ found
  BY <1>1, <1>2
<1>4. /\ ~(\E p \in answers[input.id].price : p # input.price)
      /\ ~(\E a \in answers[input.id].asset : a # input.asset)
  BY <1>1, <1>2, <1>3
<1> QED
  BY <1>3, <1>4

(* What the card's gate found without objection, each of its parts did:    *)
(* only the day's spend and the live switch are left to the operator.      *)
LEMMA CardPassed ==
  ASSUME NEW c, NEW e, NEW answers, NEW reserved, CardReasons(c, e, answers, reserved) = {},
         NEW allowed, allowed = {"DAILY_SPEND_LIMIT_EXCEEDED", "LIVE_EXECUTION_DISABLED"}
  PROVE  /\ EconomicReasons(e) \subseteq allowed
         /\ \A i \in DOMAIN c.inputs : ListingReasons(c.inputs[i], answers) \subseteq allowed
<1> DEFINE final == FinalReasons(c, e, answers, reserved, "OPERATOR_APPROVAL_REQUIRED", {}, {})
<1>1. /\ EconomicReasons(e) \subseteq final
      /\ \A i \in DOMAIN c.inputs : ListingReasons(c.inputs[i], answers) \subseteq final
  BY DEF FinalReasons
<1> HIDE DEF final
<1>2. final \ allowed = {}
  BY DEF CardReasons, final
<1>3. final \subseteq allowed
  BY <1>2
<1> QED
  BY <1>1, <1>3

(* An operator card without objections can be relied on: wherever the      *)
(* purchases break off and whichever outcome comes, the loss is within its *)
(* limit, and every listing was answered for and not contradicted.         *)
THEOREM CardSound == ReviewSpec => []CardIsSound
<1>1. ASSUME ReviewInv PROVE CardIsSound
  <2> DEFINE c == deal.candidate
             e == deal.evaluation
             order == PurchaseSequence(c.inputs)
             spent == e.acquisition + e.overhead
             allowed == {"DAILY_SPEND_LIMIT_EXCEEDED", "LIVE_EXECUTION_DISABLED"}
  <2> SUFFICES ASSUME Evaluated, deal.stage = "operator_card", deal.reasons = {}
               PROVE  /\ \A k \in DOMAIN order : LossAt(order, k) <= Limits.orphan
                      /\ \A o \in DOMAIN deal.values : spent - deal.values[o].net <= Limits.worstCase
                      /\ \A i \in DOMAIN c.inputs :
                           /\ c.inputs[i].id \in DOMAIN deal.answers
                           /\ deal.answers[c.inputs[i].id].present
                           /\ deal.answers[c.inputs[i].id].price \subseteq {c.inputs[i].price}
                           /\ deal.answers[c.inputs[i].id].asset \subseteq {c.inputs[i].asset}
    BY DEF CardIsSound
  <2>1. DealInv /\ IsCandidate(c) /\ IsEvaluation(c, deal.values, deal.rate, e)
        /\ \A o \in DOMAIN deal.values : deal.values[o].net \in Nat
    BY <1>1, ValuesAre, FiguresAre DEF ReviewInv, Evaluated, IsValuation
  <2>2. CardReasons(c, e, deal.answers, deal.reserved) = {}
    BY <2>1 DEF DealInv, Evaluated, Valued, Judging
  <2>3. /\ EconomicReasons(e) \subseteq allowed
        /\ \A i \in DOMAIN c.inputs : ListingReasons(c.inputs[i], deal.answers) \subseteq allowed
    <3> HIDE DEF c, e
    <3> QED
      BY <2>2, CardPassed
  <2> HIDE DEF c, e
  <2>4. ~(Magnitude(e.worst) > Limits.worstCase) /\ ~(e.orphan > Limits.orphan)
    BY <2>3, EconomicsPassed
  <2>5. ASSUME NEW k \in DOMAIN order PROVE LossAt(order, k) <= Limits.orphan
    <3>1. LossAt(order, k) <= e.orphan /\ e.orphan \in Int
      BY <2>1 DEF IsEvaluation
    <3>2. LossAt(order, k) \in Int
      BY <2>1, SequenceIs, LossFacts DEF IsCandidate
    <3> QED
      BY <2>4, <3>1, <3>2, AppraisalAssumption
  <2>6. ASSUME NEW o \in DOMAIN deal.values PROVE spent - deal.values[o].net <= Limits.worstCase
    <3>1. /\ e.worst <= deal.values[o].net - e.acquisition - e.overhead /\ e.worst \in Int
          /\ e.acquisition \in Nat /\ e.overhead \in Nat /\ deal.values[o].net \in Nat
      BY <2>1 DEF IsEvaluation
    <3>2. -e.worst <= Magnitude(e.worst) /\ Magnitude(e.worst) \in Int
      BY <3>1 DEF Magnitude
    <3> QED
      BY <2>4, <3>1, <3>2, AppraisalAssumption
  <2>7. ASSUME NEW i \in DOMAIN c.inputs
        PROVE  /\ c.inputs[i].id \in DOMAIN deal.answers
               /\ deal.answers[c.inputs[i].id].present
               /\ deal.answers[c.inputs[i].id].price \subseteq {c.inputs[i].price}
               /\ deal.answers[c.inputs[i].id].asset \subseteq {c.inputs[i].asset}
    <3>1. ListingReasons(c.inputs[i], deal.answers) \subseteq allowed
      BY <2>3
    <3>2. {"INCOMPLETE_BUNDLE", "LISTING_DISAPPEARED", "LISTING_PRICE_CHANGED",
           "LISTING_IDENTITY_MISMATCH"} \cap allowed = {}
      OBVIOUS
    <3> DEFINE input == c.inputs[i]
               answers == deal.answers
    <3>3. ListingReasons(input, answers) \subseteq allowed
      BY <3>1
    <3> HIDE DEF allowed, input, answers
    <3>4. /\ input.id \in DOMAIN answers
          /\ answers[input.id].present
          /\ answers[input.id].price \subseteq {input.price}
          /\ answers[input.id].asset \subseteq {input.asset}
      BY <3>2, <3>3, ListingPassed
    <3> QED
      BY <3>4 DEF input, answers
  <2> QED
    BY <2>5, <2>6, <2>7
<1> QED
  BY <1>1, ReviewInitEstablishes, ReviewPreserves, PTL DEF ReviewSpec

(* A cheaper bundle is charged less besides, so within the cap it clears   *)
(* the floor with the overheads it would really carry.                     *)
THEOREM CheaperClear == ReviewSpec => []CheaperBundlesClear
<1>1. ASSUME ReviewInv PROVE CheaperBundlesClear
  <2> DEFINE e == deal.evaluation
             h == Headroom(e)
             f == Limits.finalRoi[1]
             d == Limits.finalRoi[2]
  <2> SUFFICES ASSUME stage = "search", search.pc = "done", NEW spend \in 1..Min({search.low, e.acquisition})
               PROVE  AtLeast(<<e.expected - spend - OverheadAt(spend, deal.rate, e.days, e.reserve), spend>>,
                              Limits.finalRoi)
    BY DEF CheaperBundlesClear
  <2> DEFINE charged == OverheadAt(spend, deal.rate, e.days, e.reserve)
  <2>1. /\ search.headroom = h /\ search.target = Floor /\ search.rate = <<0, 1>>
        /\ IsEvaluation(deal.candidate, deal.values, deal.rate, e) /\ IInv /\ deal.rate \in Fraction
    BY <1>1, FiguresAre DEF ReviewInv, SearchInv, Evaluated, Valued
  <2>2. /\ e.acquisition \in Nat /\ e.overhead \in Nat /\ e.expected \in Nat /\ e.days \in Nat
        /\ e.reserve \in Nat /\ e.overhead = OverheadAt(e.acquisition, deal.rate, e.days, e.reserve)
    BY <2>1 DEF IsEvaluation
  <2>3. h = e.expected - e.overhead /\ h \in Int
    BY <2>2 DEF Headroom
  <2>4. /\ search.low \in Int
        /\ search.low > 0 => Clears(search.low, h, Floor, <<0, 1>>)
    BY <2>1 DEF IInv, SearchTypeOK, Searches, Settled
  <2>5. Min({search.low, e.acquisition}) <= search.low /\ Min({search.low, e.acquisition}) <= e.acquisition
        /\ Min({search.low, e.acquisition}) \in Int
    <3>1. {search.low, e.acquisition} \in SUBSET Int /\ {search.low, e.acquisition} # {}
      BY <2>2, <2>4
    <3>2. IsFiniteSet({search.low, e.acquisition})
      BY PairFinite
    <3> QED
      BY <3>1, <3>2, MinIs
  <2> HIDE DEF h
  <2>6. spend \in Nat /\ 1 <= spend /\ spend <= search.low /\ spend <= e.acquisition
    BY <2>4, <2>5, <2>2
  <2>7. Clears(spend, h, Floor, <<0, 1>>)
    BY <2>3, <2>4, <2>6, FloorIsRatio, FailsUpwards
  <2>8. (h - spend) * d >= f * spend
    <3>1. spend \in Int
      BY <2>6
    <3>2. Clears(spend, h, Floor, <<0, 1>>)
            <=> (h - spend) * Limits.finalRoi[2] >= Limits.finalRoi[1] * spend
      BY <2>3, <3>1, ClearsIsReturn
    <3> QED
      BY <2>7, <3>2
  <2>9. charged \in Nat /\ charged <= e.overhead
    <3> HIDE DEF e
    <3> DEFINE rate == deal.rate
               days == e.days
               reserve == e.reserve
               whole == e.acquisition
    <3>1. rate \in Fraction /\ days \in Nat /\ reserve \in Nat /\ whole \in Nat /\ spend \in Nat
          /\ spend <= whole
      BY <2>1, <2>2, <2>6
    <3>2. charged = OverheadAt(spend, rate, days, reserve)
          /\ e.overhead = OverheadAt(whole, rate, days, reserve)
      BY <2>2
    <3> HIDE DEF rate, days, reserve, whole, charged
    <3>3. /\ OverheadAt(spend, rate, days, reserve) \in Nat
          /\ OverheadAt(spend, rate, days, reserve) <= OverheadAt(whole, rate, days, reserve)
      BY <3>1, OverheadGrows
    <3> QED
      BY <3>2, <3>3
  <2>10. d \in Nat /\ f \in Int
    BY AppraisalAssumption
  <2> HIDE DEF charged, f, d
  <2>11. d * (h - spend) <= d * (e.expected - spend - charged)
    BY <2>2, <2>3, <2>6, <2>9, <2>10, Monotone
  <2> DEFINE gain == e.expected - spend - charged
             less == h - spend
  <2>12. gain \in Int /\ less \in Int /\ d * less <= d * gain /\ less * d >= f * spend
    BY <2>2, <2>3, <2>6, <2>8, <2>9, <2>11
  <2> HIDE DEF gain, less
  <2>13. gain * d >= f * spend
    <3>1. d * less = less * d /\ d * gain = gain * d /\ d * less \in Int /\ d * gain \in Int
          /\ f * spend \in Int
      BY <2>6, <2>10, <2>12
    <3> QED
      BY <2>12, <3>1
  <2> QED
    BY <2>13 DEF AtLeast, gain, charged, f, d
<1> QED
  BY <1>1, ReviewInitEstablishes, ReviewPreserves, PTL DEF ReviewSpec

-----------------------------------------------------------------------------
LEMMA Cancel ==
  ASSUME NEW n \in Nat \ {0}, NEW a \in Int, NEW b \in Int, n * a <= n * b
  PROVE  a <= b
<1> SUFFICES ASSUME b + 1 <= a PROVE FALSE
  OBVIOUS
<1>1. n * (b + 1) <= n * a
  BY Monotone
<1>2. n * (b + 1) = n * b + n /\ n * a \in Int /\ n * b \in Int
  OBVIOUS
<1> QED
  BY <1>1, <1>2

(* What is paid to cover an amount is worth at least that amount.          *)
LEMMA CostCovers ==
  ASSUME NEW quote, IsQuote(quote), NEW amount \in Int, NEW outlay \in Int,
         CostInCrypto(quote, amount) <= outlay
  PROVE  amount <= CostInFiat(quote, outlay)
<1> DEFINE q == quote.rate[1]
           p == quote.rate[2]
           sent == RoundUp(amount * p, q)
           worth == RoundUp(outlay * q, p)
<1>1. q \in Nat \ {0} /\ p \in Nat \ {0}
  BY DEF IsQuote
<1>2. CostInCrypto(quote, amount) = sent /\ CostInFiat(quote, outlay) = worth
  BY DEF CostInCrypto, CostInFiat
<1> HIDE DEF q, p
<1>3. amount * p \in Int /\ outlay * q \in Int
  BY <1>1
<1>4. sent \in Int /\ amount * p <= q * sent
  BY <1>1, <1>3, Rounding
<1>5. worth \in Int /\ outlay * q <= p * worth
  BY <1>1, <1>3, Rounding
<1> HIDE DEF sent, worth
<1>6. q * sent <= q * outlay
  BY <1>1, <1>2, <1>4, Monotone
<1>7. p * amount <= p * worth
  BY <1>1, <1>3, <1>4, <1>5, <1>6
<1> QED
  BY <1>1, <1>2, <1>5, <1>7, Cancel

(* What comes back for an amount is worth at most that amount.             *)
LEMMA ProceedsWithin ==
  ASSUME NEW quote, IsQuote(quote), NEW amount \in Int, NEW kept \in Int,
         kept <= ProceedsInCrypto(quote, amount)
  PROVE  ProceedsInFiat(quote, kept) <= amount
<1> DEFINE q == quote.rate[1]
           p == quote.rate[2]
           returned == RoundDown(amount * p, q)
           worth == RoundDown(kept * q, p)
<1>1. q \in Nat \ {0} /\ p \in Nat \ {0}
  BY DEF IsQuote
<1>2. ProceedsInCrypto(quote, amount) = returned /\ ProceedsInFiat(quote, kept) = worth
  BY DEF ProceedsInCrypto, ProceedsInFiat
<1> HIDE DEF q, p
<1>3. amount * p \in Int /\ kept * q \in Int
  BY <1>1
<1>4. returned \in Int /\ q * returned <= amount * p
  BY <1>1, <1>3, Rounding
<1>5. worth \in Int /\ p * worth <= kept * q
  BY <1>1, <1>3, Rounding
<1> HIDE DEF returned, worth
<1>6. q * kept <= q * returned
  BY <1>1, <1>2, <1>4, Monotone
<1>7. p * worth <= p * amount
  BY <1>1, <1>3, <1>4, <1>5, <1>6
<1> QED
  BY <1>1, <1>2, <1>5, <1>7, Cancel

(* The haircut takes from what is credited; a debit stays a debit.         *)
LEMMA HaircutTakes ==
  ASSUME NEW crypto \in Int, NEW bound \in Nat, crypto <= bound
  PROVE  AfterHaircut(crypto) \in Int /\ AfterHaircut(crypto) <= bound
<1> DEFINE r == <<VolatilityHaircut[2] - VolatilityHaircut[1], VolatilityHaircut[2]>>
           left == ScaledDown(crypto, r)
<1>1. r \in Fraction /\ r \in Int \X (Nat \ {0}) /\ r[1] <= r[2] /\ r[1] \in Nat /\ r[2] \in Nat \ {0}
  BY SettlementAssumption DEF Fraction
<1>2. AfterHaircut(crypto) = left
  BY DEF AfterHaircut
<1> HIDE DEF r
<1>3. left \in Int
  BY <1>1, ScaledType
<1>4. CASE crypto \in Nat
  <2>1. left <= crypto
    BY <1>1, <1>4, Scaling
  <2> HIDE DEF left
  <2> QED
    BY <1>2, <1>3, <2>1
<1>5. CASE crypto \notin Nat
  <2>1. -crypto \in Nat /\ r[1] * (-crypto) \in Nat /\ crypto * r[1] = -(r[1] * (-crypto))
    BY <1>1, <1>5, Product
  <2>2. crypto * r[1] \in Int /\ crypto * r[1] <= 0
    BY <2>1
  <2>3. r[2] * left <= crypto * r[1]
    BY <1>1, <2>2, Rounding DEF ScaledDown
  <2> HIDE DEF left
  <2>4. r[2] * left <= r[2] * 0
    BY <1>1, <1>3, <2>2, <2>3
  <2>5. left <= 0
    BY <1>1, <1>3, <2>4, Cancel
  <2> QED
    BY <1>2, <1>3, <2>5
<1> QED
  BY <1>4, <1>5

(* What a round trip loses, and who pays it.                               *)
LEMMA RailCosts ==
  ASSUME NEW s, IsSchedule(s), NEW capital \in Int, NEW quote, IsQuote(quote),
         Plannable(s, capital, quote), Drag(s, capital, quote) >= 0
  PROVE  /\ OnRail(s, "withdrawal", capital) + OnRail(s, "conversion", capital) <= capital
              => OnRail(s, "deposit", capital) + OnRail(s, "withdrawal", capital)
                   + 2 * OnRail(s, "conversion", capital) <= Drag(s, capital, quote)
         /\ Drag(s, capital, quote)
              <= Contracts * ScaledUp(capital, ChargeRate(s, capital, quote))
<1> DEFINE dep == OnRail(s, "deposit", capital)
           wd == OnRail(s, "withdrawal", capital)
           conv == OnRail(s, "conversion", capital)
           sent == Sent(s, capital, quote)
           returned == Returned(s, capital, quote)
           outlay == Outlay(s, capital, quote)
           received == Received(s, capital, quote)
           drag == Drag(s, capital, quote)
           there == capital + dep + conv
           back == capital - wd - conv
<1>1. dep \in Nat /\ wd \in Nat /\ conv \in Nat
  BY FeeType DEF Plannable, OnRail
<1>2. sent = CostInCrypto(quote, there) /\ returned = ProceedsInCrypto(quote, back)
  BY DEF Sent, Returned
<1> HIDE DEF dep, wd, conv
<1>3. there \in Int /\ back \in Int
  BY <1>1
<1>4. sent \in Int /\ returned \in Int
  <2> HIDE DEF there, back, sent, returned
  <2> QED
    BY <1>2, <1>3, ConversionType
<1>5. NetworkFee(s, sent) \in Nat /\ NetworkFee(s, returned) \in Nat
  <2>1. FeeKnown(s, Network, "transfer", sent, 0) /\ FeeKnown(s, Network, "transfer", returned, 0)
    BY DEF Plannable
  <2> HIDE DEF sent, returned
  <2> QED
    BY <1>4, <2>1, FeeType DEF NetworkFee
<1>6. outlay = sent + NetworkFee(s, sent) /\ received = returned - NetworkFee(s, returned)
  BY DEF Outlay, Received
<1>7. drag = CostInFiat(quote, outlay) - ProceedsInFiat(quote, AfterHaircut(received))
  BY DEF Drag
<1>8. drag \in Nat
  <2>1. drag \in Int /\ drag >= 0
    BY DragType
  <2> HIDE DEF drag
  <2> QED
    BY <2>1
<1> HIDE DEF sent, returned, outlay, received, drag
<1>9. outlay \in Int /\ received \in Int /\ sent <= outlay /\ received <= returned
  BY <1>4, <1>5, <1>6
<1>10. ASSUME wd + conv <= capital PROVE dep + wd + 2 * conv <= drag
  <2> DEFINE kept == AfterHaircut(received)
  <2>1. returned \in Nat
    <3>1. back \in Nat
      BY <1>3, <1>1, <1>10
    <3>2. quote.rate[2] \in Nat /\ quote.rate[1] \in Nat \ {0}
      BY DEF IsQuote
    <3> HIDE DEF back
    <3> DEFINE x == back * quote.rate[2]
               q == quote.rate[1]
    <3>3. x \in Int /\ 0 <= x /\ q \in Nat \ {0}
      <4>1. x \in Nat
        BY <3>1, <3>2, Product
      <4> HIDE DEF x
      <4> QED
        BY <3>2, <4>1
    <3>4. RoundDown(x, q) >= 0
      <4> HIDE DEF x, q
      <4>1. 0 <= RoundDown(x, q) /\ RoundDown(x, q) \in Int
        BY <3>3, Rounding
      <4> QED
        BY <4>1
    <3> QED
      BY <1>2, <1>4, <3>4 DEF ProceedsInCrypto
  <2>2. kept \in Int /\ kept <= returned
    BY <1>9, <2>1, HaircutTakes
  <2> HIDE DEF kept, there, back
  <2>3. there <= CostInFiat(quote, outlay) /\ CostInFiat(quote, outlay) \in Int
    BY <1>2, <1>3, <1>9, CostCovers, ConversionType
  <2>4. ProceedsInFiat(quote, kept) <= back /\ ProceedsInFiat(quote, kept) \in Int
    BY <1>2, <1>3, <2>2, ProceedsWithin, ConversionType
  <2>5. drag = CostInFiat(quote, outlay) - ProceedsInFiat(quote, kept)
    BY <1>7 DEF kept
  <2>6. there - back <= drag
    BY <1>3, <2>3, <2>4, <2>5
  <2> QED
    BY <1>1, <2>6 DEF there, back
<1>11. drag <= Contracts * ScaledUp(capital, ChargeRate(s, capital, quote))
  <2> DEFINE d == capital * Contracts
             paid == RoundUp(capital * drag, d)
  <2>1. capital \in Nat \ {0} /\ Contracts \in Nat \ {0}
    BY SettlementAssumption DEF Plannable
  <2>2. ScaledUp(capital, ChargeRate(s, capital, quote)) = paid
    BY DEF ChargeRate, ScaledUp, drag
  <2>3. d \in Nat \ {0} /\ capital * drag \in Int
    BY <1>8, <2>1, PositiveProduct
  <2>4. paid \in Int /\ capital * drag <= d * paid
    <3> HIDE DEF d
    <3> QED
      BY <2>3, Rounding
  <2> HIDE DEF paid
  <2>5. d * paid = capital * (Contracts * paid) /\ Contracts * paid \in Int
    BY <2>1, <2>4
  <2>6. drag <= Contracts * paid
    <3> HIDE DEF d
    <3> QED
      BY <1>8, <2>1, <2>4, <2>5, Cancel
  <2> QED
    BY <2>2, <2>6
<1> QED
  BY <1>10, <1>11 DEF dep, wd, conv, drag

(* A rail in use is one that was planned for this deal, and its rate the   *)
(* one charged.                                                            *)
RailBlock(s, rate, block) ==
  \E capital \in Capital, quote \in Quote :
    /\ Plannable(s, capital, quote) /\ Drag(s, capital, quote) >= 0
    /\ block = <<capital, Drag(s, capital, quote)>> /\ rate = ChargeRate(s, capital, quote)

RailInv ==
  /\ stage \in {"idle", "asked"} => deal = << >>
  /\ stage \notin {"idle", "asked"} =>
       /\ {"schedule", "rate", "rail"} \subseteq DOMAIN deal /\ deal.schedule \in Schedule
       /\ \A block \in deal.rail : RailBlock(deal.schedule, deal.rate, block)

LEMMA RailStays ==
  ASSUME RailInv, stage \notin {"idle", "asked"}, stage' \notin {"idle", "asked"},
         {"schedule", "rate", "rail"} \subseteq DOMAIN deal',
         deal'.schedule = deal.schedule, deal'.rate = deal.rate, deal'.rail = deal.rail
  PROVE  RailInv'
BY DEF RailInv

LEMMA NotingKeepsRail ==
  ASSUME RailInv, stage \notin {"idle", "asked"}, stage' \notin {"idle", "asked"},
         NEW computed, {"schedule", "rate", "rail"} \cap DOMAIN computed = {}, deal' = Noted(computed)
  PROVE  RailInv'
<1>1. {"schedule", "rate", "rail"} \subseteq DOMAIN deal
  BY DEF RailInv
<1>2. /\ {"schedule", "rate", "rail"} \subseteq DOMAIN deal'
      /\ deal'.schedule = deal.schedule /\ deal'.rate = deal.rate /\ deal'.rail = deal.rail
  BY <1>1 DEF Noted
<1> QED
  BY <1>2, RailStays

LEMMA AppraiseKeepsRail == RailInv /\ (Start \/ Deliberate \/ Conclude) => RailInv'
<1> SUFFICES ASSUME RailInv, Start \/ Deliberate \/ Conclude PROVE RailInv'
  OBVIOUS
<1>1. CASE Start
  <2>1. PICK c \in Candidate, s \in Schedule :
          deal' = [candidate |-> c, schedule |-> s, rate |-> <<0, 1>>, rail |-> {}, answers |-> << >>]
    BY <1>1 DEF Start
  <2>2. stage' = "rail"
    BY <1>1 DEF Start
  <2> QED
    BY <2>1, <2>2 DEF RailInv
<1>2. CASE NoRail \/ Assess \/ Search
  <2>1. UNCHANGED deal /\ (stage \in {"idle", "asked"} <=> stage' \in {"idle", "asked"})
    BY <1>2 DEF NoRail, Assess, Search
  <2> QED
    BY <2>1 DEF RailInv
<1>3. CASE PlanRail
  <2>1. PICK capital \in Capital, quote \in Quote :
          IF Plannable(deal.schedule, capital, quote) /\ Drag(deal.schedule, capital, quote) >= 0
          THEN /\ deal' = [deal EXCEPT !.rate = ChargeRate(deal.schedule, capital, quote),
                                       !.rail = {<<capital, Drag(deal.schedule, capital, quote)>>}]
               /\ stage' = "value"
          ELSE stage' = "refused" /\ UNCHANGED deal
    BY <1>3 DEF PlanRail
  <2>2. stage = "rail"
    BY <1>3 DEF PlanRail
  <2> DEFINE s == deal.schedule
             rate == ChargeRate(s, capital, quote)
             drag == Drag(s, capital, quote)
  <2>3. CASE Plannable(s, capital, quote) /\ drag >= 0
    <3>1. deal' = [deal EXCEPT !.rate = rate, !.rail = {<<capital, drag>>}] /\ stage' = "value"
      BY <2>1, <2>3
    <3>2. {"schedule", "rate", "rail"} \subseteq DOMAIN deal /\ s \in Schedule
      BY <2>2 DEF RailInv
    <3>3. RailBlock(s, rate, <<capital, drag>>)
      BY <2>3 DEF RailBlock
    <3> HIDE DEF rate, drag
    <3>4. /\ {"schedule", "rate", "rail"} \subseteq DOMAIN deal'
          /\ deal'.schedule = s /\ deal'.rate = rate /\ deal'.rail = {<<capital, drag>>}
      BY <3>1, <3>2
    <3> HIDE DEF s
    <3>5. \A block \in deal'.rail : RailBlock(deal'.schedule, deal'.rate, block)
      BY <3>3, <3>4
    <3> QED
      BY <3>1, <3>2, <3>4, <3>5 DEF RailInv
  <2>4. CASE ~(Plannable(s, capital, quote) /\ drag >= 0)
    BY <2>1, <2>2, <2>4 DEF RailInv
  <2> QED
    BY <2>3, <2>4
<1>4. CASE Value
  <2>1. stage = "value" /\ stage' \in {"screen", "refused"}
    BY <1>4 DEF Value
  <2>2. CASE UNCHANGED deal
    BY <2>1, <2>2 DEF RailInv
  <2>3. CASE deal' = Noted([values |-> ValuesOf(deal.candidate, deal.schedule)])
    <3> DEFINE computed == [values |-> ValuesOf(deal.candidate, deal.schedule)]
    <3>1. {"schedule", "rate", "rail"} \cap DOMAIN computed = {} /\ deal' = Noted(computed)
      BY <2>3
    <3> HIDE DEF computed
    <3> QED
      BY <2>1, <3>1, NotingKeepsRail
  <2> QED
    BY <1>4, <2>2, <2>3 DEF Value
<1>5. CASE Screen
  <2> DEFINE e == Evaluate(deal.candidate, deal.values, deal.rate)
             computed == [evaluation |-> e, stage |-> "discovery", reasons |-> DiscoveryReasons(deal.candidate, e)]
  <2>1. stage = "screen" /\ stage' \in {"reserve", "assess"} /\ deal' = Noted(computed)
    BY <1>5 DEF Screen
  <2>2. {"schedule", "rate", "rail"} \cap DOMAIN computed = {}
    OBVIOUS
  <2> HIDE DEF computed
  <2> QED
    BY <2>1, <2>2, NotingKeepsRail
<1>6. CASE Reserve
  <2>1. PICK reserved : deal' = Noted([reserved |-> reserved, next |-> 1])
    BY <1>6 DEF Reserve
  <2> DEFINE computed == [reserved |-> reserved, next |-> 1]
  <2>2. stage = "reserve" /\ stage' = "requery" /\ deal' = Noted(computed)
    BY <1>6, <2>1 DEF Reserve
  <2>3. {"schedule", "rate", "rail"} \cap DOMAIN computed = {}
    OBVIOUS
  <2> HIDE DEF computed
  <2> QED
    BY <2>2, <2>3, NotingKeepsRail
<1>7. CASE Requery
  <2>1. PICK answers : deal' = [deal EXCEPT !.answers = answers, !.next = @ + 1]
    BY <1>7 DEF Requery
  <2>2. stage = "requery" /\ stage' = stage
    BY <1>7 DEF Requery
  <2>3. /\ DOMAIN deal' = DOMAIN deal
        /\ deal'.schedule = deal.schedule /\ deal'.rate = deal.rate /\ deal'.rail = deal.rail
    BY <2>1, <2>2 DEF RailInv
  <2> QED
    BY <2>2, <2>3, RailStays DEF RailInv
<1>8. CASE Gate
  <2> DEFINE reasons == CardReasons(deal.candidate, deal.evaluation, deal.answers, deal.reserved)
  <2>1. deal' = [deal EXCEPT !.stage = "operator_card", !.reasons = reasons]
    BY <1>8 DEF Gate
  <2>2. stage = "requery" /\ stage' = "assess"
    BY <1>8 DEF Gate
  <2> HIDE DEF reasons
  <2>3. /\ DOMAIN deal' = DOMAIN deal
        /\ deal'.schedule = deal.schedule /\ deal'.rate = deal.rate /\ deal'.rail = deal.rail
    BY <2>1, <2>2 DEF RailInv
  <2> QED
    BY <2>2, <2>3, RailStays DEF RailInv
<1>9. CASE Conclude \/ Refuse
  BY <1>9 DEF RailInv, Conclude, Refuse
<1>10. CASE AskSticker \/ AskCap \/ TakeCap
  BY <1>10 DEF RailInv, AskSticker, AskCap, TakeCap
<1> QED
  BY <1>1, <1>2, <1>3, <1>4, <1>5, <1>6, <1>7, <1>8, <1>9, <1>10 DEF Deliberate

(* The loss of the rail is not understated, and it is paid back.           *)
THEOREM RailPays == ReviewSpec => []RailPaysItself
<1>1. ReviewInit => RailInv
  BY DEF ReviewInit, AppraisalInit, RailInv
<1>2. RailInv /\ [ReviewNext]_reviewVars => RailInv'
  <2> SUFFICES ASSUME RailInv, [ReviewNext]_reviewVars PROVE RailInv'
    OBVIOUS
  <2>1. CASE Open \/ Appraise \/ MeasureLead
    BY <2>1, AppraiseKeepsRail DEF Open, Appraise, MeasureLead
  <2>2. CASE Review \/ UNCHANGED reviewVars
    <3>1. UNCHANGED <<stage, deal>>
      BY <2>2 DEF Review, reviewVars, appraisalVars
    <3> QED
      BY <3>1 DEF RailInv
  <2> QED
    BY <2>1, <2>2 DEF ReviewNext
<1>3. RailInv => RailPaysItself
  <2> SUFFICES ASSUME RailInv, deal # << >>, NEW block \in deal.rail
               PROVE  /\ OnRail(deal.schedule, "withdrawal", block[1])
                           + OnRail(deal.schedule, "conversion", block[1]) <= block[1]
                           => OnRail(deal.schedule, "deposit", block[1])
                                + OnRail(deal.schedule, "withdrawal", block[1])
                                + 2 * OnRail(deal.schedule, "conversion", block[1]) <= block[2]
                      /\ block[2] <= Contracts * ScaledUp(block[1], deal.rate)
    BY DEF RailPaysItself
  <2> DEFINE s == deal.schedule
  <2>1. s \in Schedule /\ RailBlock(s, deal.rate, block)
    BY DEF RailInv
  <2> HIDE DEF s
  <2>2. PICK capital \in Capital, quote \in Quote :
          /\ Plannable(s, capital, quote) /\ Drag(s, capital, quote) >= 0
          /\ block = <<capital, Drag(s, capital, quote)>> /\ deal.rate = ChargeRate(s, capital, quote)
    BY <2>1 DEF RailBlock
  <2>3. IsSchedule(s) /\ capital \in Int /\ IsQuote(quote)
    BY <2>1, AppraisalAssumption
  <2>4. /\ OnRail(s, "withdrawal", capital) + OnRail(s, "conversion", capital) <= capital
             => OnRail(s, "deposit", capital) + OnRail(s, "withdrawal", capital)
                  + 2 * OnRail(s, "conversion", capital) <= Drag(s, capital, quote)
        /\ Drag(s, capital, quote)
             <= Contracts * ScaledUp(capital, ChargeRate(s, capital, quote))
    BY <2>2, <2>3, RailCosts
  <2>5. block[1] = capital /\ block[2] = Drag(s, capital, quote)
    BY <2>2
  <2> QED
    BY <2>2, <2>4, <2>5 DEF s
<1> QED
  BY <1>1, <1>2, <1>3, PTL DEF ReviewSpec

-----------------------------------------------------------------------------
(* One recursion has one solution. *)
LEMMA SameRecursion ==
  ASSUME NEW n \in Nat, NEW w, NEW f, NEW g, f[0] = g[0],
         \A k \in 1..n : f[k] = w[k] * f[k - 1] /\ g[k] = w[k] * g[k - 1]
  PROVE  \A k \in 0..n : f[k] = g[k]
<1> DEFINE T == {k \in Nat : k <= n => f[k] = g[k]}
<1>1. 0 \in T
  OBVIOUS
<1>2. ASSUME NEW k \in T \cap Nat PROVE k + 1 \in T
  <2> SUFFICES ASSUME k + 1 <= n PROVE f[k + 1] = g[k + 1]
    OBVIOUS
  <2>1. k + 1 \in 1..n /\ (k + 1) - 1 = k /\ f[k] = g[k]
    BY <1>2
  <2> QED
    BY <2>1
<1> HIDE DEF T
<1>3. \A k \in Nat : k \in T
  BY <1>1, <1>2, Induction
<1> QED
  BY <1>3 DEF T

LEMMA PowerSteps ==
  ASSUME NEW b \in Int
  PROVE  Power(b, 0) = 1 /\ \A n \in Nat : Power(b, n + 1) = b * Power(b, n) /\ Power(b, n) \in Int
<1>1. Power(b, 0) = 1
  BY PowerFunction
<1>2. ASSUME NEW n \in Nat PROVE Power(b, n + 1) = b * Power(b, n) /\ Power(b, n) \in Int
  <2>1. PICK f : /\ f \in [0..n -> Int] /\ Power(b, n) = f[n] /\ f[0] = 1
                 /\ \A k \in 1..n : f[k] = b * f[k - 1]
    <3>1. PICK h \in [0..n -> Int] : /\ Power(b, n) = h[n] /\ h[0] = 1
                                     /\ \A k \in 1..n : h[k] = b * h[k - 1]
      BY PowerFunction
    <3> QED
      BY <3>1
  <2> DEFINE m == n + 1
  <2>2. m \in Nat
    OBVIOUS
  <2>3. PICK g : /\ g \in [0..m -> Int] /\ Power(b, m) = g[m] /\ g[0] = 1
                 /\ \A k \in 1..m : g[k] = b * g[k - 1]
    <3> HIDE DEF m
    <3>1. PICK h \in [0..m -> Int] : /\ Power(b, m) = h[m] /\ h[0] = 1
                                     /\ \A k \in 1..m : h[k] = b * h[k - 1]
      BY <2>2, PowerFunction
    <3> QED
      BY <3>1
  <2>4. f[n] = g[n]
    <3> DEFINE w == [k \in 1..n |-> b]
    <3>1. f[0] = g[0]
      BY <2>1, <2>3
    <3>2. \A k \in 1..n : f[k] = w[k] * f[k - 1] /\ g[k] = w[k] * g[k - 1]
      BY <2>1, <2>3
    <3> HIDE DEF w, m
    <3>3. \A k \in 0..n : f[k] = g[k]
      BY <3>1, <3>2, SameRecursion
    <3> QED
      BY <3>3
  <2>5. g[m] = b * g[n] /\ f[n] \in Int
    <3>1. m \in 1..m /\ m - 1 = n
      OBVIOUS
    <3> QED
      BY <2>1, <2>3, <3>1
  <2> QED
    BY <2>1, <2>3, <2>4, <2>5
<1> QED
  BY <1>1, <1>2

LEMMA PowerAdds ==
  ASSUME NEW b \in Int, NEW m \in Nat, NEW n \in Nat
  PROVE  Power(b, m + n) = Power(b, m) * Power(b, n)
<1> DEFINE T == {k \in Nat : Power(b, m + k) = Power(b, m) * Power(b, k)}
<1>1. 0 \in T
  <2>1. Power(b, 0) = 1 /\ Power(b, m) \in Int /\ m + 0 = m
    BY PowerSteps
  <2> QED
    BY <2>1
<1>2. ASSUME NEW k \in T \cap Nat PROVE k + 1 \in T
  <2>1. Power(b, k + 1) = b * Power(b, k) /\ Power(b, k) \in Int /\ Power(b, m) \in Int
    BY PowerSteps
  <2>2. Power(b, m + (k + 1)) = b * Power(b, m + k)
    <3>1. (m + k) + 1 = m + (k + 1) /\ m + k \in Nat
      OBVIOUS
    <3> QED
      BY <3>1, PowerSteps
  <2>3. b * Power(b, m + k) = Power(b, m) * (b * Power(b, k))
    BY <1>2, <2>1
  <2> QED
    BY <2>1, <2>2, <2>3
<1> HIDE DEF T
<1>3. n \in T
  BY <1>1, <1>2, Induction
<1> QED
  BY <1>3 DEF T

(* The chance of getting past one purchase more. *)
LEMMA ReachedSteps ==
  ASSUME NEW bundle, IsBundle(bundle), NEW order \in Arrangements(bundle)
  PROVE  /\ Reached(order, 1)[1] = 1
         /\ \A k \in 1..(Len(bundle) + 1) : Reached(order, k)[1] \in Nat
         /\ \A k \in 1..Len(bundle) :
              Reached(order, k + 1)[1] = Survival(order[k]) * Reached(order, k)[1]
<1> DEFINE n == Len(bundle)
           R(m, f) == /\ f \in [0..m -> Nat]
                      /\ Reached(order, m + 1) = <<f[m], Power(SurvivalGrid, m)>>
                      /\ f[0] = 1 /\ \A j \in 1..m : f[j] = Survival(order[j]) * f[j - 1]
<1>1. n \in Nat /\ \A j \in 1..n : Survival(order[j]) \in Nat
  BY ArrangementIs, SurvivalNat DEF IsBundle
<1> HIDE DEF n
<1>2. ASSUME NEW m \in 0..n PROVE \E f : R(m, f)
  <2>1. PICK f \in [0..m -> Nat] : /\ Reached(order, m + 1) = <<f[m], Power(SurvivalGrid, m)>>
                                   /\ f[0] = 1 /\ \A j \in 1..m : f[j] = f[j - 1] * Survival(order[j])
    BY <1>1, ReachedFunction
  <2>2. ASSUME NEW j \in 1..m PROVE f[j] = Survival(order[j]) * f[j - 1]
    <3>1. Survival(order[j]) \in Nat /\ f[j - 1] \in Nat
      BY <1>1
    <3> QED
      BY <2>1, <3>1
  <2> QED
    BY <2>1, <2>2
<1>3. ASSUME NEW m \in 0..n PROVE Reached(order, m + 1)[1] \in Nat
  <2>1. PICK f : R(m, f)
    BY <1>2
  <2>2. f[m] \in Nat
    BY <2>1
  <2> QED
    BY <2>1, <2>2
<1>4. Reached(order, 1)[1] = 1
  <2> DEFINE m == 0
  <2>1. m \in 0..n /\ m + 1 = 1
    BY <1>1
  <2>2. PICK f : R(m, f)
    BY <1>2, <2>1
  <2> QED
    BY <2>1, <2>2
<1>5. ASSUME NEW k \in 1..n
      PROVE  Reached(order, k + 1)[1] = Survival(order[k]) * Reached(order, k)[1]
  <2> DEFINE m == k - 1
  <2>1. m \in 0..n /\ m + 1 = k /\ k \in 0..n /\ k \in 1..k /\ m \in Nat
    BY <1>1
  <2>2. PICK f : R(k, f)
    BY <1>2, <2>1
  <2>3. PICK g : R(m, g)
    BY <1>2, <2>1
  <2>4. f[m] = g[m]
    <3> DEFINE w == [j \in 1..m |-> Survival(order[j])]
    <3>1. f[0] = g[0]
      BY <2>2, <2>3
    <3>2. \A j \in 1..m : f[j] = w[j] * f[j - 1] /\ g[j] = w[j] * g[j - 1]
      <4>1. \A j \in 1..m : w[j] = Survival(order[j]) /\ j \in 1..k
        BY <2>1
      <4> HIDE DEF w
      <4> QED
        BY <2>2, <2>3, <4>1
    <3> HIDE DEF w, m, R
    <3>3. \A j \in 0..m : f[j] = g[j]
      BY <2>1, <3>1, <3>2, SameRecursion
    <3> QED
      BY <2>1, <3>3
  <2>5. f[k] = Survival(order[k]) * f[m]
    BY <2>1, <2>2
  <2>6. Reached(order, k + 1)[1] = f[k] /\ Reached(order, m + 1)[1] = g[m]
    BY <2>2, <2>3
  <2> QED
    BY <2>1, <2>4, <2>5, <2>6
<1>6. ASSUME NEW k \in 1..(n + 1) PROVE Reached(order, k)[1] \in Nat
  <2> DEFINE m == k - 1
  <2>1. m \in 0..n /\ m + 1 = k
    BY <1>1
  <2> HIDE DEF m
  <2> QED
    BY <1>3, <2>1
<1> QED
  BY <1>4, <1>5, <1>6 DEF n

-----------------------------------------------------------------------------
(* The chance that the first k purchases of an order are made, in steps    *)
(* that are the same for every k.                                          *)
Alive(order, k) == Reached(order, k + 1)[1] * Power(SurvivalGrid, Len(order) - k)

LEMMA AliveFacts ==
  ASSUME NEW bundle, IsBundle(bundle), NEW order \in Arrangements(bundle)
  PROVE  /\ Alive(order, 0) = Power(SurvivalGrid, Len(order))
         /\ \A k \in 0..Len(order) : Alive(order, k) \in Nat
         /\ \A k \in 1..Len(order) :
              FailsAt(order, k)[1] * Power(SurvivalGrid, Len(order) - k)
                = Alive(order, k - 1) - Alive(order, k)
<1> DEFINE n == Len(order)
           G == SurvivalGrid
<1>1. n \in Nat \ {0} /\ DOMAIN order = 1..n /\ n = Len(bundle) /\ G \in Nat \ {0}
  BY ArrangementIs, PartialFillAssumption DEF IsBundle
<1>2. /\ Reached(order, 1)[1] = 1
      /\ \A k \in 1..(n + 1) : Reached(order, k)[1] \in Nat
      /\ \A k \in 1..n : Reached(order, k + 1)[1] = Survival(order[k]) * Reached(order, k)[1]
  BY <1>1, ReachedSteps
<1>3. \A k \in 1..n : Survival(order[k]) \in Nat
  BY <1>1, SurvivalNat
<1> HIDE DEF n
<1>4. \A k \in Nat : Power(G, k) \in Nat
  BY <1>1, PowerPositive
<1> HIDE DEF G
<1>5. \A k \in 0..n : Alive(order, k) = Reached(order, k + 1)[1] * Power(G, n - k)
  BY DEF Alive, n, G
<1>6. Alive(order, 0) = Power(G, n)
  <2>1. 0 \in 0..n /\ 0 + 1 = 1 /\ n - 0 = n /\ n \in Nat
    BY <1>1
  <2> QED
    BY <1>2, <1>4, <1>5, <2>1
<1>7. ASSUME NEW k \in 0..n PROVE Alive(order, k) \in Nat
  <2>1. k + 1 \in 1..(n + 1) /\ n - k \in Nat
    BY <1>1
  <2>2. Reached(order, k + 1)[1] \in Nat /\ Power(G, n - k) \in Nat
    BY <1>2, <1>4, <2>1
  <2> QED
    BY <1>5, <2>2, Product
<1>8. ASSUME NEW k \in 1..n
      PROVE  FailsAt(order, k)[1] * Power(G, n - k) = Alive(order, k - 1) - Alive(order, k)
  <2> DEFINE r == Reached(order, k)[1]
             s == Survival(order[k])
             p == Power(G, n - k)
  <2>1. /\ k \in 0..n /\ k - 1 \in 0..n /\ (k - 1) + 1 = k /\ n - k \in Nat /\ n - (k - 1) = (n - k) + 1
        /\ k \in 1..(n + 1)
    BY <1>1
  <2>2. r \in Nat /\ s \in Nat /\ p \in Nat /\ G \in Nat
    BY <1>1, <1>2, <1>3, <1>4, <2>1
  <2>3. FailsAt(order, k)[1] = r * (G - s)
    BY DEF FailsAt, G
  <2>4. Power(G, n - (k - 1)) = G * p
    <3>1. Power(G, (n - k) + 1) = G * Power(G, n - k)
      BY <2>1, <2>2, PowerSteps
    <3> QED
      BY <2>1, <3>1
  <2>5. Alive(order, k - 1) = r * (G * p)
    BY <1>5, <2>1, <2>4
  <2>6. Alive(order, k) = (s * r) * p
    BY <1>2, <1>5, <2>1
  <2> HIDE DEF r, s, p
  <2>7. (r * (G - s)) * p = r * (G * p) - (s * r) * p
    BY <2>2
  <2> QED
    BY <2>3, <2>5, <2>6, <2>7 DEF p
<1> QED
  BY <1>6, <1>7, <1>8 DEF n, G

(* One part of the reserve covers the loss it is for, and by less than one *)
(* unit.                                                                   *)
LEMMA PartCovers ==
  ASSUME NEW bundle, IsBundle(bundle), NEW order \in Arrangements(bundle), NEW k \in 1..Len(order)
  PROVE  /\ ScaledUp(LossAt(order, k), FailsAt(order, k)) \in Nat
         /\ LossAt(order, k) * FailsAt(order, k)[1] * Power(SurvivalGrid, Len(order) - k)
              = LossAt(order, k) * (Alive(order, k - 1) - Alive(order, k))
         /\ LossAt(order, k) * FailsAt(order, k)[1] * Power(SurvivalGrid, Len(order) - k)
              <= Power(SurvivalGrid, Len(order)) * ScaledUp(LossAt(order, k), FailsAt(order, k))
         /\ Power(SurvivalGrid, Len(order)) * ScaledUp(LossAt(order, k), FailsAt(order, k))
              <= MaxExposure(order) * (Alive(order, k - 1) - Alive(order, k))
                   + Power(SurvivalGrid, Len(order))
<1> DEFINE n == Len(order)
           G == SurvivalGrid
           loss == LossAt(order, k)
           fails == FailsAt(order, k)[1]
           rest == Power(G, n - k)
           part == RoundUp(loss * fails, Power(G, k))
           most == MaxExposure(order)
           gone == Alive(order, k - 1) - Alive(order, k)
<1>1. n \in Nat \ {0} /\ DOMAIN order = 1..n /\ k \in DOMAIN order /\ G \in Nat \ {0} /\ k \in Nat /\ n - k \in Nat
      /\ k + (n - k) = n
  BY ArrangementIs, PartialFillAssumption DEF IsBundle
<1>2. Power(G, k) \in Nat \ {0} /\ rest \in Nat \ {0} /\ Power(G, n) \in Nat \ {0}
  <2> HIDE DEF n, G
  <2> QED
    BY <1>1, PowerPositive
<1>3. Power(G, n) = Power(G, k) * rest
  <2> HIDE DEF n, G
  <2>1. Power(G, k + (n - k)) = Power(G, k) * Power(G, n - k)
    BY <1>1, PowerAdds
  <2> QED
    BY <1>1, <2>1
<1>4. loss \in Nat /\ FailsAt(order, k) \in Fraction
  BY <1>1, LossFacts
<1>5. fails \in Nat
  BY <1>4 DEF Fraction
<1>6. fails * rest = gone
  BY AliveFacts
<1>7. most \in Nat /\ loss <= most
  BY <1>1, AssessmentFacts
<1>8. gone \in Nat
  <2> HIDE DEF gone, fails, rest
  <2> QED
    BY <1>2, <1>5, <1>6, Product
<1>9. ScaledUp(LossAt(order, k), FailsAt(order, k)) = part
  BY DEF ScaledUp, FailsAt
<1>10. ScaledUp(LossAt(order, k), FailsAt(order, k)) \in Nat
  BY <1>4, Scaling
<1>11. loss * fails * rest = loss * (fails * rest)
  <2> HIDE DEF loss, fails, rest
  <2> QED
    BY <1>2, <1>4, <1>5
<1> DEFINE w == Power(G, k)
           x == loss * fails
<1>12. x \in Nat
  <2> HIDE DEF loss, fails
  <2> QED
    BY <1>4, <1>5, Product
<1>13. x <= w * part /\ w * (part - 1) < x /\ part \in Nat
  <2>1. part \in Nat
    BY <1>9, <1>10
  <2>2. x \in Int /\ w \in Nat \ {0} /\ part = RoundUp(x, w)
    BY <1>2, <1>12
  <2> HIDE DEF x, w, part
  <2>3. x <= w * RoundUp(x, w) /\ w * (RoundUp(x, w) - 1) < x
    BY <2>2, Rounding
  <2> QED
    BY <2>1, <2>2, <2>3
<1>14. x * rest <= Power(G, n) * part
  <2> HIDE DEF x, w, part, rest
  <2>1. rest * x <= rest * (w * part)
    <3>1. w * part \in Int /\ x \in Int /\ rest \in Nat
      BY <1>2, <1>12, <1>13 DEF w
    <3> QED
      BY <1>13, <3>1, Monotone
  <2>2. rest * x = x * rest /\ rest * (w * part) = (w * rest) * part
    BY <1>2, <1>12, <1>13 DEF w
  <2> QED
    BY <1>3, <2>1, <2>2 DEF w
<1>15. Power(G, n) * part <= most * gone + Power(G, n)
  <2>1. x * rest = loss * gone
    BY <1>6, <1>11
  <2> HIDE DEF x, w, part, rest, loss, gone, most
  <2>2. rest * (w * (part - 1)) <= rest * x
    <3>1. w * (part - 1) \in Int /\ x \in Int /\ rest \in Nat /\ w * (part - 1) <= x
      BY <1>2, <1>12, <1>13 DEF w
    <3> QED
      BY <3>1, Monotone
  <2>3. rest * (w * (part - 1)) = (w * rest) * part - w * rest /\ rest * x = x * rest
    BY <1>2, <1>12, <1>13 DEF w
  <2>4. gone * loss <= gone * most
    BY <1>4, <1>7, <1>8, Monotone
  <2>5. gone * loss = loss * gone /\ gone * most = most * gone
    BY <1>4, <1>7, <1>8
  <2>6. Power(G, n) * part - Power(G, n) <= most * gone
    <3>1. /\ loss * gone \in Int /\ most * gone \in Int /\ rest * x \in Int
          /\ Power(G, n) * part - Power(G, n) \in Int /\ rest * (w * (part - 1)) \in Int
      <4>1. loss * gone \in Int /\ most * gone \in Int
        BY <1>4, <1>7, <1>8
      <4>2. rest \in Int /\ x \in Int /\ w \in Int /\ part \in Int /\ Power(G, n) \in Int
        BY <1>2, <1>12, <1>13 DEF w
      <4>3. Power(G, n) * part \in Int /\ w * (part - 1) \in Int /\ rest * x \in Int
        BY <4>2
      <4>4. rest * (w * (part - 1)) \in Int
        BY <4>2, <4>3
      <4> QED
        BY <4>1, <4>2, <4>3, <4>4
    <3>2. Power(G, n) * part - Power(G, n) = rest * (w * (part - 1))
      BY <1>3, <2>3 DEF w
    <3>3. rest * (w * (part - 1)) <= loss * gone
      <4>1. rest * x = loss * gone
        BY <2>1, <2>3
      <4> QED
        BY <2>2, <4>1
    <3>4. loss * gone <= most * gone
      BY <2>4, <2>5
    <3> QED
      BY <3>1, <3>2, <3>3, <3>4
  <2>7. Power(G, n) * part \in Int /\ Power(G, n) \in Int /\ most * gone \in Int
    BY <1>2, <1>7, <1>8, <1>13
  <2> QED
    BY <2>6, <2>7
<1>16. loss * fails * rest <= Power(G, n) * part
  BY <1>14
<1> HIDE DEF part
<1> QED
  BY <1>6, <1>9, <1>10, <1>11, <1>15, <1>16

(* Together the parts cover the exact expectation, and exceed the worst    *)
(* single failure by less than a unit for each purchase.                   *)
LEMMA ReserveBounds ==
  ASSUME NEW bundle, IsBundle(bundle), NEW order \in Arrangements(bundle)
  PROVE  /\ ExactLoss(order) <= ExpectedLoss(order) * Power(SurvivalGrid, Len(order))
         /\ ExpectedLoss(order) <= MaxExposure(order) + Len(order)
<1> DEFINE n == Len(order)
           G == SurvivalGrid
           D == 1..n
           unit == Power(G, n)
           most == MaxExposure(order)
           loss == [k \in D |-> LossAt(order, k) * FailsAt(order, k)[1] * Power(G, n - k)]
           part == [k \in D |-> ScaledUp(LossAt(order, k), FailsAt(order, k))]
           parts == [k \in D |-> unit * part[k]]
           v == [k \in 0..n |-> most * Alive(order, k) - unit * k]
           w == [k \in D |-> v[k - 1] - v[k]]
<1>1. n \in Nat \ {0} /\ DOMAIN order = D /\ G \in Nat \ {0} /\ IsFiniteSet(D)
  <2>1. n \in Nat \ {0} /\ DOMAIN order = D /\ G \in Nat \ {0}
    BY ArrangementIs, PartialFillAssumption DEF IsBundle
  <2>2. IsFiniteSet(1..n)
    BY <2>1, FS_Interval
  <2> QED
    BY <2>1, <2>2
<1>2. unit \in Nat \ {0} /\ most \in Nat
  <2>1. unit \in Nat \ {0}
    BY <1>1, PowerPositive
  <2> QED
    BY <2>1, AssessmentFacts
<1>3. ASSUME NEW k \in 0..n PROVE Alive(order, k) \in Nat
  BY AliveFacts
<1>4. ASSUME NEW k \in D
      PROVE  /\ part[k] \in Nat /\ parts[k] = unit * part[k]
             /\ loss[k] = LossAt(order, k) * (Alive(order, k - 1) - Alive(order, k))
             /\ loss[k] <= parts[k]
             /\ parts[k] <= most * (Alive(order, k - 1) - Alive(order, k)) + unit
  <2>1. /\ ScaledUp(LossAt(order, k), FailsAt(order, k)) \in Nat
        /\ LossAt(order, k) * FailsAt(order, k)[1] * Power(SurvivalGrid, Len(order) - k)
             = LossAt(order, k) * (Alive(order, k - 1) - Alive(order, k))
        /\ LossAt(order, k) * FailsAt(order, k)[1] * Power(SurvivalGrid, Len(order) - k)
             <= Power(SurvivalGrid, Len(order)) * ScaledUp(LossAt(order, k), FailsAt(order, k))
        /\ Power(SurvivalGrid, Len(order)) * ScaledUp(LossAt(order, k), FailsAt(order, k))
             <= MaxExposure(order) * (Alive(order, k - 1) - Alive(order, k))
                  + Power(SurvivalGrid, Len(order))
    BY PartCovers
  <2> QED
    BY <2>1
<1>5. ASSUME NEW k \in D
      PROVE  /\ loss[k] \in Int /\ parts[k] \in Int
             /\ v[k - 1] \in Int /\ v[k] \in Int /\ w[k] = v[k - 1] - v[k]
             /\ parts[k] <= w[k]
  <2>1. k - 1 \in 0..n /\ k \in 0..n /\ k \in Nat
    BY <1>1
  <2>2. Alive(order, k - 1) \in Nat /\ Alive(order, k) \in Nat
    BY <1>3, <2>1
  <2>3. LossAt(order, k) \in Nat
    BY <1>1, LossFacts
  <2>4. v[k - 1] = most * Alive(order, k - 1) - unit * (k - 1) /\ v[k] = most * Alive(order, k) - unit * k
    BY <2>1
  <2>5. w[k] = v[k - 1] - v[k]
    OBVIOUS
  <2>6. loss[k] = LossAt(order, k) * (Alive(order, k - 1) - Alive(order, k))
        /\ parts[k] = unit * part[k] /\ part[k] \in Nat
        /\ parts[k] <= most * (Alive(order, k - 1) - Alive(order, k)) + unit
    BY <1>4
  <2> HIDE DEF loss, parts, part, v, w, unit, most
  <2>7. w[k] = most * (Alive(order, k - 1) - Alive(order, k)) + unit
    BY <1>2, <2>1, <2>2, <2>4, <2>5
  <2>8. v[k - 1] \in Int /\ v[k] \in Int
    BY <1>2, <2>1, <2>2, <2>4
  <2>9. parts[k] \in Int
    BY <1>2, <2>6
  <2>10. loss[k] \in Int
    BY <2>2, <2>3, <2>6
  <2>11. parts[k] <= w[k]
    BY <2>6, <2>7
  <2> QED
    BY <2>5, <2>8, <2>9, <2>10, <2>11
<1>6. ExactLoss(order) = SumOver(D, loss) /\ ExpectedLoss(order) = SumOver(D, part)
  BY <1>1 DEF ExactLoss, ExpectedLoss
<1>7. \A k \in 0..n : v[k] \in Int
  <2> SUFFICES ASSUME NEW k \in 0..n PROVE v[k] \in Int
    OBVIOUS
  <2>1. v[k] = most * Alive(order, k) - unit * k /\ Alive(order, k) \in Nat /\ k \in Nat
    BY <1>3
  <2> HIDE DEF v, most, unit
  <2> QED
    BY <1>2, <2>1
<1>8. v[0] = most * unit /\ v[n] = most * Alive(order, n) - unit * n
  <2>1. 0 \in 0..n /\ n \in 0..n
    BY <1>1
  <2>2. v[0] = most * Alive(order, 0) - unit * 0 /\ v[n] = most * Alive(order, n) - unit * n
    BY <2>1
  <2>3. Alive(order, 0) = unit
    BY AliveFacts
  <2> HIDE DEF v
  <2> QED
    BY <1>2, <2>2, <2>3
<1> HIDE DEF loss, part, parts, v, w, D, unit, most
<1>9. SumOver(D, loss) <= SumOver(D, parts) /\ SumOver(D, loss) \in Int /\ SumOver(D, parts) \in Int
  BY <1>1, <1>4, <1>5, SumMonotone
<1>10. SumOver(D, parts) = unit * SumOver(D, part) /\ SumOver(D, part) \in Int
  <2>1. Multiplied(D, part, parts, unit)
    BY <1>4 DEF Multiplied
  <2>2. unit \in Int
    BY <1>2
  <2> QED
    BY <1>1, <2>1, <2>2, SumScaled
<1>11. SumOver(D, parts) <= SumOver(D, w) /\ SumOver(D, w) \in Int
  <2>1. \A k \in D : parts[k] \in Int /\ w[k] \in Int /\ parts[k] <= w[k]
    BY <1>5
  <2> QED
    BY <1>1, <2>1, SumMonotone
<1>12. SumOver(D, w) = v[0] - v[n]
  <2>1. n \in Nat /\ \A k \in 1..n : w[k] = v[k - 1] - v[k]
    BY <1>1, <1>5 DEF D
  <2> HIDE DEF n
  <2>2. SumOver(1..n, w) = v[0] - v[n]
    BY <1>7, <2>1, Telescope
  <2> QED
    BY <2>2 DEF D
<1>13. ExactLoss(order) <= ExpectedLoss(order) * unit
  BY <1>2, <1>6, <1>9, <1>10
<1>14. unit * SumOver(D, part) <= unit * (most + n)
  <2>1. n \in 0..n
    BY <1>1
  <2>2. Alive(order, n) \in Nat
    BY <1>3, <2>1
  <2>3. most * Alive(order, n) \in Nat
    BY <1>2, <2>2, Product
  <2>4. v[0] - v[n] = most * unit - most * Alive(order, n) + unit * n
    BY <1>1, <1>2, <1>8, <2>3
  <2>5. unit * (most + n) = most * unit + unit * n /\ most * unit \in Int /\ unit * n \in Int
    BY <1>1, <1>2
  <2> DEFINE x == most * Alive(order, n)
             y == most * unit
             z == unit * n
             total == SumOver(D, parts)
             above == SumOver(D, w)
  <2>6. /\ x \in Nat /\ y \in Int /\ z \in Int /\ total \in Int /\ above \in Int
        /\ total <= above /\ above = y - x + z /\ unit * (most + n) = y + z
        /\ unit * SumOver(D, part) = total
    BY <1>9, <1>10, <1>11, <1>12, <2>3, <2>4, <2>5
  <2> HIDE DEF n, x, y, z, total, above
  <2> QED
    BY <2>6
<1>15. SumOver(D, part) <= most + n
  <2>1. most + n \in Int
    BY <1>1, <1>2
  <2> HIDE DEF n
  <2> QED
    BY <1>2, <1>10, <1>14, <2>1, Cancel
<1> QED
  BY <1>6, <1>13, <1>15 DEF unit, most

(* The reserve covers the orphans of every incomplete bundle.              *)
THEOREM ReserveCovers == ReviewSpec => []ReserveCoversOrphans
<1>1. ASSUME ReviewInv PROVE ReserveCoversOrphans
  <2> DEFINE c == deal.candidate
             e == deal.evaluation
             order == PurchaseSequence(c.inputs)
  <2> SUFFICES ASSUME Evaluated
               PROVE  /\ ExactLoss(order) <= e.reserve * Power(SurvivalGrid, Len(order))
                      /\ e.reserve <= e.orphan + Len(order)
    BY DEF ReserveCoversOrphans
  <2>1. DealInv /\ Valued /\ e = Evaluate(c, deal.values, deal.rate)
    BY <1>1 DEF ReviewInv, DealInv, Evaluated, Valued, Judging
  <2>2. e.reserve = ExpectedLoss(order) /\ e.orphan = MaxExposure(order)
    <3> HIDE DEF c, e
    <3> QED
      BY <2>1 DEF Evaluate, Assessment, order
  <2>3. IsBundle(c.inputs)
    BY <2>1, ValuesAre DEF IsCandidate
  <2>4. order \in Arrangements(c.inputs)
    BY <2>3, SequenceIs
  <2> HIDE DEF c, e, order
  <2> QED
    BY <2>2, <2>3, <2>4, ReserveBounds
<1> QED
  BY <1>1, ReviewInitEstablishes, ReviewPreserves, PTL DEF ReviewSpec

-----------------------------------------------------------------------------
Factors(n, w) == \A j \in 1..n : w[j] \in Nat
Ascending(n, w) == \A i, j \in 1..n : i <= j => w[i] <= w[j]

(* The product of the factors w[j] with j in A, taken along 1..n.          *)
IsProduct(q, n, w, A) ==
  /\ q \in [0..n -> Nat] /\ q[0] = 1
  /\ \A j \in 1..n : q[j] = IF j \in A THEN w[j] * q[j - 1] ELSE q[j - 1]

ProductOf(n, w, A) == (CHOOSE q : IsProduct(q, n, w, A))[n]

LEMMA ProductIs ==
  ASSUME NEW n \in Nat, NEW w, Factors(n, w), NEW A
  PROVE  \E q : IsProduct(q, n, w, A) /\ ProductOf(n, w, A) = q[n]
<1> DEFINE g == [p \in (1..n) \X Nat |-> IF p[1] \in A THEN w[p[1]] * p[2] ELSE p[2]]
<1>1. g \in [(1..n) \X Nat -> Nat]
  <2>1. ASSUME NEW j \in 1..n, NEW x \in Nat PROVE w[j] * x \in Nat
    BY Product DEF Factors
  <2> QED
    BY <2>1
<1>2. \A j \in 1..n, x \in Nat : g[<<j, x>>] = IF j \in A THEN w[j] * x ELSE x
  OBVIOUS
<1> HIDE DEF g
<1>3. PICK f \in [0..n -> Nat] : Recurses(f, n, 1, g)
  <2>1. 1 \in Nat
    OBVIOUS
  <2> QED
    BY <1>1, <2>1, RecursionExists, Zenon
<1>4. IsProduct(f, n, w, A)
  <2>1. ASSUME NEW j \in 1..n PROVE f[j] = IF j \in A THEN w[j] * f[j - 1] ELSE f[j - 1]
    <3>1. f[j - 1] \in Nat /\ f[j] = g[<<j, f[j - 1]>>]
      BY <1>3 DEF Recurses
    <3> QED
      BY <1>2, <3>1
  <2> QED
    BY <1>3, <2>1 DEF IsProduct, Recurses
<1> QED
  BY <1>4 DEF ProductOf

(* What the product is without one of its factors. *)
LEMMA ProductRemove ==
  ASSUME NEW n \in Nat, NEW w, Factors(n, w), NEW A, NEW x \in A, x \in 1..n,
         NEW B, B = A \ {x}
  PROVE  /\ ProductOf(n, w, A) \in Nat /\ ProductOf(n, w, B) \in Nat
         /\ ProductOf(n, w, A) = w[x] * ProductOf(n, w, B)
<1>1. PICK q : IsProduct(q, n, w, A) /\ ProductOf(n, w, A) = q[n]
  BY ProductIs
<1>2. PICK r : IsProduct(r, n, w, B) /\ ProductOf(n, w, B) = r[n]
  BY ProductIs
<1> DEFINE T == {j \in Nat : j <= n => q[j] = IF x <= j THEN w[x] * r[j] ELSE r[j]}
<1>3. 0 \in T
  BY <1>1, <1>2 DEF IsProduct
<1>4. ASSUME NEW j \in T \cap Nat PROVE j + 1 \in T
  <2> SUFFICES ASSUME j + 1 <= n
               PROVE  q[j + 1] = IF x <= j + 1 THEN w[x] * r[j + 1] ELSE r[j + 1]
    OBVIOUS
  <2> DEFINE k == j + 1
  <2>1. k \in 1..n /\ k - 1 = j /\ j \in 0..n /\ k \in Nat
    OBVIOUS
  <2>2. /\ q[k] = IF k \in A THEN w[k] * q[j] ELSE q[j]
        /\ r[k] = IF k \in B THEN w[k] * r[j] ELSE r[j]
        /\ r[j] \in Nat /\ q[j] \in Nat
    BY <1>1, <1>2, <2>1 DEF IsProduct
  <2>3. q[j] = IF x <= j THEN w[x] * r[j] ELSE r[j]
    BY <1>4
  <2>4. w[x] \in Nat /\ w[k] \in Nat
    BY <2>1 DEF Factors
  <2>5. CASE k = x
    <3>1. k \in A /\ k \notin B /\ ~(x <= j) /\ x <= k
      BY <2>1, <2>5
    <3> QED
      BY <2>2, <2>3, <2>5, <3>1
  <2>6. CASE k # x
    <3>1. (k \in A <=> k \in B) /\ (x <= k <=> x <= j)
      BY <2>1, <2>6
    <3>2. CASE k \notin A
      BY <2>2, <2>3, <3>1, <3>2
    <3>3. CASE k \in A
      <4>1. w[k] * (w[x] * r[j]) = w[x] * (w[k] * r[j])
        <5> HIDE DEF k
        <5> QED
          BY <2>2, <2>4
      <4> QED
        BY <2>2, <2>3, <3>1, <3>3, <4>1
    <3> QED
      BY <3>2, <3>3
  <2> QED
    BY <2>5, <2>6
<1> HIDE DEF T
<1>5. n \in T
  BY <1>3, <1>4, Induction
<1>6. q[n] = w[x] * r[n]
  BY <1>5 DEF T
<1>7. q[n] \in Nat /\ r[n] \in Nat
  BY <1>1, <1>2 DEF IsProduct
<1> QED
  BY <1>1, <1>2, <1>6, <1>7

LEMMA ProductEmpty ==
  ASSUME NEW n \in Nat, NEW w, Factors(n, w)
  PROVE  ProductOf(n, w, {}) = 1
<1>1. PICK q : IsProduct(q, n, w, {}) /\ ProductOf(n, w, {}) = q[n]
  BY ProductIs
<1> DEFINE T == {j \in Nat : j <= n => q[j] = 1}
<1>2. 0 \in T
  BY <1>1 DEF IsProduct
<1>3. ASSUME NEW j \in T \cap Nat PROVE j + 1 \in T
  <2> SUFFICES ASSUME j + 1 <= n PROVE q[j + 1] = 1
    OBVIOUS
  <2>1. j + 1 \in 1..n /\ (j + 1) - 1 = j /\ q[j] = 1
    BY <1>3
  <2> QED
    BY <1>1, <2>1 DEF IsProduct
<1> HIDE DEF T
<1>4. n \in T
  BY <1>2, <1>3, Induction
<1> QED
  BY <1>1, <1>4 DEF T

(* Of all the products of k factors, that of the k smallest is the least.  *)
LEMMA LeastProduct ==
  ASSUME NEW n \in Nat, NEW w, Factors(n, w),
         Ascending(n, w)
  PROVE  \A k \in 0..n : \A A \in SUBSET (1..n) :
           Cardinality(A) = k => ProductOf(n, w, 1..k) <= ProductOf(n, w, A)
<1> DEFINE P(A) == ProductOf(n, w, A)
           T == {k \in Nat : k <= n => \A A \in SUBSET (1..n) : Cardinality(A) = k => P(1..k) <= P(A)}
<1>0. ASSUME NEW A \in SUBSET (1..n) PROVE IsFiniteSet(A)
  <2>1. IsFiniteSet(1..n)
    BY FS_Interval
  <2> QED
    BY <2>1, FS_Subset
<1>00. ASSUME NEW A, NEW x \in A, x \in 1..n
       PROVE  P(A) \in Nat /\ P(A \ {x}) \in Nat /\ P(A) = w[x] * P(A \ {x})
  BY <1>00, ProductRemove
<1>000. P({}) = 1
  BY ProductEmpty
<1> HIDE DEF P
<1>1. 0 \in T
  <2>1. ASSUME NEW A \in SUBSET (1..n), Cardinality(A) = 0 PROVE P(1..0) <= P(A)
    <3>1. A = {} /\ 1..0 = {}
      BY <1>0, <2>1, FS_EmptySet
    <3> QED
      BY <1>000, <3>1
  <2> QED
    BY <2>1
<1>2. ASSUME NEW k \in T \cap Nat PROVE k + 1 \in T
  <2> SUFFICES ASSUME k + 1 <= n, NEW A \in SUBSET (1..n), Cardinality(A) = k + 1
               PROVE  P(1..(k + 1)) <= P(A)
    OBVIOUS
  <2>1. A # {} /\ A \in SUBSET Int /\ IsFiniteSet(A)
    <3>1. A # {}
      <4> SUFFICES ASSUME A = {} PROVE FALSE
        OBVIOUS
      <4>1. Cardinality(A) = 0
        BY FS_EmptySet
      <4> QED
        BY <4>1
    <3> QED
      BY <1>0, <3>1
  <2> DEFINE x == Max(A)
             B == A \ {x}
  <2>2. x \in A /\ \A y \in A : y <= x
    BY <2>1, MaxIs
  <2> HIDE DEF x
  <2>3. x \in 1..n /\ A \subseteq 1..x
    <3>1. x \in 1..n
      BY <2>2
    <3>2. ASSUME NEW y \in A PROVE y \in 1..x
      BY <2>2, <3>1
    <3> QED
      BY <3>1, <3>2
  <2>4. k + 1 <= x
    <3>1. IsFiniteSet(1..x) /\ Cardinality(1..x) = x
      BY <2>3, FS_Interval
    <3>2. Cardinality(A) <= Cardinality(1..x)
      BY <2>3, <3>1, FS_Subset
    <3> QED
      BY <3>1, <3>2
  <2>5. B \in SUBSET (1..n) /\ Cardinality(B) = k
    <3>1. Cardinality(B) = Cardinality(A) - 1
      BY <2>1, <2>2, FS_RemoveElement
    <3>2. (k + 1) - 1 = k
      OBVIOUS
    <3>3. B \in SUBSET (1..n)
      OBVIOUS
    <3> QED
      BY <3>1, <3>2, <3>3
  <2>6. P(1..k) <= P(B)
    BY <1>2, <2>5
  <2>7. P(A) = w[x] * P(B) /\ P(A) \in Nat /\ P(B) \in Nat
    BY <1>00, <2>2, <2>3
  <2>8. P(1..(k + 1)) = w[k + 1] * P(1..k) /\ P(1..(k + 1)) \in Nat /\ P(1..k) \in Nat
    <3> DEFINE y == k + 1
               C == 1..y
    <3>1. y \in C /\ y \in 1..n /\ C \ {y} = 1..k
      OBVIOUS
    <3> HIDE DEF y, C
    <3>2. P(C) = w[y] * P(C \ {y}) /\ P(C) \in Nat /\ P(C \ {y}) \in Nat
      BY <1>00, <3>1
    <3> QED
      BY <3>1, <3>2 DEF y, C
  <2>9. w[k + 1] \in Nat /\ w[x] \in Nat /\ w[k + 1] <= w[x]
    <3>1. k + 1 \in 1..n
      OBVIOUS
    <3> QED
      BY <2>3, <2>4, <3>1 DEF Factors, Ascending
  <2> DEFINE a == w[k + 1]
             b == w[x]
             p == P(1..k)
             r == P(B)
  <2>10. a \in Nat /\ b \in Nat /\ p \in Nat /\ r \in Nat /\ a <= b /\ p <= r
    BY <2>6, <2>7, <2>8, <2>9
  <2>11. a * p <= b * r
    <3> HIDE DEF a, b, p, r
    <3>1. a * p <= a * r /\ r * a <= r * b
      BY <2>10, Monotone
    <3>2. a * p \in Int /\ a * r \in Int /\ r * a = a * r /\ r * b = b * r /\ b * r \in Int
      BY <2>10
    <3> QED
      BY <3>1, <3>2
  <2> QED
    BY <2>7, <2>8, <2>11
<1> HIDE DEF T
<1>3. \A k \in Nat : k \in T
  BY <1>1, <1>2, Induction
<1> QED
  BY <1>3 DEF T, P

-----------------------------------------------------------------------------
Permutes(n, h) == h \in [1..n -> 1..n] /\ \A i, j \in 1..n : h[i] = h[j] => i = j

FirstOf(h, k) == {h[j] : j \in 1..k}

(* Any two orders of a bundle rearrange each other. *)
LEMMA Rearranged ==
  ASSUME NEW bundle, IsBundle(bundle),
         NEW first \in Arrangements(bundle), NEW order \in Arrangements(bundle)
  PROVE  \E h : Permutes(Len(bundle), h) /\ \A k \in 1..Len(bundle) : order[k] = first[h[k]]
<1> DEFINE n == Len(bundle)
           D == DOMAIN bundle
<1>1. n \in Nat /\ D = 1..n
  BY DEF IsBundle
<1>2. PICK f \in [D -> D] : /\ \A i, j \in D : f[i] = f[j] => i = j
                         /\ first = [k \in D |-> bundle[f[k]]]
  BY Zenon DEF Arrangements
<1>3. PICK g \in [D -> D] : /\ \A i, j \in D : g[i] = g[j] => i = j
                         /\ order = [k \in D |-> bundle[g[k]]]
  BY Zenon DEF Arrangements
<1>4. \A i \in D : \E j \in D : f[j] = i
  <2>1. IsFiniteSet(D)
    BY <1>1, FS_Interval
  <2> HIDE DEF D
  <2>2. f \in Injection(D, D)
    BY <1>2 DEF Injection, IsInjective
  <2>3. f \in Surjection(D, D)
    BY <2>1, <2>2, FS_Injection
  <2> QED
    BY <2>3 DEF Surjection
<1> HIDE DEF D
<1> DEFINE h == [k \in D |-> CHOOSE j \in D : f[j] = g[k]]
<1>5. \A k \in D : h[k] \in D /\ f[h[k]] = g[k]
  BY <1>3, <1>4
<1>6. h \in [D -> D]
  BY <1>5
<1> HIDE DEF h
<1>7. \A i, j \in D : h[i] = h[j] => i = j
  BY <1>3, <1>5
<1>8. \A k \in D : order[k] = first[h[k]]
  BY <1>2, <1>3, <1>5
<1>9. Permutes(n, h)
  BY <1>1, <1>6, <1>7 DEF Permutes
<1> QED
  BY <1>1, <1>8, <1>9

(* The chance of getting past the first k purchases is the product of k of *)
(* the factors.                                                            *)
LEMMA ReachedIsProduct ==
  ASSUME NEW bundle, IsBundle(bundle), NEW order \in Arrangements(bundle),
         NEW w, Factors(Len(bundle), w), NEW h, Permutes(Len(bundle), h),
         \A k \in 1..Len(bundle) : Survival(order[k]) = w[h[k]]
  PROVE  \A k \in 0..Len(bundle) :
           /\ FirstOf(h, k) \in SUBSET (1..Len(bundle)) /\ Cardinality(FirstOf(h, k)) = k
           /\ IsFiniteSet(FirstOf(h, k))
           /\ Reached(order, k + 1)[1] = ProductOf(Len(bundle), w, FirstOf(h, k))
<1> DEFINE n == Len(bundle)
           Good(k) == /\ FirstOf(h, k) \in SUBSET (1..n) /\ Cardinality(FirstOf(h, k)) = k
                      /\ IsFiniteSet(FirstOf(h, k))
                      /\ Reached(order, k + 1)[1] = ProductOf(n, w, FirstOf(h, k))
           T == {k \in Nat : k <= n => Good(k)}
<1>1. /\ Reached(order, 1)[1] = 1
      /\ \A k \in 1..n : Reached(order, k + 1)[1] = Survival(order[k]) * Reached(order, k)[1]
  BY ReachedSteps
<1>2. n \in Nat /\ Factors(n, w)
  BY DEF IsBundle
<1>3. h \in [1..n -> 1..n] /\ \A i, j \in 1..n : h[i] = h[j] => i = j
  BY DEF Permutes
<1>4. \A k \in 1..n : Survival(order[k]) = w[h[k]]
  OBVIOUS
<1> HIDE DEF n
<1>5. 0 \in T
  <2>1. FirstOf(h, 0) = {} /\ 0 + 1 = 1
    BY DEF FirstOf
  <2>2. Cardinality({}) = 0 /\ IsFiniteSet({})
    BY FS_EmptySet
  <2>3. ProductOf(n, w, {}) = 1
    BY <1>2, ProductEmpty
  <2> QED
    BY <1>1, <2>1, <2>2, <2>3
<1>6. ASSUME NEW k \in T \cap Nat PROVE k + 1 \in T
  <2> SUFFICES ASSUME k + 1 <= n PROVE Good(k + 1)
    OBVIOUS
  <2> DEFINE m == k + 1
             x == h[m]
             B == FirstOf(h, k)
             A == FirstOf(h, m)
  <2>1. Good(k) /\ m \in 1..n /\ m \in Nat
    BY <1>2, <1>6
  <2>2. x \in 1..n /\ x \notin B
    <3>1. \A j \in 1..k : j \in 1..n /\ j # m
      BY <1>2, <2>1
    <3> HIDE DEF m
    <3> QED
      BY <1>3, <2>1, <3>1 DEF FirstOf
  <2>3. A = B \cup {x}
    <3>1. 1..m = (1..k) \cup {m}
      OBVIOUS
    <3> HIDE DEF m
    <3> QED
      BY <3>1 DEF FirstOf
  <2>4. B = A \ {x} /\ x \in A
    BY <2>2, <2>3
  <2>5. A \in SUBSET (1..n)
    BY <2>1, <2>2, <2>3
  <2>6. IsFiniteSet(A) /\ Cardinality(A) = k + 1
    <3>1. IsFiniteSet(B) /\ Cardinality(B) = k
      BY <2>1
    <3> HIDE DEF A, B, x, m
    <3>2. IsFiniteSet(B \cup {x}) /\ Cardinality(B \cup {x}) = Cardinality(B) + 1
      BY <2>2, <3>1, FS_AddElement
    <3> QED
      BY <2>3, <3>1, <3>2
  <2>7. ProductOf(n, w, A) = w[x] * ProductOf(n, w, B)
    <3> HIDE DEF A, B, x, m
    <3> QED
      BY <1>2, <2>2, <2>4, ProductRemove
  <2>8. Reached(order, m + 1)[1] = w[x] * Reached(order, m)[1]
    BY <1>1, <1>4, <2>1
  <2>9. Reached(order, m)[1] = ProductOf(n, w, B)
    BY <2>1
  <2> HIDE DEF A, B, x
  <2> QED
    BY <2>5, <2>6, <2>7, <2>8, <2>9 DEF A
<1> HIDE DEF T
<1>7. \A k \in Nat : k \in T
  BY <1>5, <1>6, Induction
<1> QED
  BY <1>2, <1>7 DEF T, n

(* Riskiest first, no purchase is reached with a higher chance than in any *)
(* other order, and the whole bundle with the same.                        *)
LEMMA AliveLeast ==
  ASSUME NEW bundle, IsBundle(bundle), NEW order \in Arrangements(bundle)
  PROVE  LET first == PurchaseSequence(bundle)
         IN /\ \A k \in 0..Len(bundle) : Alive(first, k) <= Alive(order, k)
            /\ Alive(first, Len(bundle)) = Alive(order, Len(bundle))
<1> DEFINE n == Len(bundle)
           first == PurchaseSequence(bundle)
           w == [j \in 1..n |-> Survival(first[j])]
           I == [j \in 1..n |-> j]
<1>1. n \in Nat /\ first \in Arrangements(bundle) /\ DOMAIN first = 1..n
      /\ Len(first) = n /\ Len(order) = n
  BY SequenceIs, ArrangementIs DEF IsBundle
<1>2. PICK h : Permutes(n, h) /\ \A k \in 1..n : order[k] = first[h[k]]
  BY <1>1, Rearranged
<1>3. \A j \in 1..n : w[j] \in Nat /\ w[j] = Survival(first[j])
  BY <1>1, SurvivalNat
<1>4. \A i, j \in 1..n : i <= j => w[i] <= w[j]
  <2> SUFFICES ASSUME NEW i \in 1..n, NEW j \in 1..n, i <= j PROVE w[i] <= w[j]
    OBVIOUS
  <2>1. i < j => Riskier(first[i], first[j])
    BY <1>1, SequenceIs
  <2>2. i < j => w[i] <= w[j]
    <3> HIDE DEF first, w
    <3> QED
      BY <1>3, <2>1 DEF Riskier
  <2>3. i = j => w[i] <= w[j]
    BY <1>3
  <2> QED
    BY <2>2, <2>3
<1>5. Factors(n, w) /\ Ascending(n, w)
  BY <1>3, <1>4 DEF Factors, Ascending
<1>6. \A k \in 1..n : Survival(order[k]) = w[h[k]]
  <2> TAKE k \in 1..n
  <2>1. h[k] \in 1..n
    BY <1>2 DEF Permutes
  <2> QED
    BY <1>2, <1>3, <2>1
<1>7. Permutes(n, I) /\ \A k \in 1..n : Survival(first[k]) = w[I[k]]
  BY <1>3 DEF Permutes
<1>8. ASSUME NEW k \in 0..n PROVE FirstOf(I, k) = 1..k
  <2>1. \A j \in 1..k : I[j] = j
    BY <1>1
  <2> HIDE DEF I
  <2> QED
    BY <2>1 DEF FirstOf
<1> HIDE DEF w, I, first
<1>9. \A k \in 0..n : /\ FirstOf(h, k) \in SUBSET (1..n) /\ Cardinality(FirstOf(h, k)) = k
                      /\ Reached(order, k + 1)[1] = ProductOf(n, w, FirstOf(h, k))
  BY <1>2, <1>5, <1>6, ReachedIsProduct
<1>10. \A k \in 0..n : Reached(first, k + 1)[1] = ProductOf(n, w, FirstOf(I, k))
  BY <1>1, <1>5, <1>7, ReachedIsProduct
<1>11. ASSUME NEW k \in 0..n PROVE Reached(first, k + 1)[1] <= Reached(order, k + 1)[1]
  <2>1. Reached(first, k + 1)[1] = ProductOf(n, w, 1..k)
    BY <1>8, <1>10
  <2> HIDE DEF n
  <2>2. ProductOf(n, w, 1..k) <= ProductOf(n, w, FirstOf(h, k))
    BY <1>1, <1>5, <1>9, LeastProduct
  <2> QED
    BY <1>9, <2>1, <2>2
<1>12. Reached(first, n + 1)[1] = Reached(order, n + 1)[1]
  <2>1. n \in 0..n
    BY <1>1
  <2>2. FirstOf(h, n) = 1..n
    <3>1. FirstOf(h, n) \in SUBSET (1..n) /\ Cardinality(FirstOf(h, n)) = n
      BY <1>9, <2>1
    <3> HIDE DEF n
    <3>2. IsFiniteSet(1..n) /\ Cardinality(1..n) = n
      BY <1>1, FS_Interval
    <3> QED
      BY <3>1, <3>2, FS_Subset
  <2> QED
    BY <1>8, <1>9, <1>10, <2>1, <2>2
<1>13. ASSUME NEW k \in 0..n PROVE Alive(first, k) <= Alive(order, k)
  <2>1. n - k \in Nat /\ k + 1 \in 1..(n + 1)
    BY <1>1
  <2>2. Power(SurvivalGrid, n - k) \in Nat
    BY <2>1, PartialFillAssumption, PowerPositive
  <2>3. Reached(first, k + 1)[1] \in Nat /\ Reached(order, k + 1)[1] \in Nat
    BY <1>1, <2>1, ReachedSteps
  <2> DEFINE a == Reached(first, k + 1)[1]
             b == Reached(order, k + 1)[1]
             p == Power(SurvivalGrid, n - k)
  <2>4. Alive(first, k) = a * p /\ Alive(order, k) = b * p
    BY <1>1 DEF Alive
  <2>5. a \in Nat /\ b \in Nat /\ p \in Nat /\ a <= b
    BY <1>11, <2>2, <2>3
  <2> HIDE DEF a, b, p
  <2>6. p * a <= p * b /\ p * a = a * p /\ p * b = b * p
    BY <2>5, Monotone
  <2> QED
    BY <2>4, <2>6
<1>14. Alive(first, n) = Alive(order, n)
  BY <1>1, <1>12 DEF Alive
<1> QED
  BY <1>13, <1>14 DEF first

-----------------------------------------------------------------------------
(* What salvage leaves lost grows with what is spent. *)
LEMMA SalvageGrows ==
  ASSUME NEW x \in Nat, NEW y \in Nat, x <= y
  PROVE  x - ScaledDown(x, SalvageRate) <= y - ScaledDown(y, SalvageRate)
<1> DEFINE p == SalvageRate[1]
           d == SalvageRate[2]
           a == RoundDown(x * p, d)
           b == RoundDown(y * p, d)
<1>1. p \in Nat /\ d \in Nat \ {0} /\ p <= d
  BY PartialFillAssumption DEF Fraction
<1>2. ScaledDown(x, SalvageRate) = a /\ ScaledDown(y, SalvageRate) = b
  BY DEF ScaledDown
<1> HIDE DEF p, d
<1>3. /\ a \in Int /\ x * p < d * (a + 1)
      /\ b \in Int /\ d * b <= y * p
  <2>1. x * p \in Int /\ y * p \in Int
    BY <1>1
  <2> QED
    BY <1>1, <2>1, Rounding
<1> HIDE DEF a, b
<1>4. (y - x) * p <= (y - x) * d
  BY <1>1, Monotone
<1>5. ASSUME a + 1 + (y - x) <= b PROVE FALSE
  <2>1. d * (a + 1 + (y - x)) <= d * b
    BY <1>1, <1>3, <1>5, Monotone
  <2>2. d * (a + 1 + (y - x)) = d * (a + 1) + (y - x) * d /\ y * p = x * p + (y - x) * p
    BY <1>1, <1>3
  <2>3. /\ d * (a + 1) \in Int /\ (y - x) * d \in Int /\ (y - x) * p \in Int /\ x * p \in Int
        /\ d * b \in Int
    BY <1>1, <1>3
  <2> QED
    BY <1>3, <1>4, <2>1, <2>2, <2>3
<1> QED
  BY <1>2, <1>3, <1>5

(* The later a purchase fails, the more is lost. *)
LEMMA LossGrows ==
  ASSUME NEW bundle, IsBundle(bundle), NEW order \in Arrangements(bundle),
         NEW k \in DOMAIN order, k + 1 \in DOMAIN order
  PROVE  LossAt(order, k) <= LossAt(order, k + 1)
<1> DEFINE m == k + 1
           D == Before(m)
           C == Before(k)
           f == [j \in D |-> order[j].cost]
           g == [j \in C |-> order[j].cost]
<1>1. DOMAIN order = 1..Len(bundle) /\ k \in Nat \ {0} /\ m \in DOMAIN order
  BY ArrangementIs DEF IsBundle
<1>2. D = 1..k /\ C = 1..(k - 1) /\ C \in SUBSET D /\ C = D \ {k} /\ k \in D
  BY <1>1 DEF Before
<1>3. \A j \in D : order[j].cost \in Nat
  <2> TAKE j \in D
  <2>1. j \in DOMAIN order
    BY <1>1, <1>2
  <2> QED
    BY <2>1, ArrangementIs DEF IsInput
<1>4. IsFiniteSet(D) /\ IsFiniteSet(C)
  <2> HIDE DEF D, C
  <2> QED
    BY <1>1, <1>2, FS_Interval
<1>5. Committed(order, m) = SumOver(D, f) /\ Committed(order, k) = SumOver(C, g)
  BY DEF Committed
<1>6. (\A j \in D : f[j] \in Int /\ f[j] >= 0) /\ \A j \in C : g[j] \in Int /\ g[j] = f[j]
  BY <1>2, <1>3
<1> HIDE DEF D, C, f, g, m
<1>7. PICK i : IsSum(i, D, f) /\ SumOver(D, f) = i[D]
  BY <1>4, SumIs
<1>8. i[D] = i[C] + f[k]
  <2>1. D \in SUBSET D /\ \A j \in D : f[j] \in Int
    BY <1>6
  <2>2. \A x \in D : i[D] = i[D \ {x}] + f[x]
    BY <1>4, <1>7, <2>1, SumAny
  <2> QED
    BY <1>2, <2>2
<1>9. SumOver(C, f) = i[C]
  BY <1>2, <1>4, <1>7, SumSub
<1>10. SumOver(C, f) = SumOver(C, g) /\ SumOver(C, g) \in Int
  <2>1. /\ \A j \in C : f[j] \in Int /\ g[j] \in Int /\ f[j] <= g[j]
        /\ \A j \in C : g[j] \in Int /\ f[j] \in Int /\ g[j] <= f[j]
    BY <1>2, <1>6
  <2>2. SumOver(C, f) \in Int /\ SumOver(C, g) \in Int /\ SumOver(C, f) <= SumOver(C, g)
    BY <1>4, <2>1, SumMonotone
  <2>3. SumOver(C, g) <= SumOver(C, f)
    BY <1>4, <2>1, SumMonotone
  <2> QED
    BY <2>2, <2>3
<1>11. Committed(order, k) <= Committed(order, m)
  <2>1. f[k] \in Int /\ f[k] >= 0
    BY <1>2, <1>6
  <2>2. Committed(order, m) = i[C] + f[k] /\ Committed(order, k) = i[C] /\ i[C] \in Int
    BY <1>5, <1>7, <1>8, <1>9, <1>10
  <2> QED
    BY <2>1, <2>2
<1>12. Committed(order, k) \in Nat /\ Committed(order, m) \in Nat
  BY <1>1, LossFacts
<1> QED
  BY <1>11, <1>12, SalvageGrows DEF LossAt, m

(* At one price, what is lost depends on how many were bought only. *)
LEMMA LossSame ==
  ASSUME NEW bundle, IsBundle(bundle), NEW first \in Arrangements(bundle), NEW order \in Arrangements(bundle),
         \A i, j \in DOMAIN bundle : bundle[i].cost = bundle[j].cost, NEW k \in 1..Len(bundle)
  PROVE  LossAt(first, k) = LossAt(order, k)
<1>1. \A j \in Before(k) : first[j].cost = order[j].cost
  <2> TAKE j \in Before(k)
  <2>1. j \in DOMAIN first /\ j \in DOMAIN order
    <3>1. j \in 1..Len(bundle)
      BY DEF Before, IsBundle
    <3> QED
      BY <3>1, ArrangementIs
  <2>2. PICK a \in DOMAIN bundle : first[j] = bundle[a]
    BY <2>1, ArrangementIs
  <2>3. PICK b \in DOMAIN bundle : order[j] = bundle[b]
    BY <2>1, ArrangementIs
  <2> QED
    BY <2>2, <2>3
<1>2. [j \in Before(k) |-> first[j].cost] = [j \in Before(k) |-> order[j].cost]
  BY <1>1
<1>3. Committed(first, k) = Committed(order, k)
  BY <1>2 DEF Committed
<1> QED
  BY <1>3 DEF LossAt

(* Among purchases of one price riskiest first risks the least.  Moving a  *)
(* likelier purchase forward only lets more money be committed before the  *)
(* order breaks off: summed by parts, each order's expectation is a sum of *)
(* losses that grow along it, weighted by chances AliveLeast compares.     *)
LEMMA FirstIsCheapest ==
  ASSUME NEW bundle, IsBundle(bundle), NEW order \in Arrangements(bundle),
         \A i, j \in DOMAIN bundle : bundle[i].cost = bundle[j].cost
  PROVE  ExactLoss(PurchaseSequence(bundle)) <= ExactLoss(order)
<1> DEFINE n == Len(bundle)
           D == 1..n
           first == PurchaseSequence(bundle)
           term(o) == [k \in D |-> LossAt(o, k) * FailsAt(o, k)[1] * Power(SurvivalGrid, n - k)]
           f == term(first)
           g == term(order)
           loss(k) == LossAt(first, k)
           ahead(k) == Alive(order, k) - Alive(first, k)
           z == [k \in 0..n |-> IF k = 0 THEN 0 ELSE loss(k) * ahead(k)]
           e == [k \in D |-> z[k - 1] - z[k]]
           s == [k \in D |-> f[k] + e[k]]
<1>1. n \in Nat \ {0} /\ first \in Arrangements(bundle) /\ Len(first) = n /\ Len(order) = n
      /\ DOMAIN first = D /\ DOMAIN order = D
  BY SequenceIs, ArrangementIs DEF IsBundle
<1>2. IsFiniteSet(D)
  <2> HIDE DEF n
  <2> QED
    BY <1>1, FS_Interval
<1>3. ExactLoss(first) = SumOver(D, f) /\ ExactLoss(order) = SumOver(D, g)
  BY <1>1 DEF ExactLoss
<1> HIDE DEF first
<1>4. \A k \in 0..n : Alive(first, k) \in Nat /\ Alive(order, k) \in Nat
  BY <1>1, AliveFacts
<1>5. \A k \in 0..n : ahead(k) \in Nat
  <2>1. \A k \in 0..n : Alive(first, k) <= Alive(order, k)
    BY AliveLeast DEF first
  <2> QED
    BY <1>4, <2>1
<1>6. ahead(0) = 0 /\ ahead(n) = 0
  <2>1. Alive(first, 0) = Power(SurvivalGrid, n) /\ Alive(order, 0) = Power(SurvivalGrid, n)
    BY <1>1, AliveFacts
  <2>2. Alive(first, n) = Alive(order, n)
    BY AliveLeast DEF first
  <2>3. 0 \in 0..n /\ n \in 0..n
    BY <1>1
  <2> HIDE DEF n
  <2> QED
    BY <1>4, <2>1, <2>2, <2>3
<1>7. ASSUME NEW k \in D
      PROVE  loss(k) \in Nat /\ loss(k) = LossAt(order, k) /\ (k + 1 \in D => loss(k) <= loss(k + 1))
  <2>1. loss(k) \in Nat
    BY <1>1, LossFacts
  <2>2. loss(k) = LossAt(order, k)
    BY <1>1, LossSame
  <2>3. ASSUME k + 1 \in D PROVE loss(k) <= loss(k + 1)
    BY <1>1, <2>3, LossGrows
  <2> QED
    BY <2>1, <2>2, <2>3
<1>8. ASSUME NEW o \in Arrangements(bundle), Len(o) = n, NEW k \in D
      PROVE  term(o)[k] = LossAt(o, k) * (Alive(o, k - 1) - Alive(o, k))
  <2>1. LossAt(o, k) * FailsAt(o, k)[1] * Power(SurvivalGrid, Len(o) - k)
          = LossAt(o, k) * (Alive(o, k - 1) - Alive(o, k))
    <3>1. k \in 1..Len(o)
      BY <1>8
    <3> QED
      BY <3>1, PartCovers
  <2> QED
    BY <1>8, <2>1
<1>9. ASSUME NEW k \in D
      PROVE  /\ f[k] = loss(k) * (Alive(first, k - 1) - Alive(first, k))
             /\ g[k] = loss(k) * (Alive(order, k - 1) - Alive(order, k))
  <2>1. f[k] = LossAt(first, k) * (Alive(first, k - 1) - Alive(first, k))
    BY <1>1, <1>8
  <2>2. g[k] = LossAt(order, k) * (Alive(order, k - 1) - Alive(order, k))
    BY <1>1, <1>8
  <2> HIDE DEF f, g
  <2> QED
    BY <1>7, <2>1, <2>2
<1> HIDE DEF f, g, term
<1>10. \A k \in 0..n : z[k] \in Int
  <2> SUFFICES ASSUME NEW k \in 0..n PROVE z[k] \in Int
    OBVIOUS
  <2>1. k # 0 => k \in D
    BY <1>1
  <2>2. z[k] = IF k = 0 THEN 0 ELSE loss(k) * ahead(k)
    OBVIOUS
  <2>3. ahead(k) \in Nat
    BY <1>5
  <2> HIDE DEF z, ahead, D
  <2>4. k # 0 => loss(k) \in Nat
    BY <1>7, <2>1
  <2> HIDE DEF loss
  <2> QED
    BY <2>2, <2>3, <2>4
<1>11. ASSUME NEW k \in D
       PROVE  /\ f[k] \in Int /\ g[k] \in Int /\ e[k] \in Int /\ s[k] = f[k] + e[k]
              /\ e[k] = z[k - 1] - z[k] /\ s[k] <= g[k]
  <2>1. k \in 0..n /\ k - 1 \in 0..n /\ k # 0
    BY <1>1
  <2>2. z[k] = loss(k) * ahead(k) /\ e[k] = z[k - 1] - z[k] /\ s[k] = f[k] + e[k]
    BY <2>1
  <2>3. z[k - 1] <= loss(k) * ahead(k - 1)
    <3>1. CASE k = 1
      <4>1. k - 1 = 0 /\ 0 \in 0..n
        BY <1>1, <3>1
      <4>2. z[0] = 0
        BY <4>1
      <4> HIDE DEF z, ahead, loss
      <4>3. loss(k) * ahead(k - 1) = 0
        BY <1>6, <1>7, <4>1
      <4> QED
        BY <4>1, <4>2, <4>3
    <3>2. CASE k # 1
      <4> DEFINE m == k - 1
      <4>1. m \in D /\ m + 1 = k /\ m # 0 /\ m \in 0..n
        BY <1>1, <3>2
      <4>2. z[m] = loss(m) * ahead(m)
        BY <4>1
      <4> HIDE DEF m, z
      <4>3. loss(m) \in Nat /\ loss(k) \in Nat /\ loss(m) <= loss(k)
        BY <1>7, <4>1
      <4>4. ahead(m) \in Nat
        BY <1>5, <4>1
      <4> HIDE DEF ahead, loss
      <4>5. ahead(m) * loss(m) <= ahead(m) * loss(k)
        BY <4>3, <4>4, Monotone
      <4> QED
        BY <4>2, <4>3, <4>4, <4>5 DEF m
    <3> QED
      BY <3>1, <3>2
  <2>4. z[k - 1] \in Int /\ z[k] \in Int
    BY <1>10, <2>1
  <2>5. f[k] = loss(k) * (Alive(first, k - 1) - Alive(first, k))
        /\ g[k] = loss(k) * (Alive(order, k - 1) - Alive(order, k))
    BY <1>9
  <2> DEFINE a == Alive(first, k - 1)
             b == Alive(first, k)
             c == Alive(order, k - 1)
             d == Alive(order, k)
             l == loss(k)
  <2>6. /\ a \in Nat /\ b \in Nat /\ c \in Nat /\ d \in Nat
        /\ ahead(k) = d - b /\ ahead(k - 1) = c - a
    BY <1>4, <2>1
  <2>7. l \in Nat
    BY <1>7
  <2>8. /\ f[k] = l * (a - b) /\ g[k] = l * (c - d) /\ z[k] = l * (d - b) /\ z[k - 1] <= l * (c - a)
    BY <2>2, <2>3, <2>5, <2>6
  <2> HIDE DEF z, e, s, loss, ahead, a, b, c, d, l
  <2>9. f[k] \in Int /\ g[k] \in Int
    BY <2>6, <2>7, <2>8
  <2>10. l * (c - a) + l * (a - b) - l * (d - b) = l * (c - d) /\ l * (c - a) \in Int
    BY <2>6, <2>7
  <2>11. s[k] <= g[k]
    <3> DEFINE A == l * (c - a)
               B == l * (a - b)
               C == l * (d - b)
               E == l * (c - d)
    <3>1. A \in Int /\ B \in Int /\ C \in Int /\ E \in Int /\ A + B - C = E
      BY <2>6, <2>7, <2>10
    <3>2. f[k] = B /\ g[k] = E /\ z[k] = C /\ z[k - 1] <= A
      BY <2>8
    <3> HIDE DEF A, B, C, E
    <3> QED
      BY <2>2, <2>4, <3>1, <3>2
  <2>12. e[k] \in Int
    BY <2>2, <2>4
  <2> QED
    BY <2>2, <2>9, <2>11, <2>12
<1>12. z[0] = 0 /\ z[n] = 0
  <2>1. 0 \in 0..n /\ n \in 0..n /\ n # 0 /\ n \in D
    BY <1>1
  <2>2. z[0] = 0 /\ z[n] = loss(n) * ahead(n)
    BY <2>1
  <2>3. loss(n) \in Nat
    BY <1>7, <2>1
  <2> HIDE DEF z, ahead, loss, n
  <2> QED
    BY <1>6, <2>2, <2>3
<1> HIDE DEF z, e, s, loss, ahead, D
<1>13. SumOver(D, e) = 0
  <2>1. n \in Nat /\ \A k \in 1..n : e[k] = z[k - 1] - z[k]
    BY <1>1, <1>11 DEF D
  <2> HIDE DEF n
  <2>2. SumOver(1..n, e) = z[0] - z[n]
    BY <1>10, <2>1, Telescope
  <2> QED
    BY <1>12, <2>2 DEF D
<1>14. SumOver(D, f) \in Int /\ SumOver(D, s) = SumOver(D, f) + SumOver(D, e)
  <2>1. Added(D, f, e, s)
    BY <1>11 DEF Added
  <2> QED
    BY <1>2, <2>1, SumAdds
<1>15. SumOver(D, s) <= SumOver(D, g)
  <2>1. \A k \in D : s[k] \in Int /\ g[k] \in Int /\ s[k] <= g[k]
    BY <1>11
  <2> QED
    BY <1>2, <2>1, SumMonotone
<1>16. SumOver(D, f) <= SumOver(D, g)
  BY <1>13, <1>14, <1>15
<1> QED
  BY <1>3, <1>16 DEF first

(* Among purchases of one price the card's order risks the least.          *)
THEOREM RiskiestFirst == ReviewSpec => []RiskiestFirstIsCheapest
<1>1. ASSUME ReviewInv PROVE RiskiestFirstIsCheapest
  <2> DEFINE c == deal.candidate
  <2> SUFFICES ASSUME Evaluated, \A i, j \in DOMAIN c.inputs : c.inputs[i].cost = c.inputs[j].cost,
                      NEW order \in Arrangements(c.inputs)
               PROVE  ExactLoss(PurchaseSequence(c.inputs)) <= ExactLoss(order)
    BY DEF RiskiestFirstIsCheapest
  <2>1. DealInv /\ Valued
    BY <1>1 DEF ReviewInv, DealInv, Evaluated, Valued, Judging
  <2>2. IsBundle(c.inputs)
    BY <2>1, ValuesAre DEF IsCandidate
  <2> HIDE DEF c
  <2> QED
    BY <2>2, FirstIsCheapest
<1> QED
  BY <1>1, ReviewInitEstablishes, ReviewPreserves, PTL DEF ReviewSpec

(* Whatever the roundings, no estimate errs in the buyer's favour.         *)
THEOREM NothingIsOverstated == ReviewSpec => []NothingOverstated
<1>1. /\ ExitWithinAsks /\ NeverOverstated /\ ReserveCoversOrphans
      /\ RiskiestFirstIsCheapest /\ RailPaysItself
      => NothingOverstated
  BY DEF NothingOverstated
<1> QED
  BY <1>1, ExitsWithinAsks, NothingPromised, ReserveCovers, RiskiestFirst, RailPays, PTL

-----------------------------------------------------------------------------
(* A rule's fee does not fall as the amount grows. *)
LEMMA RuleFeeGrows ==
  ASSUME NEW rule, IsRule(rule), NEW a \in Nat, NEW b \in Nat, a <= b
  PROVE  RuleFee(rule, a) <= RuleFee(rule, b)
<1> DEFINE raw(x) == ScaledUp(Magnitude(x), rule.rate) + rule.fixed
           A(x) == {raw(x)} \cup rule.minimum
           B(x) == {Max(A(x))} \cup rule.maximum
<1>1. raw(a) \in Int /\ raw(b) \in Int /\ raw(a) <= raw(b)
  <2>1. Magnitude(a) = a /\ Magnitude(b) = b
    BY DEF Magnitude
  <2>2. rule.rate \in Nat \X (Nat \ {0}) /\ rule.fixed \in Nat
    BY DEF IsRule, Fraction
  <2>3. ScaledUp(a, rule.rate) \in Int /\ ScaledUp(b, rule.rate) \in Int
        /\ ScaledUp(a, rule.rate) <= ScaledUp(b, rule.rate)
    BY <2>2, ScaledUpGrows
  <2> QED
    BY <2>1, <2>2, <2>3
<1>2. RuleFee(rule, a) = Min(B(a)) /\ RuleFee(rule, b) = Min(B(b))
  BY DEF RuleFee
<1>3. rule.minimum \subseteq Int /\ rule.maximum \subseteq Int
      /\ IsFiniteSet(rule.minimum) /\ IsFiniteSet(rule.maximum)
  BY DEF IsRule
<1> HIDE DEF raw
<1>4. ASSUME NEW x \in {a, b}
      PROVE  Max(A(x)) \in A(x) /\ Max(A(x)) \in Int /\ \A y \in A(x) : y \in Int /\ y <= Max(A(x))
  <2>1. A(x) \in SUBSET Int /\ IsFiniteSet(A(x)) /\ A(x) # {}
    <3>1. IsFiniteSet(A(x))
      BY <1>3, OneMore
    <3> QED
      BY <1>1, <1>3, <3>1
  <2> HIDE DEF A
  <2> QED
    BY <2>1, MaxIs
<1>5. Max(A(a)) <= Max(A(b))
  <2>1. Max(A(a)) = raw(a) \/ Max(A(a)) \in rule.minimum
    BY <1>4
  <2>2. raw(b) <= Max(A(b)) /\ \A y \in rule.minimum : y <= Max(A(b))
    BY <1>4
  <2>3. Max(A(b)) \in Int
    BY <1>4
  <2> HIDE DEF A
  <2> QED
    BY <1>1, <2>1, <2>2, <2>3
<1>6. Max(A(a)) \in Int /\ Max(A(b)) \in Int
  BY <1>4
<1> HIDE DEF A
<1>7. ASSUME NEW x \in {a, b}
      PROVE  Min(B(x)) \in B(x) /\ Min(B(x)) \in Int /\ \A y \in B(x) : y \in Int /\ Min(B(x)) <= y
  <2>1. B(x) \in SUBSET Int /\ IsFiniteSet(B(x)) /\ B(x) # {}
    <3>1. IsFiniteSet(B(x))
      BY <1>3, OneMore
    <3> QED
      BY <1>3, <1>6, <3>1
  <2> HIDE DEF B
  <2> QED
    BY <2>1, MinIs
<1>8. Min(B(b)) = Max(A(b)) \/ Min(B(b)) \in rule.maximum
  BY <1>7
<1>9. Min(B(a)) <= Max(A(a)) /\ \A y \in rule.maximum : Min(B(a)) <= y
  BY <1>7
<1>10. Min(B(a)) \in Int
  BY <1>7
<1> HIDE DEF B
<1> QED
  BY <1>2, <1>5, <1>6, <1>8, <1>9, <1>10

AreRules(fees) == IsFiniteSet(fees) /\ \A rule \in fees : IsRule(rule)

(* What a sticker costs under the fees of one tier rises with it. *)
LEMMA LoadedGrows ==
  ASSUME NEW fees, AreRules(fees), NEW a \in Nat, NEW b \in Nat, a <= b
  PROVE  /\ Loaded(fees, a) \in Nat /\ Loaded(fees, b) \in Nat
         /\ a <= Loaded(fees, a) /\ Loaded(fees, a) <= Loaded(fees, b)
<1> DEFINE f == [rule \in fees |-> RuleFee(rule, a)]
           g == [rule \in fees |-> RuleFee(rule, b)]
<1>1. IsFiniteSet(fees)
  BY DEF AreRules
<1>2. \A rule \in fees : f[rule] \in Nat /\ g[rule] \in Nat /\ f[rule] <= g[rule]
  <2> TAKE rule \in fees
  <2>1. IsRule(rule)
    BY DEF AreRules
  <2>2. RuleFee(rule, a) \in Nat /\ RuleFee(rule, b) \in Nat
    BY <2>1, RuleFeeType
  <2>3. RuleFee(rule, a) <= RuleFee(rule, b)
    BY <2>1, RuleFeeGrows
  <2> QED
    BY <2>2, <2>3
<1>3. Loaded(fees, a) = a + SumOver(fees, f) /\ Loaded(fees, b) = b + SumOver(fees, g)
  BY DEF Loaded
<1> HIDE DEF f, g
<1>4. SumOver(fees, f) \in Nat /\ SumOver(fees, g) \in Nat
  BY <1>1, <1>2, SumNat
<1>5. SumOver(fees, f) <= SumOver(fees, g)
  <2>1. \A rule \in fees : f[rule] \in Int /\ g[rule] \in Int /\ f[rule] <= g[rule]
    BY <1>2
  <2> QED
    BY <1>1, <2>1, SumMonotone
<1> QED
  BY <1>3, <1>4, <1>5

(* So the stickers that fit are those up to one of them. *)
LEMMA FitsUpTo ==
  ASSUME NEW fees, AreRules(fees), NEW cap \in Nat
  PROVE  \E t \in Int : \A s \in Nat : Loaded(fees, s) <= cap <=> s <= t
<1> DEFINE F == {s \in 0..cap : Loaded(fees, s) <= cap}
<1>1. ASSUME NEW s \in Nat PROVE Loaded(fees, s) \in Nat /\ s <= Loaded(fees, s)
  <2>1. s <= s
    OBVIOUS
  <2> QED
    BY <2>1, LoadedGrows
<1>2. \A s \in Nat : Loaded(fees, s) <= cap => s \in F
  BY <1>1
<1>3. CASE F = {}
  <2>1. \A s \in Nat : Loaded(fees, s) <= cap <=> s <= -1
    BY <1>2, <1>3
  <2>2. -1 \in Int
    OBVIOUS
  <2> HIDE DEF F
  <2> QED
    BY <2>1, <2>2
<1>4. CASE F # {}
  <2>1. F \in SUBSET Int /\ IsFiniteSet(F)
    <3>1. IsFiniteSet(0..cap)
      BY FS_Interval
    <3>2. F \in SUBSET (0..cap)
      OBVIOUS
    <3> HIDE DEF F
    <3>3. IsFiniteSet(F)
      BY <3>1, <3>2, FS_Subset
    <3> QED
      BY <3>2, <3>3
  <2> DEFINE t == Max(F)
  <2>2. t \in F /\ \A s \in F : s <= t
    <3> HIDE DEF F
    <3> QED
      BY <1>4, <2>1, MaxIs
  <2> HIDE DEF t
  <2>3. ASSUME NEW s \in Nat, s <= t PROVE Loaded(fees, s) <= cap
    <3>1. t \in Nat /\ Loaded(fees, t) <= cap
      BY <2>2
    <3>2. Loaded(fees, s) <= Loaded(fees, t) /\ Loaded(fees, s) \in Nat /\ Loaded(fees, t) \in Nat
      BY <2>3, <3>1, LoadedGrows
    <3> QED
      BY <3>1, <3>2
  <2>4. \A s \in Nat : Loaded(fees, s) <= cap <=> s <= t
    BY <1>2, <2>2, <2>3
  <2>5. t \in Int
    BY <2>2
  <2> HIDE DEF F
  <2> QED
    BY <2>4, <2>5
<1> QED
  BY <1>3, <1>4

-----------------------------------------------------------------------------
HalfOf(b) == (b[1] + b[2]) \div 2

Halving(h, fees, cap) ==
  h = [b \in Nat \X Nat |->
         IF b[2] - b[1] <= 1 THEN b[1]
         ELSE IF Loaded(fees, HalfOf(b)) <= cap THEN h[<<HalfOf(b), b[2]>>] ELSE h[<<b[1], HalfOf(b)>>]]

LEMMA HalfIs ==
  ASSUME NEW b \in Nat \X Nat, b[2] - b[1] > 1
  PROVE  HalfOf(b) \in Nat /\ b[1] < HalfOf(b) /\ HalfOf(b) < b[2]
<1> DEFINE x == b[1]
           y == b[2]
           m == (x + y) \div 2
<1>1. x \in Nat /\ y \in Nat /\ y - x > 1
  OBVIOUS
<1>2. HalfOf(b) = m
  BY DEF HalfOf
<1> HIDE DEF x, y
<1>3. m \in Nat /\ 2 * m <= x + y /\ x + y <= 2 * m + 1
  BY <1>1
<1> HIDE DEF m
<1> QED
  BY <1>1, <1>2, <1>3 DEF x, y

(* There is a function that halves: where it ends has a closed form.       *)
LEMMA HalvingExists ==
  ASSUME NEW fees, AreRules(fees), NEW cap \in Nat
  PROVE  \E h : Halving(h, fees, cap)
<1>1. PICK t \in Int : \A s \in Nat : Loaded(fees, s) <= cap <=> s <= t
  BY FitsUpTo
<1> DEFINE least(b) == IF t <= b[2] - 1 THEN t ELSE b[2] - 1
           end(b) == IF b[2] - b[1] <= 1 THEN b[1] ELSE IF least(b) >= b[1] THEN least(b) ELSE b[1]
           h == [b \in Nat \X Nat |-> end(b)]
           next(b) == IF b[2] - b[1] <= 1 THEN b[1]
                      ELSE IF Loaded(fees, HalfOf(b)) <= cap
                           THEN h[<<HalfOf(b), b[2]>>] ELSE h[<<b[1], HalfOf(b)>>]
<1>2. ASSUME NEW b \in Nat \X Nat PROVE end(b) = next(b)
  <2>1. CASE b[2] - b[1] <= 1
    BY <2>1
  <2>2. CASE ~(b[2] - b[1] <= 1)
    <3> DEFINE x == b[1]
               y == b[2]
               m == HalfOf(b)
    <3>1. x \in Nat /\ y \in Nat /\ y - x > 1
      BY <2>2
    <3>2. m \in Nat /\ x < m /\ m < y
      BY <3>1, HalfIs
    <3>3. Loaded(fees, m) <= cap <=> m <= t
      BY <1>1, <3>2
    <3>4. <<m, y>> \in Nat \X Nat /\ <<x, m>> \in Nat \X Nat
      BY <3>1, <3>2
    <3>5. h[<<m, y>>] = end(<<m, y>>) /\ h[<<x, m>>] = end(<<x, m>>)
      <4> HIDE DEF end, x, y, m
      <4> QED
        BY <3>4
    <3>6. next(b) = IF m <= t THEN end(<<m, y>>) ELSE end(<<x, m>>)
      <4> HIDE DEF end, h
      <4> QED
        BY <2>2, <3>3, <3>5
    <3>7. end(b) = IF (IF t <= y - 1 THEN t ELSE y - 1) >= x
                   THEN (IF t <= y - 1 THEN t ELSE y - 1) ELSE x
      BY <2>2
    <3>8. end(<<m, y>>) = IF y - m <= 1 THEN m
                          ELSE IF (IF t <= y - 1 THEN t ELSE y - 1) >= m
                               THEN (IF t <= y - 1 THEN t ELSE y - 1) ELSE m
      <4> HIDE DEF m, y
      <4> QED
        OBVIOUS
    <3>9. end(<<x, m>>) = IF m - x <= 1 THEN x
                          ELSE IF (IF t <= m - 1 THEN t ELSE m - 1) >= x
                               THEN (IF t <= m - 1 THEN t ELSE m - 1) ELSE x
      <4> HIDE DEF m, x
      <4> QED
        OBVIOUS
    <3> HIDE DEF end, next, h, x, y, m
    <3> QED
      BY <3>1, <3>2, <3>6, <3>7, <3>8, <3>9
  <2> QED
    BY <2>1, <2>2
<1>3. h = [b \in Nat \X Nat |-> next(b)]
  <2> HIDE DEF next, end
  <2>1. \A b \in Nat \X Nat : end(b) = next(b)
    BY <1>2
  <2> QED
    BY <2>1
<1> HIDE DEF h, end
<1>4. Halving(h, fees, cap)
  BY <1>3, Zenon DEF Halving
<1> QED
  BY <1>4

(* Between a sticker that fits and one that does not, halving finds the    *)
(* last that fits.                                                         *)
LEMMA HalvingFinds ==
  ASSUME NEW fees, AreRules(fees), NEW cap \in Nat, NEW h, Halving(h, fees, cap),
         NEW x \in Nat, NEW y \in Nat, x < y, Loaded(fees, x) <= cap, ~(Loaded(fees, y) <= cap)
  PROVE  /\ h[<<x, y>>] \in Nat /\ x <= h[<<x, y>>] /\ h[<<x, y>>] < y
         /\ Loaded(fees, h[<<x, y>>]) <= cap /\ ~(Loaded(fees, h[<<x, y>>] + 1) <= cap)
<1> DEFINE Fits(s) == Loaded(fees, s) <= cap
           Found(a, b) == /\ h[<<a, b>>] \in Nat /\ a <= h[<<a, b>>] /\ h[<<a, b>>] < b
                          /\ Fits(h[<<a, b>>]) /\ ~Fits(h[<<a, b>>] + 1)
           T == {n \in Nat : \A a, b \in Nat : a < b /\ b - a <= n /\ Fits(a) /\ ~Fits(b) => Found(a, b)}
<1>1. ASSUME NEW a \in Nat, NEW b \in Nat
      PROVE  h[<<a, b>>] = IF b - a <= 1 THEN a
                           ELSE IF Fits(HalfOf(<<a, b>>)) THEN h[<<HalfOf(<<a, b>>), b>>]
                                ELSE h[<<a, HalfOf(<<a, b>>)>>]
  <2> DEFINE next(c) == IF c[2] - c[1] <= 1 THEN c[1]
                        ELSE IF Loaded(fees, HalfOf(c)) <= cap
                             THEN h[<<HalfOf(c), c[2]>>] ELSE h[<<c[1], HalfOf(c)>>]
  <2>1. h = [c \in Nat \X Nat |-> next(c)]
    BY Zenon DEF Halving
  <2>2. <<a, b>> \in Nat \X Nat /\ <<a, b>>[1] = a /\ <<a, b>>[2] = b
    OBVIOUS
  <2>3. h[<<a, b>>] = next(<<a, b>>)
    <3> HIDE DEF next
    <3> QED
      BY <2>1, <2>2
  <2> QED
    BY <2>2, <2>3
<1> HIDE DEF Fits
<1>2. 0 \in T
  OBVIOUS
<1>3. ASSUME NEW n \in T \cap Nat PROVE n + 1 \in T
  <2> SUFFICES ASSUME NEW a \in Nat, NEW b \in Nat, a < b, b - a <= n + 1, Fits(a), ~Fits(b)
               PROVE  Found(a, b)
    OBVIOUS
  <2>1. CASE b - a <= 1
    <3> HIDE DEF T
    <3>1. h[<<a, b>>] = a
      BY <1>1, <2>1
    <3>2. a + 1 = b
      BY <2>1
    <3> QED
      BY <3>1, <3>2
  <2>2. CASE ~(b - a <= 1)
    <3> DEFINE m == HalfOf(<<a, b>>)
    <3>1. m \in Nat /\ a < m /\ m < b
      <4>1. <<a, b>> \in Nat \X Nat /\ <<a, b>>[1] = a /\ <<a, b>>[2] = b
        OBVIOUS
      <4>2. <<a, b>>[2] - <<a, b>>[1] > 1
        BY <2>2
      <4> QED
        BY <4>1, <4>2, HalfIs
    <3>2. h[<<a, b>>] = IF Fits(m) THEN h[<<m, b>>] ELSE h[<<a, m>>]
      BY <1>1, <2>2
    <3> HIDE DEF m
    <3>3. \A c, d \in Nat : c < d /\ d - c <= n /\ Fits(c) /\ ~Fits(d) => Found(c, d)
      BY <1>3
    <3> HIDE DEF T, Found
    <3>4. CASE Fits(m)
      <4>1. Found(m, b)
        BY <3>1, <3>3, <3>4
      <4> QED
        BY <3>1, <3>2, <3>4, <4>1 DEF Found
    <3>5. CASE ~Fits(m)
      <4>1. Found(a, m)
        BY <3>1, <3>3, <3>5
      <4> QED
        BY <3>1, <3>2, <3>5, <4>1 DEF Found
    <3> QED
      BY <3>4, <3>5
  <2> QED
    BY <2>1, <2>2
<1>4. y - x \in T
  <2>1. y - x \in Nat
    OBVIOUS
  <2> HIDE DEF T
  <2>2. \A n \in Nat : n \in T
    BY <1>2, <1>3, Induction
  <2> QED
    BY <2>1, <2>2
<1>5. Found(x, y)
  <2>1. y - x <= y - x
    OBVIOUS
  <2> HIDE DEF Found
  <2> QED
    BY <1>4, <2>1 DEF Fits
<1> QED
  BY <1>5 DEF Fits

-----------------------------------------------------------------------------
LEMMA BoundariesAre ==
  ASSUME NEW rules, AreRules(rules), NEW cap \in Nat \ {0}
  PROVE  /\ Boundaries(rules, cap) \in SUBSET (1..(cap + 1))
         /\ 1 \in Boundaries(rules, cap) /\ cap + 1 \in Boundaries(rules, cap)
         /\ \A rule \in rules : /\ rule.lower \in 2..(cap + 1) => rule.lower \in Boundaries(rules, cap)
                                /\ \A u \in rule.upper : u \in 1..(cap + 1) => u \in Boundaries(rules, cap)
<1>1. ASSUME NEW rule \in rules
      PROVE  /\ Max({rule.lower, 1}) \in Int /\ (rule.lower >= 1 => Max({rule.lower, 1}) = rule.lower)
             /\ rule.lower \in Int /\ rule.upper \subseteq Int
  <2> DEFINE A == {rule.lower, 1}
  <2>1. rule.lower \in Int /\ rule.upper \subseteq Int
    BY DEF AreRules, IsRule
  <2>2. A \in SUBSET Int /\ A # {} /\ IsFiniteSet(A)
    <3>1. IsFiniteSet(A)
      BY PairFinite
    <3>2. A \in SUBSET Int /\ A # {}
      BY <2>1
    <3> QED
      BY <3>1, <3>2
  <2> HIDE DEF A
  <2>3. Max(A) \in A /\ \A x \in A : x <= Max(A)
    BY <2>2, MaxIs
  <2> QED
    BY <2>1, <2>3 DEF A
<1> DEFINE P == {1, cap + 1} \cup {Max({rule.lower, 1}) : rule \in rules} \cup UNION {rule.upper : rule \in rules}
<1>2. Boundaries(rules, cap) = {b \in P : 1 <= b /\ b <= cap + 1}
  BY DEF Boundaries
<1>3. \A b \in P : b \in Int
  BY <1>1
<1>4. 1 \in P /\ cap + 1 \in P
  OBVIOUS
<1>5. \A rule \in rules : Max({rule.lower, 1}) \in P /\ rule.upper \subseteq P
  OBVIOUS
<1> HIDE DEF P
<1>6. Boundaries(rules, cap) \in SUBSET (1..(cap + 1))
  BY <1>2, <1>3
<1>7. 1 \in Boundaries(rules, cap) /\ cap + 1 \in Boundaries(rules, cap)
  BY <1>2, <1>4
<1>8. ASSUME NEW rule \in rules
      PROVE  /\ rule.lower \in 2..(cap + 1) => rule.lower \in Boundaries(rules, cap)
             /\ \A u \in rule.upper : u \in 1..(cap + 1) => u \in Boundaries(rules, cap)
  <2>1. ASSUME rule.lower \in 2..(cap + 1) PROVE rule.lower \in Boundaries(rules, cap)
    <3>1. Max({rule.lower, 1}) = rule.lower
      BY <1>1, <2>1
    <3>2. rule.lower \in P
      BY <1>5, <3>1
    <3> QED
      BY <1>2, <2>1, <3>2
  <2>2. ASSUME NEW u \in rule.upper, u \in 1..(cap + 1) PROVE u \in Boundaries(rules, cap)
    <3>1. u \in P
      BY <1>5
    <3>2. 1 <= u /\ u <= cap + 1
      BY <2>2
    <3> QED
      BY <1>2, <3>1, <3>2
  <2> QED
    BY <2>1, <2>2
<1> QED
  BY <1>6, <1>7, <1>8

(* Within a segment the fees do not change. *)
LEMMA SegmentIs ==
  ASSUME NEW rules, AreRules(rules), NEW cap \in Nat \ {0}, NEW g \in Segments(rules, cap)
  PROVE  /\ g[1] \in Nat \ {0} /\ g[2] \in Nat /\ g[1] < g[2] /\ g[2] <= cap + 1
         /\ \A s \in Nat : g[1] <= s /\ s < g[2] => Covering(rules, s) = Covering(rules, g[1])
<1> DEFINE B == Boundaries(rules, cap)
           x == g[1]
           y == g[2]
<1>1. x \in B /\ y \in B /\ x < y /\ ~\E b \in B : x < b /\ b < y
  BY DEF Segments
<1>2. /\ B \in SUBSET (1..(cap + 1))
      /\ \A rule \in rules : /\ rule.lower \in 2..(cap + 1) => rule.lower \in B
                             /\ \A u \in rule.upper : u \in 1..(cap + 1) => u \in B
  BY BoundariesAre
<1> HIDE DEF B, x, y
<1>3. x \in Nat \ {0} /\ y \in Nat /\ y <= cap + 1
  BY <1>1, <1>2
<1>4. ASSUME NEW s \in Nat, x <= s, s < y, NEW rule \in rules
      PROVE  CoversAmount(rule, s) <=> CoversAmount(rule, x)
  <2>1. rule.lower \in Int /\ rule.upper \subseteq Int
    BY DEF AreRules, IsRule
  <2>2. Magnitude(s) = s /\ Magnitude(x) = x
    BY <1>3 DEF Magnitude
  <2>3. rule.lower <= s <=> rule.lower <= x
    <3> SUFFICES ASSUME rule.lower <= s, ~(rule.lower <= x) PROVE FALSE
      BY <1>3, <1>4, <2>1
    <3>1. rule.lower \in 2..(cap + 1) /\ x < rule.lower /\ rule.lower < y
      BY <1>3, <1>4, <2>1
    <3> QED
      BY <1>1, <1>2, <3>1
  <2>4. ASSUME NEW u \in rule.upper PROVE s < u <=> x < u
    <3> SUFFICES ASSUME x < u, ~(s < u) PROVE FALSE
      BY <1>3, <1>4, <2>1
    <3>1. u \in 1..(cap + 1) /\ u < y
      BY <1>3, <1>4, <2>1
    <3> QED
      BY <1>1, <1>2, <3>1
  <2> QED
    BY <2>2, <2>3, <2>4 DEF CoversAmount
<1>5. \A s \in Nat : x <= s /\ s < y => Covering(rules, s) = Covering(rules, x)
  BY <1>4 DEF Covering
<1> QED
  BY <1>1, <1>3, <1>5 DEF x, y

(* The segments leave no sticker out. *)
LEMMA SegmentHolding ==
  ASSUME NEW rules, AreRules(rules), NEW cap \in Nat \ {0}, NEW s \in 1..cap
  PROVE  \E g \in Segments(rules, cap) : g[1] <= s /\ s < g[2]
<1> DEFINE B == Boundaries(rules, cap)
           low == {b \in B : b <= s}
           high == {b \in B : s < b}
           g == <<Max(low), Min(high)>>
<1>1. B \in SUBSET (1..(cap + 1)) /\ 1 \in B /\ cap + 1 \in B
  BY BoundariesAre
<1> HIDE DEF B
<1>2. IsFiniteSet(B) /\ B \in SUBSET Int
  <2>1. IsFiniteSet(1..(cap + 1))
    <3>1. cap + 1 \in Int
      OBVIOUS
    <3> QED
      BY <3>1, FS_Interval
  <2>2. IsFiniteSet(B)
    BY <1>1, <2>1, FS_Subset
  <2> QED
    BY <1>1, <2>2
<1>3. low \in SUBSET B /\ high \in SUBSET B /\ 1 \in low /\ cap + 1 \in high
  BY <1>1
<1>4. (\A b \in low : b <= s) /\ (\A b \in high : s < b) /\ \A b \in B : b \in low \/ b \in high
  <2> SUFFICES ASSUME NEW b \in B PROVE b <= s \/ s < b
    OBVIOUS
  <2> QED
    BY <1>1
<1> HIDE DEF low, high
<1>5. Max(low) \in low /\ \A b \in low : b <= Max(low)
  <2>1. IsFiniteSet(low) /\ low \in SUBSET Int /\ low # {}
    BY <1>2, <1>3, FS_Subset
  <2> QED
    BY <2>1, MaxIs
<1>6. Min(high) \in high /\ \A b \in high : Min(high) <= b
  <2>1. IsFiniteSet(high) /\ high \in SUBSET Int /\ high # {}
    BY <1>2, <1>3, FS_Subset
  <2> QED
    BY <2>1, MinIs
<1>7. g[1] = Max(low) /\ g[2] = Min(high) /\ g \in B \X B
  BY <1>3, <1>5, <1>6
<1>8. g[1] <= s /\ s < g[2] /\ g[1] \in Int /\ g[2] \in Int
  <2>1. Max(low) \in B /\ Min(high) \in B /\ Max(low) <= s /\ s < Min(high)
    BY <1>3, <1>4, <1>5, <1>6
  <2> HIDE DEF g
  <2> QED
    BY <1>2, <1>7, <2>1
<1>9. ASSUME NEW b \in B, Max(low) < b, b < Min(high) PROVE FALSE
  <2>1. b \in Int /\ Max(low) \in Int /\ Min(high) \in Int
    BY <1>2, <1>3, <1>5, <1>6
  <2>2. b \in low => b <= Max(low)
    BY <1>5
  <2>3. b \in high => Min(high) <= b
    BY <1>6
  <2> QED
    BY <1>4, <1>9, <2>1, <2>2, <2>3
<1> HIDE DEF g
<1>10. g \in Segments(rules, cap)
  BY <1>7, <1>8, <1>9 DEF Segments, B
<1> QED
  BY <1>8, <1>10

-----------------------------------------------------------------------------
(* The best of a segment is its last sticker that fits. *)
LEMMA BestOfIs ==
  ASSUME NEW rules, AreRules(rules), NEW cap \in Nat \ {0}, NEW g \in Segments(rules, cap),
         NEW fees, fees = Covering(rules, g[1])
  PROVE  /\ BestOf(g, rules, cap) \in Nat
         /\ BestOf(g, rules, cap) # 0 =>
              /\ g[1] <= BestOf(g, rules, cap) /\ BestOf(g, rules, cap) < g[2]
              /\ Loaded(fees, BestOf(g, rules, cap)) <= cap
         /\ \A s \in Nat : g[1] <= s /\ s < g[2] /\ Loaded(fees, s) <= cap => s <= BestOf(g, rules, cap)
<1> DEFINE x == g[1]
           top == g[2] - 1
           Fits(s) == Loaded(fees, s) <= cap
           h == CHOOSE h : Halving(h, fees, cap)
           best == BestOf(g, rules, cap)
<1>1. /\ best = CASE ~Fits(x) -> 0 [] Fits(x) /\ Fits(top) -> top [] OTHER -> h[<<x, top>>]
  BY Zenon DEF BestOf, Halving, HalfOf
<1>2. AreRules(fees)
  <2>1. fees \in SUBSET rules
    BY DEF Covering
  <2>2. IsFiniteSet(fees)
    BY <2>1, FS_Subset DEF AreRules
  <2> QED
    BY <2>1, <2>2 DEF AreRules
<1>3. x \in Nat \ {0} /\ top \in Nat /\ x <= top /\ g[2] \in Nat
  BY SegmentIs
<1>4. Halving(h, fees, cap)
  BY <1>2, HalvingExists
<1>5. \A a, b \in Nat : a <= b /\ Fits(b) => Fits(a)
  <2> SUFFICES ASSUME NEW a \in Nat, NEW b \in Nat, a <= b, Fits(b) PROVE Fits(a)
    OBVIOUS
  <2>1. Loaded(fees, a) \in Nat /\ Loaded(fees, b) \in Nat /\ Loaded(fees, a) <= Loaded(fees, b)
    BY <1>2, LoadedGrows
  <2> QED
    BY <2>1
<1> HIDE DEF h, best
<1>6. CASE ~Fits(x)
  <2>1. best = 0
    BY <1>1, <1>6
  <2>2. \A s \in Nat : x <= s => ~Fits(s)
    BY <1>3, <1>5, <1>6
  <2> QED
    BY <2>1, <2>2 DEF best
<1>7. CASE Fits(x) /\ Fits(top)
  <2>1. best = top
    BY <1>1, <1>7
  <2>2. \A s \in Nat : s < g[2] => s <= top
    BY <1>3
  <2> QED
    BY <1>3, <1>7, <2>1, <2>2 DEF best
<1>8. CASE Fits(x) /\ ~Fits(top)
  <2>1. best = h[<<x, top>>]
    BY <1>1, <1>8
  <2>2. x < top
    <3>1. x # top
      BY <1>8
    <3> QED
      BY <1>3, <3>1
  <2>3. /\ best \in Nat /\ x <= best /\ best < top
        /\ Fits(best) /\ ~Fits(best + 1)
    <3> HIDE DEF x, top
    <3> QED
      BY <1>2, <1>3, <1>4, <1>8, <2>1, <2>2, HalvingFinds
  <2>4. ASSUME NEW s \in Nat, Fits(s) PROVE s <= best
    <3> HIDE DEF Fits
    <3> SUFFICES ASSUME best + 1 <= s PROVE FALSE
      BY <2>3
    <3>1. best + 1 \in Nat
      BY <2>3
    <3>2. Fits(best + 1)
      BY <1>5, <2>4, <3>1
    <3> QED
      BY <2>3, <3>2
  <2> QED
    BY <1>3, <2>3, <2>4 DEF best
<1> QED
  BY <1>6, <1>7, <1>8

(* The search goes through every sticker covered by one rule. *)
LEMMA StickerIs ==
  ASSUME NEW rules, AreRules(rules), NEW cap \in Int, StickerKnown(rules, cap)
  PROVE  MaxStickerPrice(rules, cap)
           = Max({0} \cup {s \in 1..cap : /\ Cardinality(Covering(rules, s)) = 1
                                          /\ Loaded(Covering(rules, s), s) <= cap})
<1> DEFINE Right == {0} \cup {s \in 1..cap : /\ Cardinality(Covering(rules, s)) = 1
                                             /\ Loaded(Covering(rules, s), s) <= cap}
           covered == {g \in Segments(rules, cap) : Covering(rules, g[1]) # {}}
           Left == {0} \cup {BestOf(g, rules, cap) : g \in covered}
<1>1. Right \in SUBSET Int /\ IsFiniteSet(Right) /\ Right # {} /\ Max(Right) \in Right /\ Max(Right) \in Int
      /\ \A s \in Right : s <= Max(Right)
  <2>1. IsFiniteSet(0..cap) /\ Right \in SUBSET ({0} \cup (1..cap))
    <3>1. IsFiniteSet(0..cap)
      BY FS_Interval
    <3> QED
      BY <3>1
  <2>2. IsFiniteSet({0} \cup (1..cap))
    <3>1. IsFiniteSet(1..cap)
      BY FS_Interval
    <3> QED
      BY <3>1, OneMore
  <2>3. IsFiniteSet(Right)
    <3> HIDE DEF Right
    <3> QED
      BY <2>1, <2>2, FS_Subset
  <2>4. Right \in SUBSET Int /\ Right # {}
    OBVIOUS
  <2> HIDE DEF Right
  <2>5. Max(Right) \in Right /\ \A s \in Right : s <= Max(Right)
    BY <2>3, <2>4, MaxIs
  <2> QED
    BY <2>3, <2>4, <2>5
<1>2. CASE cap < 1
  <2>1. Right = {0}
    BY <1>2
  <2>2. Max(Right) = 0
    <3> HIDE DEF Right
    <3> QED
      BY <1>1, <2>1
  <2> QED
    BY <1>2, <2>2 DEF MaxStickerPrice
<1>3. CASE ~(cap < 1)
  <2>1. cap \in Nat \ {0}
    BY <1>3
  <2>2. MaxStickerPrice(rules, cap) = Max(Left)
    BY <1>3 DEF MaxStickerPrice
  <2>3. ASSUME NEW g \in Segments(rules, cap), Covering(rules, g[1]) # {}
        PROVE  Cardinality(Covering(rules, g[1])) = 1
    <3> DEFINE C == Covering(rules, g[1])
    <3>1. IsFiniteSet(C)
      <4>1. C \in SUBSET rules
        BY DEF Covering
      <4> QED
        BY <4>1, FS_Subset DEF AreRules
    <3>2. Cardinality(C) <= 1
      BY <2>1 DEF StickerKnown
    <3> HIDE DEF C
    <3>3. Cardinality(C) \in Nat /\ (Cardinality(C) = 0 <=> C = {})
      BY <3>1, FS_EmptySet, FS_CardinalityType
    <3> QED
      BY <2>3, <3>2, <3>3 DEF C
  <2>4. ASSUME NEW g \in covered PROVE BestOf(g, rules, cap) \in Right
    <3> DEFINE best == BestOf(g, rules, cap)
               C == Covering(rules, g[1])
    <3>1. g \in Segments(rules, cap) /\ Cardinality(C) = 1
      BY <2>3
    <3>2. /\ best \in Nat
          /\ best # 0 => g[1] <= best /\ best < g[2] /\ Loaded(C, best) <= cap
      BY <2>1, <3>1, BestOfIs
    <3>3. /\ g[1] \in Nat \ {0} /\ g[2] \in Nat /\ g[2] <= cap + 1
          /\ \A s \in Nat : g[1] <= s /\ s < g[2] => Covering(rules, s) = C
      BY <2>1, <3>1, SegmentIs
    <3> HIDE DEF best, C, covered
    <3>4. CASE best = 0
      BY <3>4 DEF best
    <3>5. CASE best # 0
      <4>1. best \in 1..cap
        BY <2>1, <3>2, <3>3, <3>5
      <4>2. Covering(rules, best) = C
        BY <3>2, <3>3, <3>5
      <4>3. best \in Right
        BY <3>1, <3>2, <3>5, <4>1, <4>2
      <4> QED
        BY <4>3 DEF best
    <3> QED
      BY <3>4, <3>5
  <2>5. ASSUME NEW s \in Right PROVE \E b \in Left : s <= b
    <3>1. CASE s = 0
      BY <3>1
    <3>2. CASE s # 0
      <4>1. s \in 1..cap /\ Cardinality(Covering(rules, s)) = 1 /\ Loaded(Covering(rules, s), s) <= cap
        BY <3>2
      <4>2. PICK g \in Segments(rules, cap) : g[1] <= s /\ s < g[2]
        BY <2>1, <4>1, SegmentHolding
      <4>3. Covering(rules, s) = Covering(rules, g[1])
        BY <2>1, <4>1, <4>2, SegmentIs
      <4>4. Covering(rules, g[1]) # {}
        BY <4>1, <4>3, FS_EmptySet
      <4> DEFINE C == Covering(rules, g[1])
      <4>5. s <= BestOf(g, rules, cap)
        <5>1. s \in Nat /\ Loaded(C, s) <= cap
          BY <4>1, <4>3
        <5> HIDE DEF C
        <5>2. \A r \in Nat : g[1] <= r /\ r < g[2] /\ Loaded(C, r) <= cap => r <= BestOf(g, rules, cap)
          BY <2>1, BestOfIs DEF C
        <5> QED
          BY <4>2, <5>1, <5>2
      <4>6. BestOf(g, rules, cap) \in Left
        BY <4>4
      <4> QED
        BY <4>5, <4>6
    <3> QED
      BY <3>1, <3>2
  <2>6. Left \in SUBSET Right /\ 0 \in Left
    <3>1. 0 \in Right
      OBVIOUS
    <3> HIDE DEF Right, covered
    <3> QED
      BY <2>4, <3>1
  <2> HIDE DEF Left, Right
  <2>7. Left \in SUBSET Int /\ IsFiniteSet(Left) /\ Left # {}
    <3>1. IsFiniteSet(Left)
      BY <1>1, <2>6, FS_Subset
    <3> QED
      BY <1>1, <2>6, <3>1
  <2>8. Max(Left) \in Left /\ \A s \in Left : s <= Max(Left)
    BY <2>7, MaxIs
  <2>9. PICK b \in Left : Max(Right) <= b
    BY <1>1, <2>5
  <2>10. Max(Left) = Max(Right)
    <3>1. Max(Left) <= Max(Right) /\ Max(Right) <= b /\ b <= Max(Left)
      BY <1>1, <2>6, <2>8, <2>9
    <3>2. Max(Left) \in Int /\ Max(Right) \in Int /\ b \in Int
      BY <1>1, <2>7, <2>8, <2>9
    <3> QED
      BY <3>1, <3>2
  <2> QED
    BY <2>2, <2>10 DEF Right
<1> QED
  BY <1>2, <1>3

-----------------------------------------------------------------------------
(* A sticker answered is what the search answers for a known schedule.     *)
AskInv ==
  asked.what = "sticker" =>
    /\ AreRules(asked.rules) /\ asked.cap \in Int /\ StickerKnown(asked.rules, asked.cap)
    /\ asked.price = MaxStickerPrice(asked.rules, asked.cap)

LEMMA AskKeepsAsk == AskSticker => AskInv'
<1> SUFFICES ASSUME AskSticker PROVE AskInv'
  OBVIOUS
<1>1. PICK cap \in Caps, s \in Schedule :
        /\ StickerKnown(Candidates(s, Venue, "purchase", 0), cap)
        /\ asked' = [what |-> "sticker", cap |-> cap, rules |-> Candidates(s, Venue, "purchase", 0),
                     price |-> MaxStickerPrice(Candidates(s, Venue, "purchase", 0), cap)]
  BY DEF AskSticker
<1> DEFINE rules == Candidates(s, Venue, "purchase", 0)
<1>2. rules \in SUBSET s /\ IsFiniteSet(s) /\ \A rule \in s : IsRule(rule)
  BY AppraisalAssumption DEF Candidates, IsSchedule
<1>3. StickerKnown(rules, cap) /\ asked' = [what |-> "sticker", cap |-> cap, rules |-> rules,
                                            price |-> MaxStickerPrice(rules, cap)]
  BY <1>1
<1> HIDE DEF rules
<1>4. AreRules(rules)
  <2>1. IsFiniteSet(rules)
    BY <1>2, FS_Subset
  <2> QED
    BY <1>2, <2>1 DEF AreRules
<1>5. cap \in Int
  BY AppraisalAssumption
<1> QED
  BY <1>3, <1>4, <1>5 DEF AskInv

(* The sticker answered is the greatest that fits under the cap.           *)
THEOREM StickerExact == ReviewSpec => []StickerIsExact
<1>1. ReviewInit => AskInv
  BY DEF ReviewInit, AppraisalInit, NoQuestion, AskInv
<1>2. AskInv /\ [ReviewNext]_reviewVars => AskInv'
  <2> SUFFICES ASSUME AskInv, [ReviewNext]_reviewVars PROVE AskInv'
    OBVIOUS
  <2>1. CASE UNCHANGED asked
    BY <2>1 DEF AskInv
  <2>2. CASE Open
    <3>1. asked' = NoQuestion
      BY <2>2 DEF Open, Start
    <3> QED
      BY <3>1 DEF AskInv, NoQuestion
  <2>3. CASE Appraise
    <3>1. CASE AskSticker
      BY <3>1, AskKeepsAsk
    <3>2. CASE AskCap
      <4>1. asked' = [what |-> "cap"]
        BY <3>2 DEF AskCap
      <4> QED
        BY <4>1 DEF AskInv
    <3>3. CASE ~AskSticker /\ ~AskCap
      <4>1. UNCHANGED asked
        BY <2>3, <3>3 DEF Appraise, Deliberate, NoRail, PlanRail, Value, Screen, Reserve, Requery, Gate,
                          Assess, Search, Refuse, TakeCap
      <4> QED
        BY <2>1, <4>1
    <3> QED
      BY <3>1, <3>2, <3>3
  <2>4. CASE MeasureLead \/ Review \/ UNCHANGED reviewVars
    <3>1. UNCHANGED asked
      BY <2>4 DEF MeasureLead, Conclude, Review, reviewVars, appraisalVars
    <3> QED
      BY <2>1, <3>1
  <2> QED
    BY <2>2, <2>3, <2>4 DEF ReviewNext
<1>3. AskInv => StickerIsExact
  BY StickerIs DEF AskInv, StickerIsExact
<1> QED
  BY <1>1, <1>2, <1>3, PTL DEF ReviewSpec

(* Every price an operator is told to enter at is safe to enter at.        *)
THEOREM TargetsSafe == ReviewSpec => []TargetsAreSafe
<1>1. EntryAgreesWithReturn /\ CheaperBundlesClear /\ StickerIsExact => TargetsAreSafe
  BY DEF TargetsAreSafe
<1> QED
  BY <1>1, EntryAgrees, CheaperClear, StickerExact, PTL
=============================================================================
