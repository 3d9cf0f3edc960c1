----------------------------- MODULE FoldProofs -----------------------------
(***************************************************************************)
(* What the proofs about the components share: induction, sums over finite *)
(* sets (SumOver of Money, a fold), least and greatest elements, products, *)
(* rounding and fees, and what sorting a finite set by a total order       *)
(* returns.                                                                *)
(***************************************************************************)
EXTENDS Fees, FiniteSetTheorems, WellFoundedInduction, TLAPS

(* A set of numbers has a least one.                                        *)
LEMMA Least ==
  ASSUME NEW T, T \subseteq Nat, T # {}
  PROVE  \E m \in T : \A k \in T : m <= k
  <1> DEFINE R == {ss \in Nat \X Nat : ss[1] < ss[2]}
  <1>1. IsWellFoundedOn(R, Nat)
    BY NatLessThanWellFounded DEF OpToRel
  <1>2. PICK m \in T : \A k \in T : <<k, m>> \notin R
    <2> HIDE DEF R
    <2>1. QED
      BY <1>1, WFMin
  <1>3. ASSUME NEW k \in T
        PROVE  m <= k
    <2>1. k \in Nat /\ m \in Nat /\ <<k, m>> \notin R
      BY <1>2
    <2>2. QED
      BY <2>1
  <1>4. QED
    BY <1>3

LEMMA Induction ==
  ASSUME NEW S, 0 \in S, \A n \in S \cap Nat : n + 1 \in S
  PROVE  \A n \in Nat : n \in S
<1> DEFINE R == {ss \in Nat \X Nat : ss[1] < ss[2]}
           T == Nat \ S
<1>1. IsWellFoundedOn(R, Nat)
  BY NatLessThanWellFounded DEF OpToRel
<1>2. CASE T # {}
  <2>1. PICK m \in T : \A k \in T : <<k, m>> \notin R
    <3>1. T \subseteq Nat
      OBVIOUS
    <3> HIDE DEF T, R
    <3>2. QED
      BY <1>1, <1>2, <3>1, WFMin
  <2>2. m \in Nat \ {0} /\ m - 1 \in Nat /\ (m - 1) + 1 = m
    OBVIOUS
  <2>3. <<m - 1, m>> \in R
    BY <2>2
  <2>4. (m - 1) + 1 \in S
    BY <2>1, <2>2, <2>3
  <2>5. QED
    BY <2>2, <2>4
<1>3. QED
  BY <1>2

-----------------------------------------------------------------------------
Pick(s) == CHOOSE x \in s : TRUE

(* i gives every subset of S the sum of f over it. *)
IsSum(i, S, f) ==
  i = [s \in SUBSET S |-> IF s = {} THEN 0 ELSE i[s \ {Pick(s)}] + f[Pick(s)]]

LEMMA SumExists ==
  ASSUME NEW S, IsFiniteSet(S), NEW f
  PROVE  \E i : IsSum(i, S, f)
<1> DEFINE Step(h, s) == IF s = {} THEN 0 ELSE h[s \ {Pick(s)}] + f[Pick(s)]
           T == {k \in Nat : \E h : \A s \in SUBSET S : Cardinality(s) <= k => h[s] = Step(h, s)}
<1>0. ASSUME NEW s \in SUBSET S, s # {}
      PROVE  /\ Pick(s) \in s /\ s \ {Pick(s)} \in SUBSET S
             /\ Cardinality(s) \in Nat /\ Cardinality(s \ {Pick(s)}) = Cardinality(s) - 1
  <2>1. Pick(s) \in s
    BY <1>0 DEF Pick
  <2>2. IsFiniteSet(s)
    BY FS_Subset
  <2> QED
    BY <2>1, <2>2, FS_RemoveElement, FS_CardinalityType
<1>1. 0 \in T
  <2> DEFINE h == [s \in SUBSET S |-> 0]
  <2>1. ASSUME NEW s \in SUBSET S, Cardinality(s) <= 0 PROVE h[s] = Step(h, s)
    <3>1. s = {}
      <4>1. CASE s # {}
        <5>1. Cardinality(s) - 1 \in Nat
          <6>1. IsFiniteSet(s \ {Pick(s)})
            BY FS_Subset, <1>0, <4>1
          <6> QED
          BY <1>0, <4>1, <6>1, FS_CardinalityType
        <5>2. Cardinality(s) \in Nat
          BY <1>0, <4>1
        <5> QED
          BY <2>1, <5>1, <5>2, SMT
      <4> QED
        BY <4>1
    <3> QED
      BY <3>1
  <2> QED
    BY <2>1
<1>2. ASSUME NEW k \in T \cap Nat PROVE k + 1 \in T
  <2>1. PICK h : \A s \in SUBSET S : Cardinality(s) <= k => h[s] = Step(h, s)
    BY <1>2
  <2> DEFINE g == [s \in SUBSET S |-> Step(h, s)]
  <2>2. ASSUME NEW s \in SUBSET S, Cardinality(s) <= k + 1 PROVE g[s] = Step(g, s)
    <3>1. CASE s = {}
      BY <3>1
    <3>2. CASE s # {}
      <4> DEFINE r == s \ {Pick(s)}
      <4>1. r \in SUBSET S /\ Cardinality(r) <= k
        BY <1>0, <2>2, <3>2
      <4>2. g[r] = h[r]
        BY <2>1, <4>1
      <4> QED
        BY <3>2, <4>2
    <3> QED
      BY <3>1, <3>2
  <2> HIDE DEF g
  <2>3. \E w : \A s \in SUBSET S : Cardinality(s) <= k + 1 => w[s] = Step(w, s)
    BY <2>2
  <2>4. k + 1 \in Nat
    OBVIOUS
  <2> HIDE DEF Step
  <2> QED
    BY <2>3, <2>4
<1> HIDE DEF T
<1>3. Cardinality(S) \in T
  BY <1>1, <1>2, Induction, FS_CardinalityType
<1>4. PICK h : \A s \in SUBSET S : Cardinality(s) <= Cardinality(S) => h[s] = Step(h, s)
  BY <1>3 DEF T
<1>5. \A s \in SUBSET S : h[s] = Step(h, s)
  BY <1>4, FS_Subset
<1> DEFINE i == [s \in SUBSET S |-> h[s]]
<1>6. ASSUME NEW s \in SUBSET S PROVE i[s] = Step(i, s)
  BY <1>0, <1>5, <1>6
<1>7. i = [s \in SUBSET S |-> i[s]]
  OBVIOUS
<1> HIDE DEF i
<1>8. IsSum(i, S, f)
  BY <1>6, <1>7 DEF IsSum
<1> QED
  BY <1>8

LEMMA SumIs ==
  ASSUME NEW S, IsFiniteSet(S), NEW f
  PROVE  \E i : IsSum(i, S, f) /\ SumOver(S, f) = i[S]
<1> DEFINE W(i) == i = [s \in SUBSET S |-> IF s = {} THEN 0 ELSE i[s \ {CHOOSE x \in s : TRUE}] + f[CHOOSE x \in s : TRUE]]
           c == CHOOSE i : W(i)
<1>1. SumOver(S, f) = c[S]
  BY DEF SumOver, FoldSet, MapThenFoldSet
<1>2. \E i : W(i)
  <2>1. PICK i : IsSum(i, S, f)
    BY SumExists
  <2>2. W(i)
    BY <2>1 DEF IsSum, Pick
  <2> HIDE DEF W
  <2> QED
    BY <2>2
<1> HIDE DEF W
<1>3. W(c)
  BY <1>2
<1> QED
  BY <1>1, <1>3 DEF W, IsSum, Pick

(* What holds of the empty set and passes from a set without its pick to   *)
(* the set holds of every finite set.                                      *)
LEMMA PickInduction ==
  ASSUME NEW S, IsFiniteSet(S), NEW T, {} \in T,
         \A s \in SUBSET S : s # {} /\ s \ {Pick(s)} \in T => s \in T
  PROVE  S \in T
<1> DEFINE K == {k \in Nat : \A s \in SUBSET S : Cardinality(s) <= k => s \in T}
<1>0. ASSUME NEW s \in SUBSET S
      PROVE  /\ Cardinality(s) \in Nat
             /\ s # {} => /\ Pick(s) \in s /\ s \ {Pick(s)} \in SUBSET S
                          /\ Cardinality(s \ {Pick(s)}) = Cardinality(s) - 1
                          /\ Cardinality(s \ {Pick(s)}) \in Nat
  <2>1. IsFiniteSet(s)
    BY FS_Subset
  <2>2. s # {} => Pick(s) \in s
    BY DEF Pick
  <2>3. IsFiniteSet(s \ {Pick(s)})
    BY FS_Subset
  <2> QED
    BY <2>1, <2>2, <2>3, FS_RemoveElement, FS_CardinalityType
<1>1. 0 \in K
  <2>1. ASSUME NEW s \in SUBSET S, Cardinality(s) <= 0 PROVE s \in T
    <3>1. CASE s # {}
      <4>1. /\ Cardinality(s) \in Nat /\ Cardinality(s \ {Pick(s)}) \in Nat
            /\ Cardinality(s \ {Pick(s)}) = Cardinality(s) - 1
        BY <1>0, <3>1
      <4> QED
        BY <2>1, <4>1, SMT
    <3> QED
      BY <3>1
  <2> QED
    BY <2>1
<1>2. ASSUME NEW k \in K \cap Nat PROVE k + 1 \in K
  <2>1. ASSUME NEW s \in SUBSET S, Cardinality(s) <= k + 1 PROVE s \in T
    <3>1. CASE s # {}
      <4>1. s \ {Pick(s)} \in SUBSET S /\ Cardinality(s \ {Pick(s)}) <= k
        BY <1>0, <2>1, <3>1
      <4>2. s \ {Pick(s)} \in T
        BY <1>2, <4>1
      <4> QED
        BY <3>1, <4>2
    <3> QED
      BY <3>1
  <2>2. k + 1 \in Nat
    OBVIOUS
  <2> QED
    BY <2>1, <2>2
<1> HIDE DEF K
<1>3. Cardinality(S) \in K
  BY <1>1, <1>2, Induction, FS_CardinalityType
<1> QED
  BY <1>3, <1>0 DEF K

LEMMA SumEmpty ==
  ASSUME NEW S, NEW f, NEW i, IsSum(i, S, f)
  PROVE  i[{}] = 0
<1> DEFINE val(x) == IF x = {} THEN 0 ELSE i[x \ {Pick(x)}] + f[Pick(x)]
<1>1. i = [x \in SUBSET S |-> val(x)]
  BY DEF IsSum
<1>2. {} \in SUBSET S
  OBVIOUS
<1> HIDE DEF val
<1>3. i[{}] = val({})
  BY <1>1, <1>2
<1> QED
  BY <1>3 DEF val

LEMMA SumStep ==
  ASSUME NEW S, NEW f, NEW i, IsSum(i, S, f), NEW s \in SUBSET S, s # {}
  PROVE  /\ Pick(s) \in s /\ s \ {Pick(s)} \in SUBSET S
         /\ i[s] = i[s \ {Pick(s)}] + f[Pick(s)]
<1> DEFINE val(x) == IF x = {} THEN 0 ELSE i[x \ {Pick(x)}] + f[Pick(x)]
<1>1. i = [x \in SUBSET S |-> val(x)]
  BY DEF IsSum
<1>2. Pick(s) \in s
  BY DEF Pick
<1> HIDE DEF val
<1>3. i[s] = val(s)
  BY <1>1
<1> QED
  BY <1>2, <1>3 DEF val

(* A sum of natural numbers is one, and positive with a positive term. *)
LEMMA SumNat ==
  ASSUME NEW S, IsFiniteSet(S), NEW f, \A x \in S : f[x] \in Nat
  PROVE  SumOver(S, f) \in Nat
<1>1. PICK i : IsSum(i, S, f) /\ SumOver(S, f) = i[S]
  BY SumIs
<1> DEFINE T == {s \in SUBSET S : i[s] \in Nat}
<1>2. {} \in T
  <2>1. i[{}] = 0
    BY <1>1, SumEmpty
  <2> QED
    BY <2>1
<1>3. ASSUME NEW s \in SUBSET S, s # {}, s \ {Pick(s)} \in T PROVE s \in T
  <2>1. Pick(s) \in S /\ i[s] = i[s \ {Pick(s)}] + f[Pick(s)]
    BY <1>1, <1>3, SumStep
  <2>2. f[Pick(s)] \in Nat /\ i[s \ {Pick(s)}] \in Nat
    BY <2>1, <1>3
  <2> QED
    BY <2>1, <2>2
<1> HIDE DEF T
<1>4. S \in T
  BY <1>2, <1>3, PickInduction
<1> QED
  BY <1>1, <1>4 DEF T

(* Sums of whole numbers keep the order of their terms, and scale with     *)
(* them.                                                                   *)
LEMMA SumMonotone ==
  ASSUME NEW S, IsFiniteSet(S), NEW f, NEW g,
         \A x \in S : f[x] \in Int /\ g[x] \in Int /\ f[x] <= g[x]
  PROVE  SumOver(S, f) \in Int /\ SumOver(S, g) \in Int /\ SumOver(S, f) <= SumOver(S, g)
<1>1. PICK i : IsSum(i, S, f) /\ SumOver(S, f) = i[S]
  BY SumIs
<1>2. PICK j : IsSum(j, S, g) /\ SumOver(S, g) = j[S]
  BY SumIs
<1> DEFINE T == {s \in SUBSET S : i[s] \in Int /\ j[s] \in Int /\ i[s] <= j[s]}
<1>3. {} \in T
  <2>1. i[{}] = 0 /\ j[{}] = 0
    BY <1>1, <1>2, SumEmpty
  <2> QED
    BY <2>1
<1>4. ASSUME NEW s \in SUBSET S, s # {}, s \ {Pick(s)} \in T PROVE s \in T
  <2>1. /\ Pick(s) \in S /\ i[s] = i[s \ {Pick(s)}] + f[Pick(s)]
        /\ j[s] = j[s \ {Pick(s)}] + g[Pick(s)]
    BY <1>1, <1>2, <1>4, SumStep
  <2>2. f[Pick(s)] \in Int /\ g[Pick(s)] \in Int /\ f[Pick(s)] <= g[Pick(s)]
    BY <2>1
  <2>3. /\ i[s \ {Pick(s)}] \in Int /\ j[s \ {Pick(s)}] \in Int
        /\ i[s \ {Pick(s)}] <= j[s \ {Pick(s)}]
    BY <1>4
  <2>4. i[s] \in Int /\ j[s] \in Int /\ i[s] <= j[s]
    BY <2>1, <2>2, <2>3, SMT
  <2> QED
    BY <2>4
<1> HIDE DEF T
<1>5. S \in T
  BY <1>3, <1>4, PickInduction
<1> QED
  BY <1>1, <1>2, <1>5 DEF T

Multiplied(S, f, g, c) == \A x \in S : f[x] \in Int /\ g[x] = c * f[x]

LEMMA SumScaled ==
  ASSUME NEW S, IsFiniteSet(S), NEW f, NEW g, NEW c \in Int, Multiplied(S, f, g, c)
  PROVE  SumOver(S, f) \in Int /\ SumOver(S, g) = c * SumOver(S, f)
<1>1. PICK i : IsSum(i, S, f) /\ SumOver(S, f) = i[S]
  BY SumIs
<1>2. PICK j : IsSum(j, S, g) /\ SumOver(S, g) = j[S]
  BY SumIs
<1> DEFINE T == {s \in SUBSET S : i[s] \in Int /\ j[s] = c * i[s]}
<1> HIDE DEF T
<1>3. {} \in T
  <2>1. i[{}] = 0 /\ j[{}] = 0
    BY <1>1, <1>2, SumEmpty
  <2> QED
    BY <2>1 DEF T
<1>4. ASSUME NEW s \in SUBSET S, s # {}, s \ {Pick(s)} \in T PROVE s \in T
  <2>0. Pick(s) \in s /\ i[s] = i[s \ {Pick(s)}] + f[Pick(s)]
    BY <1>1, <1>4, SumStep
  <2>9. j[s] = j[s \ {Pick(s)}] + g[Pick(s)]
    BY <1>2, <1>4, SumStep
  <2> DEFINE a == i[s \ {Pick(s)}]
             b == f[Pick(s)]
  <2>1. Pick(s) \in S /\ i[s] = a + b
    BY <2>0
  <2>2. b \in Int /\ g[Pick(s)] = c * b
    BY <2>1 DEF Multiplied
  <2>3. a \in Int /\ j[s \ {Pick(s)}] = c * a
    BY <1>4 DEF T
  <2> HIDE DEF a, b
  <2>4. c * a + c * b = c * (a + b) /\ a + b \in Int
    BY <2>2, <2>3, SMT
  <2>5. i[s] \in Int /\ j[s] = c * i[s]
    BY <2>1, <2>2, <2>3, <2>4, <2>9
  <2> QED
    BY <2>5 DEF T
<1>5. S \in T
  BY <1>3, <1>4, PickInduction
<1> QED
  BY <1>1, <1>2, <1>5 DEF T

(* No term of a sum of natural numbers is above it. *)
LEMMA SumAbove ==
  ASSUME NEW S, IsFiniteSet(S), NEW f, \A x \in S : f[x] \in Nat, NEW x \in S
  PROVE  f[x] <= SumOver(S, f)
<1>1. PICK i : IsSum(i, S, f) /\ SumOver(S, f) = i[S]
  BY SumIs
<1> DEFINE T == {s \in SUBSET S : i[s] \in Nat /\ (x \in s => f[x] <= i[s])}
<1>2. {} \in T
  <2>1. i[{}] = 0
    BY <1>1, SumEmpty
  <2> QED
    BY <2>1
<1>3. ASSUME NEW s \in SUBSET S, s # {}, s \ {Pick(s)} \in T PROVE s \in T
  <2> DEFINE a == i[s \ {Pick(s)}]
             b == f[Pick(s)]
  <2>1. Pick(s) \in S /\ i[s] = a + b
    BY <1>1, <1>3, SumStep
  <2>2. a \in Nat /\ b \in Nat /\ f[x] \in Nat
    BY <2>1, <1>3
  <2>3. x \in s => x = Pick(s) \/ f[x] <= a
    BY <1>3
  <2>4. x = Pick(s) => f[x] = b
    OBVIOUS
  <2> HIDE DEF a, b
  <2>5. i[s] \in Nat /\ (x \in s => f[x] <= i[s])
    BY <2>1, <2>2, <2>3, <2>4, SMT
  <2> QED
    BY <2>5
<1> HIDE DEF T
<1>4. S \in T
  BY <1>2, <1>3, PickInduction
<1> QED
  BY <1>1, <1>4 DEF T

LEMMA SumPositive ==
  ASSUME NEW S, IsFiniteSet(S), S # {}, NEW f, \A x \in S : f[x] \in Nat \ {0}
  PROVE  SumOver(S, f) \in Nat \ {0}
<1>1. PICK x \in S : TRUE
  OBVIOUS
<1>2. SumOver(S, f) \in Nat
  BY SumNat
<1>3. f[x] <= SumOver(S, f) /\ f[x] \in Nat \ {0}
  BY <1>1, SumAbove
<1> QED
  BY <1>2, <1>3

(* A sum does not depend on the order in which its terms are taken.        *)
LEMMA SumAny ==
  ASSUME NEW S, IsFiniteSet(S), NEW f, \A x \in S : f[x] \in Int, NEW i, IsSum(i, S, f),
         NEW s \in SUBSET S
  PROVE  i[s] \in Int /\ \A x \in s : i[s] = i[s \ {x}] + f[x]
<1> DEFINE Good(r) == i[r] \in Int /\ \A x \in r : i[r] = i[r \ {x}] + f[x]
           K == {k \in Nat : \A r \in SUBSET S : Cardinality(r) <= k => Good(r)}
<1>0. ASSUME NEW r \in SUBSET S
      PROVE  /\ Cardinality(r) \in Nat
             /\ \A x \in r : /\ r \ {x} \in SUBSET S
                             /\ Cardinality(r \ {x}) = Cardinality(r) - 1
  <2>1. IsFiniteSet(r)
    BY FS_Subset
  <2> QED
    BY <2>1, FS_RemoveElement, FS_CardinalityType
<1>1. Good({})
  BY SumEmpty
<1>2. 0 \in K
  <2>1. ASSUME NEW r \in SUBSET S, Cardinality(r) <= 0 PROVE r = {}
    <3> SUFFICES ASSUME NEW x \in r PROVE FALSE
      OBVIOUS
    <3>1. Cardinality(r) - 1 \in Nat /\ Cardinality(r) \in Nat
      <4>1. Cardinality(r \ {x}) \in Nat /\ Cardinality(r \ {x}) = Cardinality(r) - 1
        BY <1>0
      <4> QED
        BY <1>0, <4>1
    <3> QED
      BY <2>1, <3>1
  <2> QED
    BY <1>1, <2>1
<1>3. ASSUME NEW k \in K \cap Nat PROVE k + 1 \in K
  <2>1. ASSUME NEW r \in SUBSET S, Cardinality(r) <= k + 1, r # {} PROVE Good(r)
    <3> DEFINE y == Pick(r)
               q == r \ {y}
    <3>1. y \in r /\ q \in SUBSET S /\ i[r] = i[q] + f[y] /\ f[y] \in Int
      <4> HIDE DEF Good, K
      <4>1. /\ Pick(r) \in r /\ r \ {Pick(r)} \in SUBSET S
            /\ i[r] = i[r \ {Pick(r)}] + f[Pick(r)]
        BY <2>1, SumStep
      <4> QED
        BY <4>1
    <3>2. Good(q)
      <4>1. Cardinality(q) <= k
        BY <1>0, <2>1, <3>1
      <4> QED
        BY <1>3, <3>1, <4>1
    <3> HIDE DEF y
    <3>3. ASSUME NEW x \in r, x # y PROVE i[r] = i[r \ {x}] + f[x]
      <4> DEFINE t == r \ {x}
      <4>1. Good(t)
        <5>1. t \in SUBSET S /\ Cardinality(t) <= k
          BY <1>0, <2>1
        <5> QED
          BY <1>3, <5>1
      <4>2. x \in q /\ y \in t /\ t \ {y} = q \ {x} /\ f[x] \in Int
        BY <3>1, <3>3
      <4>3. i[q] = i[q \ {x}] + f[x] /\ i[t] = i[q \ {x}] + f[y] /\ i[q \ {x}] \in Int
        <5>1. q \ {x} \in SUBSET S /\ Cardinality(q \ {x}) <= k
          <6>1. /\ Cardinality(q) = Cardinality(r) - 1 /\ Cardinality(r) \in Nat
                /\ Cardinality(q \ {x}) = Cardinality(q) - 1 /\ q \ {x} \in SUBSET S
            BY <1>0, <2>1, <3>1, <4>2
          <6> QED
            BY <2>1, <6>1
        <5>2. i[q \ {x}] \in Int
          BY <1>3, <5>1
        <5> QED
          BY <3>2, <4>1, <4>2, <5>2
      <4> QED
        BY <3>1, <4>2, <4>3
    <3>4. i[r] \in Int
      BY <3>1, <3>2
    <3>5. \A x \in r : i[r] = i[r \ {x}] + f[x]
      BY <3>1, <3>3
    <3> QED
      BY <3>4, <3>5
  <2>2. k + 1 \in Nat
    OBVIOUS
  <2> HIDE DEF Good
  <2> QED
    BY <1>1, <2>1, <2>2
<1> HIDE DEF K
<1>4. Cardinality(s) \in K
  BY <1>0, <1>2, <1>3, Induction
<1>5. Good(s)
  <2>1. Cardinality(s) \in Nat /\ Cardinality(s) <= Cardinality(s)
    BY <1>0
  <2> HIDE DEF Good
  <2> QED
    BY <1>4, <2>1 DEF K
<1> QED
  BY <1>5

(* The sums over the subsets are the sums of the subsets. *)
LEMMA SumSub ==
  ASSUME NEW S, IsFiniteSet(S), NEW f, NEW i, IsSum(i, S, f), NEW D \in SUBSET S
  PROVE  SumOver(D, f) = i[D]
<1>1. IsFiniteSet(D)
  BY FS_Subset
<1>2. PICK j : IsSum(j, D, f) /\ SumOver(D, f) = j[D]
  BY <1>1, SumIs
<1> DEFINE T == {s \in SUBSET D : j[s] = i[s]}
<1>3. {} \in T
  BY <1>2, SumEmpty
<1>4. ASSUME NEW s \in SUBSET D, s # {}, s \ {Pick(s)} \in T PROVE s \in T
  <2> HIDE DEF T
  <2>1. j[s] = j[s \ {Pick(s)}] + f[Pick(s)]
    BY <1>2, <1>4, SumStep
  <2>2. s \in SUBSET S
    OBVIOUS
  <2>3. i[s] = i[s \ {Pick(s)}] + f[Pick(s)]
    BY <1>4, <2>2, SumStep
  <2> QED
    BY <1>4, <2>1, <2>3 DEF T
<1> HIDE DEF T
<1>5. D \in T
  BY <1>1, <1>3, <1>4, PickInduction
<1> QED
  BY <1>2, <1>5 DEF T

(* The sum over 1..n of differences of neighbours. *)
LEMMA Telescope ==
  ASSUME NEW n \in Nat, NEW f, NEW u, \A k \in 0..n : u[k] \in Int,
         \A k \in 1..n : f[k] = u[k - 1] - u[k]
  PROVE  SumOver(1..n, f) = u[0] - u[n]
<1> DEFINE S == 1..n
           T == {m \in Nat : m <= n => SumOver(1..m, f) = u[0] - u[m]}
<1>1. IsFiniteSet(S)
  BY FS_Interval
<1>2. \A k \in S : f[k] \in Int
  OBVIOUS
<1>3. PICK i : IsSum(i, S, f)
  BY <1>1, SumIs
<1>4. 0 \in T
  <2>1. 1..0 = {} /\ {} \in SUBSET S
    OBVIOUS
  <2>2. SumOver(1..0, f) = 0
    BY <1>1, <1>3, <2>1, SumSub, SumEmpty
  <2>3. u[0] \in Int
    OBVIOUS
  <2> QED
    BY <2>2, <2>3
<1>5. ASSUME NEW m \in T \cap Nat PROVE m + 1 \in T
  <2> SUFFICES ASSUME m + 1 <= n PROVE SumOver(1..(m + 1), f) = u[0] - u[m + 1]
    OBVIOUS
  <2>1. /\ 1..(m + 1) \in SUBSET S /\ 1..m \in SUBSET S /\ (1..(m + 1)) \ {m + 1} = 1..m
        /\ m + 1 \in 1..(m + 1) /\ m + 1 \in S
    OBVIOUS
  <2>2. SumOver(1..(m + 1), f) = i[1..(m + 1)] /\ SumOver(1..m, f) = i[1..m]
    BY <1>1, <1>3, <2>1, SumSub
  <2>3. i[1..(m + 1)] = i[1..m] + f[m + 1]
    <3>1. \A x \in 1..(m + 1) : i[1..(m + 1)] = i[(1..(m + 1)) \ {x}] + f[x]
      <4> DEFINE s == 1..(m + 1)
      <4>1. s \in SUBSET S
        BY <2>1
      <4> HIDE DEF s, S
      <4>2. \A x \in s : i[s] = i[s \ {x}] + f[x]
        BY <1>1, <1>2, <1>3, <4>1, SumAny
      <4> QED
        BY <4>2 DEF s
    <3> QED
      BY <2>1, <3>1
  <2>4. SumOver(1..m, f) = u[0] - u[m]
    BY <1>5
  <2>5. f[m + 1] = u[m] - u[m + 1] /\ u[0] \in Int /\ u[m] \in Int /\ u[m + 1] \in Int
    <3>1. m + 1 \in 1..n /\ (m + 1) - 1 = m /\ m \in 0..n /\ m + 1 \in 0..n /\ 0 \in 0..n
      OBVIOUS
    <3> QED
      BY <3>1
  <2> QED
    BY <2>2, <2>3, <2>4, <2>5
<1> HIDE DEF T
<1>6. n \in T
  BY <1>4, <1>5, Induction
<1> QED
  BY <1>6 DEF T

Added(S, f, g, h) == \A x \in S : f[x] \in Int /\ g[x] \in Int /\ h[x] = f[x] + g[x]

LEMMA SumAdds ==
  ASSUME NEW S, IsFiniteSet(S), NEW f, NEW g, NEW h, Added(S, f, g, h)
  PROVE  SumOver(S, f) \in Int /\ SumOver(S, g) \in Int /\ SumOver(S, h) = SumOver(S, f) + SumOver(S, g)
<1>1. PICK i : IsSum(i, S, f) /\ SumOver(S, f) = i[S]
  BY SumIs
<1>2. PICK j : IsSum(j, S, g) /\ SumOver(S, g) = j[S]
  BY SumIs
<1>3. PICK l : IsSum(l, S, h) /\ SumOver(S, h) = l[S]
  BY SumIs
<1> DEFINE T == {s \in SUBSET S : i[s] \in Int /\ j[s] \in Int /\ l[s] = i[s] + j[s]}
<1> HIDE DEF T
<1>4. {} \in T
  <2>1. i[{}] = 0 /\ j[{}] = 0 /\ l[{}] = 0
    BY <1>1, <1>2, <1>3, SumEmpty
  <2> QED
    BY <2>1 DEF T
<1>5. ASSUME NEW s \in SUBSET S, s # {}, s \ {Pick(s)} \in T PROVE s \in T
  <2>1. Pick(s) \in s /\ i[s] = i[s \ {Pick(s)}] + f[Pick(s)]
    BY <1>1, <1>5, SumStep
  <2>2. Pick(s) \in s /\ j[s] = j[s \ {Pick(s)}] + g[Pick(s)]
    <3>1. IsSum(j, S, g)
      BY <1>2
    <3>2. /\ Pick(s) \in s /\ s \ {Pick(s)} \in SUBSET S
          /\ j[s] = j[s \ {Pick(s)}] + g[Pick(s)]
      BY <1>5, <3>1, SumStep
    <3> QED
      BY <3>2
  <2>3. Pick(s) \in s /\ l[s] = l[s \ {Pick(s)}] + h[Pick(s)]
    BY <1>3, <1>5, SumStep
  <2>4. f[Pick(s)] \in Int /\ g[Pick(s)] \in Int /\ h[Pick(s)] = f[Pick(s)] + g[Pick(s)]
    BY <2>1 DEF Added
  <2>5. i[s \ {Pick(s)}] \in Int /\ j[s \ {Pick(s)}] \in Int
        /\ l[s \ {Pick(s)}] = i[s \ {Pick(s)}] + j[s \ {Pick(s)}]
    BY <1>5 DEF T
  <2>6. i[s] \in Int /\ j[s] \in Int /\ l[s] = i[s] + j[s]
    BY <2>1, <2>2, <2>3, <2>4, <2>5, SMT
  <2> QED
    BY <2>6 DEF T
<1>6. S \in T
  BY <1>4, <1>5, PickInduction
<1> QED
  BY <1>1, <1>2, <1>3, <1>6 DEF T

-----------------------------------------------------------------------------
(* A finite set of whole numbers with a member has a greatest and a least. *)
LEMMA MaxIs ==
  ASSUME NEW S \in SUBSET Int, IsFiniteSet(S), S # {}
  PROVE  Max(S) \in S /\ \A x \in S : x <= Max(S)
<1> DEFINE T == {s \in SUBSET S : s = {} \/ \E m \in s : \A x \in s : x <= m}
<1>1. {} \in T
  OBVIOUS
<1>2. ASSUME NEW s \in SUBSET S, s # {}, s \ {Pick(s)} \in T PROVE s \in T
  <2> DEFINE p == Pick(s)
             r == s \ {p}
  <2>1. p \in s /\ p \in Int /\ s = r \cup {p}
    BY <1>2 DEF Pick
  <2>2. CASE r = {}
    <3>1. \E m \in s : \A x \in s : x <= m
      BY <2>1, <2>2
    <3> QED
      BY <3>1
  <2>3. CASE r # {}
    <3>1. PICK m \in r : \A x \in r : x <= m
      BY <1>2, <2>3
    <3>2. m \in Int /\ m \in s
      BY <3>1
    <3>3. CASE p <= m
      <4>1. \A x \in s : x <= m
        BY <2>1, <3>1, <3>3
      <4> QED
        BY <3>2, <4>1
    <3>4. CASE m <= p
      <4>1. \A x \in s : x <= p
        BY <2>1, <3>1, <3>2, <3>4
      <4> QED
        BY <2>1, <4>1
    <3> QED
      BY <2>1, <3>2, <3>3, <3>4
  <2> QED
    BY <2>2, <2>3
<1> HIDE DEF T
<1>3. S \in T
  BY <1>1, <1>2, PickInduction
<1>4. \E m \in S : \A x \in S : m >= x
  BY <1>3 DEF T
<1>5. Max(S) \in S /\ \A x \in S : Max(S) >= x
  BY <1>4 DEF Max
<1> QED
  BY <1>5

LEMMA ImageFinite ==
  ASSUME NEW S, IsFiniteSet(S), NEW f
  PROVE  IsFiniteSet({f[x] : x \in S})
<1> DEFINE T == {f[x] : x \in S}
           g == [x \in S |-> f[x]]
<1>1. g \in Surjection(S, T)
  BY DEF Surjection
<1> HIDE DEF g, T
<1>2. IsFiniteSet(T)
  BY <1>1, FS_Surjection
<1> QED
  BY <1>2 DEF T

LEMMA MinIs ==
  ASSUME NEW S \in SUBSET Int, IsFiniteSet(S), S # {}
  PROVE  Min(S) \in S /\ \A x \in S : Min(S) <= x
<1> DEFINE f == [x \in S |-> -x]
           N == {f[x] : x \in S}
<1>1. N \in SUBSET Int /\ N # {}
  <2>1. \A x \in S : f[x] = -x /\ f[x] \in Int
    OBVIOUS
  <2> HIDE DEF f
  <2> QED
    BY <2>1
<1>2. IsFiniteSet(N)
  <2> HIDE DEF f
  <2> QED
    BY ImageFinite
<1> HIDE DEF N
<1>3. Max(N) \in N /\ \A y \in N : y <= Max(N)
  BY <1>1, <1>2, MaxIs
<1>4. PICK m \in S : Max(N) = -m
  BY <1>3 DEF N
<1>5. ASSUME NEW x \in S PROVE m <= x
  <2>1. -x \in N
    BY DEF N
  <2>2. -x <= -m
    BY <1>3, <1>4, <2>1
  <2> QED
    BY <2>2, SMT
<1>6. \E m2 \in S : \A x \in S : m2 <= x
  BY <1>5
<1> QED
  BY <1>6 DEF Min

LEMMA OneMore ==
  ASSUME NEW S, IsFiniteSet(S), NEW x
  PROVE  IsFiniteSet({x} \cup S)
<1>1. IsFiniteSet(S \cup {x})
  BY FS_AddElement
<1>2. S \cup {x} = {x} \cup S
  OBVIOUS
<1> QED
  BY <1>1, <1>2

LEMMA PairFinite ==
  ASSUME NEW a, NEW b
  PROVE  IsFiniteSet({a, b})
<1>1. IsFiniteSet({b})
  BY FS_Singleton
<1>2. IsFiniteSet({a} \cup {b})
  BY <1>1, OneMore
<1>3. {a, b} = {a} \cup {b}
  OBVIOUS
<1> QED
  BY <1>2, <1>3

-----------------------------------------------------------------------------
(* Multiplying by a natural number keeps the order. *)
LEMMA Monotone ==
  ASSUME NEW n \in Nat, NEW a \in Int, NEW b \in Int, a <= b
  PROVE  n * a <= n * b
<1>1. n * (b - a) >= 0
  BY SMT
<1>2. n * (b - a) = n * b - n * a
  BY SMT
<1> QED
  BY <1>1, <1>2, SMT

(* Rounding goes to the next whole unit, down or up. *)
LEMMA Rounding ==
  ASSUME NEW x \in Int, NEW d \in Nat \ {0}
  PROVE  /\ RoundDown(x, d) \in Int /\ d * RoundDown(x, d) <= x /\ x < d * (RoundDown(x, d) + 1)
         /\ RoundUp(x, d) \in Int /\ x <= d * RoundUp(x, d) /\ d * (RoundUp(x, d) - 1) < x
         /\ 0 <= x => 0 <= RoundDown(x, d) /\ 0 <= RoundUp(x, d)
<1> DEFINE q == x \div d
           p == (-x) \div d
<1>1. q \in Int /\ d * q <= x /\ x < d * (q + 1)
  BY SMT
<1>2. p \in Int /\ d * p <= -x /\ -x < d * (p + 1)
  BY SMT
<1>3. RoundDown(x, d) = q /\ RoundUp(x, d) = -p
  BY DEF RoundDown, RoundUp
<1> HIDE DEF q, p
<1>4. d * (-p) = -(d * p) /\ d * (-p - 1) = -(d * (p + 1)) /\ d * (q + 1) \in Int
  BY <1>1, <1>2, SMT
<1>5. ASSUME 0 <= x PROVE 0 <= q /\ 0 <= -p
  <2>1. ASSUME q <= -1 PROVE FALSE
    <3>1. d * (q + 1) <= d * 0
      BY <1>1, <2>1, Monotone, SMT
    <3> QED
      BY <1>1, <1>5, <3>1, SMT
  <2>2. ASSUME 1 <= p PROVE FALSE
    <3>1. d * 1 <= d * p
      BY <1>2, <2>2, Monotone, SMT
    <3> QED
      BY <1>2, <1>5, <3>1, SMT
  <2> QED
    BY <1>1, <1>2, <2>1, <2>2, SMT
<1> QED
  BY <1>1, <1>2, <1>3, <1>4, <1>5, SMT

LEMMA Product ==
  ASSUME NEW a \in Nat, NEW b \in Nat
  PROVE  a * b \in Nat
<1>1. a * 0 <= a * b
  BY Monotone, SMT
<1> QED
  BY <1>1, SMT

LEMMA PositiveProduct ==
  ASSUME NEW a \in Nat \ {0}, NEW b \in Nat \ {0}
  PROVE  a * b \in Nat \ {0}
<1>1. a * 1 <= a * b
  BY Monotone, SMT
<1> QED
  BY <1>1, SMT

LEMMA Scaling ==
  ASSUME NEW a \in Nat, NEW r \in Fraction
  PROVE  /\ ScaledUp(a, r) \in Nat /\ ScaledDown(a, r) \in Nat
         /\ r[1] <= r[2] => ScaledDown(a, r) <= a
<1>1. r[1] \in Nat /\ r[2] \in Nat \ {0}
  BY DEF Fraction
<1> DEFINE x == a * r[1]
           d == r[2]
<1>2. x \in Nat
  BY <1>1, Product
<1>3. ASSUME r[1] <= r[2] PROVE x <= d * a
  <2>1. a * r[1] <= a * r[2]
    BY <1>1, <1>3, Monotone
  <2> QED
    BY <1>1, <2>1, SMT
<1>4. ScaledUp(a, r) = RoundUp(x, d) /\ ScaledDown(a, r) = RoundDown(x, d)
  BY DEF ScaledUp, ScaledDown
<1>5. d \in Nat \ {0}
  BY <1>1
<1> HIDE DEF x, d
<1>6. RoundUp(x, d) \in Nat /\ RoundDown(x, d) \in Nat /\ d * RoundDown(x, d) <= x
  BY <1>2, <1>5, Rounding
<1>7. ASSUME r[1] <= r[2] PROVE RoundDown(x, d) <= a
  <2>1. ASSUME a + 1 <= RoundDown(x, d) PROVE FALSE
    <3>1. d * (a + 1) <= d * RoundDown(x, d)
      BY <1>5, <1>6, <2>1, Monotone, SMT
    <3>2. d * (a + 1) = d * a + d /\ d * a \in Int
      BY <1>5, SMT
    <3> QED
      BY <1>2, <1>3, <1>5, <1>6, <1>7, <3>1, <3>2, SMT
  <2> QED
    BY <1>6, <2>1, SMT
<1> QED
  BY <1>4, <1>6, <1>7

LEMMA ScaledType ==
  ASSUME NEW a \in Int, NEW r \in Int \X (Nat \ {0})
  PROVE  ScaledUp(a, r) \in Int /\ ScaledDown(a, r) \in Int
<1>1. r[1] \in Int /\ r[2] \in Nat \ {0} /\ a * r[1] \in Int
  BY SMT
<1> QED
  BY <1>1, Rounding DEF ScaledUp, ScaledDown

(* Rounding down keeps the order. *)
LEMMA RoundDownMonotone ==
  ASSUME NEW x \in Int, NEW y \in Int, x <= y, NEW d \in Nat \ {0}
  PROVE  RoundDown(x, d) <= RoundDown(y, d)
<1> DEFINE a == RoundDown(x, d)
           b == RoundDown(y, d)
<1>1. a \in Int /\ b \in Int /\ d * a <= x /\ y < d * (b + 1) /\ d * (b + 1) \in Int /\ d * a \in Int
  BY Rounding, SMT
<1> HIDE DEF a, b
<1>2. ASSUME b + 1 <= a PROVE FALSE
  <2>1. d * (b + 1) <= d * a
    BY <1>1, <1>2, Monotone, SMT
  <2> QED
    BY <1>1, <2>1, SMT
<1>3. a <= b
  BY <1>1, <1>2, SMT
<1> QED
  BY <1>3 DEF a, b

(* Rounding up keeps the order, and leaves zero and more alone. *)
LEMMA RoundUpMonotone ==
  ASSUME NEW x \in Int, NEW y \in Int, x <= y, NEW q \in Nat \ {0}
  PROVE  RoundUp(x, q) \in Int /\ RoundUp(y, q) \in Int /\ RoundUp(x, q) <= RoundUp(y, q)
<1> DEFINE k == (-y) \div q
           l == (-x) \div q
<1>1. k \in Int /\ l \in Int /\ q * k <= -y /\ q * (l + 1) > -x
  BY SMT
<1> HIDE DEF k, l
<1>2. k <= l
  <2> SUFFICES ASSUME l + 1 <= k PROVE FALSE
    BY <1>1, SMT
  <2>1. q * (l + 1) <= q * k /\ q * k \in Int /\ q * (l + 1) \in Int
    BY <1>1, Monotone, SMT
  <2> QED
    BY <1>1, <2>1, SMT
<1>3. RoundUp(x, q) = -l /\ RoundUp(y, q) = -k
  BY DEF RoundUp, k, l
<1> QED
  BY <1>1, <1>2, <1>3, SMT

(* More spend, no less overhead; and never a negative one. *)
LEMMA ScaledUpGrows ==
  ASSUME NEW r \in Nat \X (Nat \ {0}), NEW a \in Int, NEW b \in Int, a <= b
  PROVE  /\ ScaledUp(a, r) \in Int /\ ScaledUp(b, r) \in Int
         /\ ScaledUp(a, r) <= ScaledUp(b, r)
         /\ 0 <= b => 0 <= ScaledUp(b, r)
<1> DEFINE p == r[1]
           q == r[2]
<1>1. p \in Nat /\ q \in Nat \ {0}
  BY SMT
<1>2. p * a <= p * b /\ p * a \in Int /\ p * b \in Int
  BY <1>1, Monotone, SMT
<1>3. a * p = p * a /\ b * p = p * b
  BY <1>1, SMT
<1>4. RoundUp(a * p, q) \in Int /\ RoundUp(b * p, q) \in Int /\ RoundUp(a * p, q) <= RoundUp(b * p, q)
  BY <1>1, <1>2, <1>3, RoundUpMonotone
<1>5. ASSUME 0 <= b PROVE 0 <= RoundUp(b * p, q)
  <2>1. p * 0 <= p * b /\ p * 0 = 0
    BY <1>1, <1>5, Monotone, SMT
  <2>2. RoundUp(0, q) <= RoundUp(b * p, q)
    BY <1>1, <1>2, <1>3, <2>1, RoundUpMonotone
  <2>3. RoundUp(0, q) = 0
    BY <1>1, SMT DEF RoundUp
  <2> QED
    BY <2>2, <2>3
<1> QED
  BY <1>4, <1>5 DEF ScaledUp

(* A known fee is a whole number of minor units, never a negative one. *)
LEMMA RuleFeeType ==
  ASSUME NEW rule, IsRule(rule), NEW basis \in Int
  PROVE  RuleFee(rule, basis) \in Nat
<1> DEFINE raw == ScaledUp(Magnitude(basis), rule.rate) + rule.fixed
           A == {raw} \cup rule.minimum
           B == {Max(A)} \cup rule.maximum
<1>1. raw \in Nat
  <2>1. Magnitude(basis) \in Nat
    BY DEF Magnitude
  <2>2. ScaledUp(Magnitude(basis), rule.rate) \in Nat
    BY <2>1, Scaling DEF IsRule
  <2> QED
    BY <2>2 DEF IsRule
<1>2. RuleFee(rule, basis) = Min(B)
  BY DEF RuleFee
<1> HIDE DEF raw
<1>3. A \in SUBSET Int /\ IsFiniteSet(A) /\ raw \in A
  <2>1. IsFiniteSet(A)
    BY OneMore DEF IsRule
  <2>2. A \in SUBSET Int
    BY <1>1 DEF IsRule
  <2> QED
    BY <2>1, <2>2
<1> HIDE DEF A
<1>4. Max(A) \in Int /\ raw <= Max(A)
  BY <1>3, MaxIs
<1>5. Max(A) \in Nat
  BY <1>1, <1>4
<1>6. B \in SUBSET Int /\ B \subseteq Nat /\ IsFiniteSet(B) /\ B # {}
  <2>1. IsFiniteSet(B)
    BY OneMore DEF IsRule
  <2>2. B \subseteq Nat
    BY <1>5 DEF IsRule
  <2> QED
    BY <2>1, <2>2
<1> HIDE DEF B
<1>7. Min(B) \in B
  BY <1>6, MinIs
<1> QED
  BY <1>2, <1>6, <1>7

LEMMA FeeType ==
  ASSUME NEW s, IsSchedule(s), NEW venue, NEW operation, NEW basis \in Int, NEW moment,
         FeeKnown(s, venue, operation, basis, moment)
  PROVE  Fee(s, venue, operation, basis, moment) \in Nat
<1> DEFINE M == Matching(s, venue, operation, basis, moment)
<1>1. M # {}
  <2>1. Cardinality(M) = 1
    BY DEF FeeKnown
  <2>2. Cardinality({}) = 0
    BY FS_EmptySet
  <2> QED
    BY <2>1, <2>2
<1>2. M \subseteq s
  BY DEF Matching
<1>3. Fee(s, venue, operation, basis, moment) = RuleFee(CHOOSE rule \in M : TRUE, basis)
  BY DEF Fee
<1> HIDE DEF M
<1>4. (CHOOSE rule \in M : TRUE) \in s
  BY <1>1, <1>2
<1>5. IsRule(CHOOSE rule \in M : TRUE)
  BY <1>4 DEF IsSchedule
<1> QED
  BY <1>3, <1>5, RuleFeeType

-----------------------------------------------------------------------------
(* A recursion over the numbers up to n has its values. *)
Recurses(f, n, v, g) == f[0] = v /\ \A k \in 1..n : f[k] = g[<<k, f[k - 1]>>]

LEMMA RecursionExists ==
  ASSUME NEW n \in Nat, NEW V, NEW v \in V, NEW g \in [(1..n) \X V -> V]
  PROVE  \E f \in [0..n -> V] : Recurses(f, n, v, g)
<1> USE DEF Recurses
<1> DEFINE Good(f, m) == f \in [0..m -> V] /\ Recurses(f, m, v, g)
           T == {m \in Nat : m <= n => \E f : Good(f, m)}
<1>1. 0 \in T
  <2> DEFINE f == [k \in 0..0 |-> v]
  <2>1. Good(f, 0)
    OBVIOUS
  <2> QED
    BY <2>1
<1>2. ASSUME NEW m \in T \cap Nat PROVE m + 1 \in T
  <2>1. CASE m + 1 <= n
    <3>1. m <= n
      BY <2>1
    <3>2. PICK f : Good(f, m)
      BY <1>2, <3>1
    <3> DEFINE h == [k \in 0..(m + 1) |-> IF k = m + 1 THEN g[<<m + 1, f[m]>>] ELSE f[k]]
    <3>3. f[m] \in V /\ <<m + 1, f[m]>> \in (1..n) \X V
      BY <2>1, <3>2
    <3>4. h \in [0..(m + 1) -> V]
      BY <3>2, <3>3
    <3>5. h[0] = v
      BY <3>2
    <3>6. ASSUME NEW k \in 1..(m + 1) PROVE h[k] = g[<<k, h[k - 1]>>]
      <4>1. CASE k = m + 1
        <5>1. h[k - 1] = f[m] /\ h[k] = g[<<m + 1, f[m]>>]
          BY <4>1
        <5> QED
          BY <4>1, <5>1
      <4>2. CASE k # m + 1
        <5>1. k \in 1..m /\ h[k] = f[k] /\ h[k - 1] = f[k - 1]
          BY <4>2
        <5> QED
          BY <3>2, <5>1
      <4> QED
        BY <4>1, <4>2
    <3> HIDE DEF h
    <3>7. Good(h, m + 1)
      BY <3>4, <3>5, <3>6
    <3> HIDE DEF Good
    <3> QED
      BY <3>7
  <2> QED
    BY <2>1
<1> HIDE DEF T
<1>3. n \in T
  BY <1>1, <1>2, Induction
<1> QED
  BY <1>3 DEF T

-----------------------------------------------------------------------------
(* A function on the numbers up to n is a sequence of n. *)
LEMMA LenOfInitial ==
  ASSUME NEW s, NEW n \in Nat, DOMAIN s = 1..n, s = [i \in 1..n |-> s[i]]
  PROVE  Len(s) = n
<1> DEFINE V == {s[i] : i \in 1..n}
<1>1. s \in [1..n -> V]
  OBVIOUS
<1>2. s \in Seq(V)
  BY <1>1
<1>3. Len(s) \in Nat /\ DOMAIN s = 1..Len(s)
  BY <1>2
<1>4. CASE n = 0
  <2>1. ASSUME Len(s) >= 1 PROVE FALSE
    <3>1. 1 \in 1..Len(s)
      BY <1>3, <2>1
    <3> QED
      BY <1>3, <1>4, <3>1
  <2> QED
    BY <1>3, <1>4, <2>1
<1>5. CASE n # 0
  <2>1. n \in 1..Len(s)
    BY <1>3, <1>5
  <2>2. CASE Len(s) > n
    <3>1. Len(s) \in 1..n
      BY <1>3, <2>2
    <3> QED
      BY <2>2, <3>1
  <2> QED
    BY <1>3, <2>1, <2>2
<1> QED
  BY <1>4, <1>5

(* What a strict order of the numbers up to n puts first comes first in an *)
(* arrangement of them.                                                    *)
LEMMA Sorting ==
  ASSUME NEW n \in Nat, NEW R,
         \A i \in 1..n : <<i, i>> \notin R,
         \A i, j, k \in 1..n : <<i, j>> \in R /\ <<j, k>> \in R => <<i, k>> \in R,
         \A i, j \in 1..n : i # j => <<i, j>> \in R \/ <<j, i>> \in R
  PROVE  \E f \in [1..n -> 1..n] :
           /\ \A i, j \in 1..n : f[i] = f[j] => i = j
           /\ \A i, j \in 1..n : i < j => <<f[i], f[j]>> \in R
<1> DEFINE D == 1..n
           first(i) == {j \in D : <<j, i>> \in R}
           place == [i \in D |-> Cardinality(first(i)) + 1]
<1>1. IsFiniteSet(D) /\ Cardinality(D) = n
  BY FS_Interval
<1>2. ASSUME NEW i \in D
      PROVE  IsFiniteSet(first(i)) /\ Cardinality(first(i)) \in Nat /\ Cardinality(first(i)) < n
  <2>1. first(i) \in SUBSET D /\ i \notin first(i)
    OBVIOUS
  <2> HIDE DEF first, D
  <2>2. /\ IsFiniteSet(first(i)) /\ Cardinality(first(i)) <= Cardinality(D)
        /\ Cardinality(D) = Cardinality(first(i)) => D = first(i)
    BY <1>1, <2>1, FS_Subset
  <2>3. Cardinality(first(i)) # n
    BY <1>1, <2>1, <2>2
  <2>4. Cardinality(first(i)) \in Nat
    BY <2>2, FS_CardinalityType
  <2> QED
    BY <1>1, <2>2, <2>3, <2>4, SMT
<1>3. ASSUME NEW i \in D, NEW j \in D, <<i, j>> \in R PROVE place[i] < place[j]
  <2>1. first(i) \in SUBSET first(j) /\ i \in first(j) /\ i \notin first(i)
    BY <1>3
  <2>2. /\ Cardinality(first(i)) <= Cardinality(first(j))
        /\ Cardinality(first(j)) = Cardinality(first(i)) => first(j) = first(i)
    BY <1>2, <2>1, FS_Subset
  <2>3. Cardinality(first(j)) # Cardinality(first(i))
    BY <2>1, <2>2
  <2>4. Cardinality(first(i)) \in Nat /\ Cardinality(first(j)) \in Nat
    BY <1>2
  <2>5. place[i] = Cardinality(first(i)) + 1 /\ place[j] = Cardinality(first(j)) + 1
    OBVIOUS
  <2> HIDE DEF first, place, D
  <2> QED
    BY <2>2, <2>3, <2>4, <2>5, SMT
<1>4. place \in [D -> D]
  <2>1. ASSUME NEW i \in D PROVE Cardinality(first(i)) + 1 \in D
    <3>1. Cardinality(first(i)) \in Nat /\ Cardinality(first(i)) < n
      BY <1>2
    <3> HIDE DEF first
    <3> QED
      BY <3>1
  <2> HIDE DEF first, D
  <2> QED
    BY <2>1
<1> HIDE DEF place, first
<1>5. ASSUME NEW i \in D, NEW j \in D, place[i] = place[j] PROVE i = j
  <2>1. place[i] \in Int /\ place[j] \in Int
    BY <1>4
  <2>2. ~(<<i, j>> \in R) /\ ~(<<j, i>> \in R)
    BY <1>3, <1>5, <2>1
  <2> QED
    BY <2>2
<1>6. place \in Injection(D, D)
  BY <1>4, <1>5 DEF Injection, IsInjective
<1>7. place \in Surjection(D, D)
  BY <1>1, <1>6, FS_Injection
<1>8. \A k \in D : \E i \in D : place[i] = k
  BY <1>7 DEF Surjection
<1> DEFINE f == [k \in D |-> CHOOSE i \in D : place[i] = k]
<1>9. \A k \in D : f[k] \in D /\ place[f[k]] = k
  BY <1>8
<1>10. f \in [D -> D]
  BY <1>9
<1> HIDE DEF f
<1>11. \A i, j \in D : f[i] = f[j] => i = j
  BY <1>9
<1>12. ASSUME NEW i \in D, NEW j \in D, i < j PROVE <<f[i], f[j]>> \in R
  <2>1. f[i] # f[j]
    BY <1>9, <1>12
  <2>2. ASSUME <<f[j], f[i]>> \in R PROVE FALSE
    <3>1. place[f[j]] < place[f[i]]
      BY <1>3, <1>9, <2>2
    <3> QED
      BY <1>9, <1>12, <3>1
  <2> QED
    BY <1>9, <2>1, <2>2
<1> HIDE DEF D
<1>13. /\ \A i, j \in D : f[i] = f[j] => i = j
       /\ \A i, j \in D : i < j => <<f[i], f[j]>> \in R
  BY <1>11, <1>12
<1> QED
  BY <1>10, <1>13 DEF D

Below(S, B, x) == {y \in S \ {x} : <<y, x>> \in B}

(* B orders S totally. *)
Orders(B, S) ==
  /\ \A x, y \in S : x # y => (<<x, y>> \in B <=> <<y, x>> \notin B)
  /\ \A x, y, z \in S : x # y /\ y # z /\ x # z /\ <<x, y>> \in B /\ <<y, z>> \in B => <<x, z>> \in B

(* The elements of a totally ordered finite set have the ranks 0 to one     *)
(* less than its size, each one of them.                                    *)
LEMMA Ranks ==
  ASSUME NEW S, IsFiniteSet(S), NEW B, Orders(B, S)
  PROVE  /\ Cardinality(S) \in Nat
         /\ \A x \in S : Cardinality(Below(S, B, x)) \in 0..Cardinality(S) - 1
         /\ \A x, z \in S : Cardinality(Below(S, B, x)) = Cardinality(Below(S, B, z)) => x = z
         /\ \A k \in 1..Cardinality(S) : \E x \in S : Cardinality(Below(S, B, x)) = k - 1
  <1> DEFINE n == Cardinality(S)
             rank == [x \in S |-> Cardinality(Below(S, B, x))]
  <1>1. n \in Nat
    BY FS_CardinalityType
  <1>2. ASSUME NEW x \in S
        PROVE  IsFiniteSet(Below(S, B, x)) /\ Cardinality(Below(S, B, x)) \in 0..n - 1
    <2>1. IsFiniteSet(S \ {x}) /\ Cardinality(S \ {x}) = n - 1
      BY FS_RemoveElement
    <2>2. Below(S, B, x) \in SUBSET (S \ {x})
      BY DEF Below
    <2>3. IsFiniteSet(Below(S, B, x)) /\ Cardinality(Below(S, B, x)) <= n - 1
      BY <2>1, <2>2, FS_Subset
    <2>4. Cardinality(Below(S, B, x)) \in Nat
      BY <2>3, FS_CardinalityType
    <2>5. QED
      BY <1>1, <2>3, <2>4
  <1>3. ASSUME NEW x \in S, NEW z \in S, x # z, <<x, z>> \in B
        PROVE  Cardinality(Below(S, B, x)) # Cardinality(Below(S, B, z))
    <2>1. Below(S, B, x) \in SUBSET Below(S, B, z)
      BY <1>3 DEF Below, Orders
    <2>2. x \in Below(S, B, z) /\ x \notin Below(S, B, x)
      BY <1>3 DEF Below
    <2>3. Below(S, B, x) # Below(S, B, z)
      BY <2>2
    <2>4. QED
      BY <1>2, <2>1, <2>3, FS_Subset
  <1>4. \A x, z \in S : Cardinality(Below(S, B, x)) = Cardinality(Below(S, B, z)) => x = z
    <2> SUFFICES ASSUME NEW x \in S, NEW z \in S, x # z
                 PROVE  Cardinality(Below(S, B, x)) # Cardinality(Below(S, B, z))
      OBVIOUS
    <2>1. <<x, z>> \in B \/ <<z, x>> \in B
      BY DEF Orders
    <2>2. QED
      BY <1>3, <2>1
  <1>5. rank \in Injection(S, 0..n - 1)
    <2>1. rank \in [S -> 0..n - 1]
      BY <1>2
    <2>2. IsInjective(rank)
      BY <1>4 DEF IsInjective
    <2>3. QED
      BY <2>1, <2>2 DEF Injection
  <1>6. IsFiniteSet(0..n - 1) /\ Cardinality(0..n - 1) = n
    <2>1. 0 \in Int /\ n - 1 \in Int
      BY <1>1
    <2>2. IsFiniteSet(0..n - 1) /\ Cardinality(0..n - 1) = IF 0 > n - 1 THEN 0 ELSE n - 1 - 0 + 1
      BY <2>1, FS_Interval
    <2>3. QED
      BY <1>1, <2>2
  <1>7. rank \in Surjection(S, 0..n - 1)
    BY <1>5, <1>6, FS_Injection
  <1>8. ASSUME NEW k \in 1..n
        PROVE  \E x \in S : Cardinality(Below(S, B, x)) = k - 1
    <2>1. k - 1 \in 0..n - 1
      BY <1>1
    <2>2. QED
      BY <1>7, <2>1 DEF Surjection
  <1>9. QED
    BY <1>1, <1>2, <1>4, <1>8

(* s lists the elements of S, each of them at some place. *)
Lists(s, S) ==
  /\ DOMAIN s = 1..Cardinality(S) /\ Cardinality(S) \in Nat
  /\ \A k \in 1..Cardinality(S) : s[k] \in S
  /\ \A x \in S : \E k \in 1..Cardinality(S) : s[k] = x

LEMMA OrderedLists ==
  ASSUME NEW S, IsFiniteSet(S), NEW B, Orders(B, S), NEW s,
         DOMAIN s = 1..Cardinality(S),
         \A k \in 1..Cardinality(S) : (\E x \in S : Cardinality(Below(S, B, x)) = k - 1)
           => s[k] \in S /\ Cardinality(Below(S, B, s[k])) = k - 1
  PROVE  Lists(s, S)
  <1>1. /\ Cardinality(S) \in Nat
        /\ \A x \in S : Cardinality(Below(S, B, x)) \in 0..Cardinality(S) - 1
        /\ \A x, z \in S : Cardinality(Below(S, B, x)) = Cardinality(Below(S, B, z)) => x = z
        /\ \A k \in 1..Cardinality(S) : \E x \in S : Cardinality(Below(S, B, x)) = k - 1
    BY Ranks
  <1>2. ASSUME NEW k \in 1..Cardinality(S)
        PROVE  s[k] \in S /\ Cardinality(Below(S, B, s[k])) = k - 1
    BY <1>1
  <1>3. ASSUME NEW x \in S
        PROVE  \E k \in 1..Cardinality(S) : s[k] = x
    <2> DEFINE k == Cardinality(Below(S, B, x)) + 1
    <2>1. k \in 1..Cardinality(S) /\ k - 1 = Cardinality(Below(S, B, x))
      BY <1>1
    <2>2. s[k] \in S /\ Cardinality(Below(S, B, s[k])) = k - 1
      BY <1>2, <2>1
    <2>3. s[k] = x
      BY <1>1, <2>1, <2>2
    <2>4. QED
      BY <2>1, <2>3
  <1>4. QED
    BY <1>1, <1>2, <1>3 DEF Lists

-----------------------------------------------------------------------------
(* More about sums. *)
LEMMA SumNothing ==
  ASSUME NEW f
  PROVE  SumOver({}, f) = 0
<1>1. PICK i : IsSum(i, {}, f) /\ SumOver({}, f) = i[{}]
  BY SumIs, FS_EmptySet
<1> QED
  BY <1>1, SumEmpty

(* Only the values on the set count. *)
LEMMA SumSame ==
  ASSUME NEW S, IsFiniteSet(S), NEW f, NEW g, \A x \in S : f[x] = g[x]
  PROVE  SumOver(S, f) = SumOver(S, g)
<1>1. PICK i : IsSum(i, S, f) /\ SumOver(S, f) = i[S]
  BY SumIs
<1>2. PICK j : IsSum(j, S, g) /\ SumOver(S, g) = j[S]
  BY SumIs
<1> DEFINE T == {s \in SUBSET S : i[s] = j[s]}
<1>3. {} \in T
  BY <1>1, <1>2, SumEmpty
<1>4. ASSUME NEW s \in SUBSET S, s # {}, s \ {Pick(s)} \in T PROVE s \in T
  <2>1. i[s] = i[s \ {Pick(s)}] + f[Pick(s)]
    BY <1>1, <1>4, SumStep
  <2>2. j[s] = j[s \ {Pick(s)}] + g[Pick(s)]
    BY <1>2, <1>4, SumStep
  <2>3. f[Pick(s)] = g[Pick(s)]
    BY <1>4 DEF Pick
  <2> QED
    BY <1>4, <2>1, <2>2, <2>3
<1> HIDE DEF T
<1>5. S \in T
  BY <1>3, <1>4, PickInduction
<1> QED
  BY <1>1, <1>2, <1>5 DEF T

(* One more term. *)
LEMMA SumMore ==
  ASSUME NEW S, IsFiniteSet(S), NEW x, x \notin S, NEW f, \A y \in S \cup {x} : f[y] \in Int
  PROVE  /\ SumOver(S, f) \in Int
         /\ SumOver(S \cup {x}, f) = SumOver(S, f) + f[x]
<1> DEFINE W == S \cup {x}
<1>1. IsFiniteSet(W)
  BY FS_AddElement
<1>2. PICK i : IsSum(i, W, f) /\ SumOver(W, f) = i[W]
  BY <1>1, SumIs
<1>3. S \in SUBSET W /\ W \in SUBSET W /\ x \in W /\ W \ {x} = S /\ \A y \in W : f[y] \in Int
  OBVIOUS
<1> HIDE DEF W
<1>4. SumOver(S, f) = i[S]
  BY <1>1, <1>2, <1>3, SumSub
<1>5. i[S] \in Int
  BY <1>1, <1>2, <1>3, SumAny
<1>6. \A y \in W : i[W] = i[W \ {y}] + f[y]
  BY <1>1, <1>2, <1>3, SumAny
<1> QED
  BY <1>2, <1>3, <1>4, <1>5, <1>6 DEF W

LEMMA SumOne ==
  ASSUME NEW x, NEW f, f[x] \in Int
  PROVE  SumOver({x}, f) = f[x]
<1>1. SumOver({} \cup {x}, f) = SumOver({}, f) + f[x]
  BY SumMore, FS_EmptySet
<1>2. {} \cup {x} = {x}
  OBVIOUS
<1> QED
  BY <1>1, <1>2, SumNothing

(* The sum over two sets apart. *)
LEMMA SumUnion ==
  ASSUME NEW S, IsFiniteSet(S), NEW W, IsFiniteSet(W), S \cap W = {},
         NEW f, \A x \in S \cup W : f[x] \in Int
  PROVE  /\ SumOver(S, f) \in Int /\ SumOver(W, f) \in Int
         /\ SumOver(S \cup W, f) = SumOver(S, f) + SumOver(W, f)
<1> DEFINE T == {s \in SUBSET S : /\ SumOver(s, f) \in Int
                                  /\ SumOver(s \cup W, f) = SumOver(s, f) + SumOver(W, f)}
<1>1. SumOver(W, f) \in Int
  BY SumMonotone
<1>2. {} \in T
  <2>1. {} \cup W = W
    OBVIOUS
  <2> QED
    BY <1>1, <2>1, SumNothing
<1>3. ASSUME NEW s \in SUBSET S, s # {}, s \ {Pick(s)} \in T PROVE s \in T
  <2> DEFINE r == s \ {Pick(s)}
             y == Pick(s)
  <2>1. y \in s
    BY <1>3 DEF Pick
  <2>2. /\ IsFiniteSet(r) /\ IsFiniteSet(r \cup W) /\ y \notin r /\ y \notin r \cup W
        /\ s = r \cup {y} /\ s \cup W = (r \cup W) \cup {y}
    <3>1. IsFiniteSet(r)
      BY FS_Subset
    <3>2. IsFiniteSet(r \cup W)
      BY <3>1, FS_Union
    <3> QED
      BY <2>1, <3>1, <3>2
  <2>3. (\A x \in r \cup {y} : f[x] \in Int) /\ \A x \in (r \cup W) \cup {y} : f[x] \in Int
    BY <2>1
  <2> HIDE DEF y
  <2>4. SumOver(r, f) \in Int /\ SumOver(r \cup W, f) = SumOver(r, f) + SumOver(W, f)
    BY <1>3 DEF y
  <2> HIDE DEF r, T
  <2>5. SumOver(s, f) = SumOver(r, f) + f[y]
    BY <2>2, <2>3, SumMore
  <2>6. SumOver(s \cup W, f) = SumOver(r \cup W, f) + f[y]
    BY <2>2, <2>3, SumMore
  <2>7. SumOver(s, f) \in Int /\ SumOver(s \cup W, f) = SumOver(s, f) + SumOver(W, f)
    BY <1>1, <2>3, <2>4, <2>5, <2>6
  <2> QED
    BY <2>7 DEF T
<1> HIDE DEF T
<1>4. S \in T
  BY <1>2, <1>3, PickInduction
<1> QED
  BY <1>1, <1>4 DEF T

(* What the part has not, the rest has. *)
LEMMA SumPart ==
  ASSUME NEW S, IsFiniteSet(S), NEW f, \A x \in S : f[x] \in Nat, NEW D \in SUBSET S
  PROVE  /\ SumOver(D, f) \in Nat /\ SumOver(S \ D, f) \in Nat /\ SumOver(S, f) \in Nat
         /\ SumOver(S, f) = SumOver(D, f) + SumOver(S \ D, f)
         /\ SumOver(D, f) <= SumOver(S, f)
<1>1. IsFiniteSet(D) /\ IsFiniteSet(S \ D)
  BY FS_Subset
<1>2. SumOver(D, f) \in Nat /\ SumOver(S \ D, f) \in Nat /\ SumOver(S, f) \in Nat
  BY <1>1, SumNat
<1>3. D \cup (S \ D) = S /\ D \cap (S \ D) = {} /\ \A x \in D \cup (S \ D) : f[x] \in Int
  OBVIOUS
<1>4. SumOver(D \cup (S \ D), f) = SumOver(D, f) + SumOver(S \ D, f)
  BY <1>1, <1>3, SumUnion
<1> QED
  BY <1>2, <1>3, <1>4

(* i gives every subset of S the product of f over it. *)
IsProductOver(i, S, f) ==
  i = [s \in SUBSET S |-> IF s = {} THEN 1 ELSE i[s \ {Pick(s)}] * f[Pick(s)]]

LEMMA ProductOverExists ==
  ASSUME NEW S, IsFiniteSet(S), NEW f
  PROVE  \E i : IsProductOver(i, S, f)
<1> DEFINE Step(h, s) == IF s = {} THEN 1 ELSE h[s \ {Pick(s)}] * f[Pick(s)]
           T == {k \in Nat : \E h : \A s \in SUBSET S : Cardinality(s) <= k => h[s] = Step(h, s)}
<1>0. ASSUME NEW s \in SUBSET S, s # {}
      PROVE  /\ Pick(s) \in s /\ s \ {Pick(s)} \in SUBSET S
             /\ Cardinality(s) \in Nat /\ Cardinality(s \ {Pick(s)}) = Cardinality(s) - 1
  <2>1. Pick(s) \in s
    BY <1>0 DEF Pick
  <2>2. IsFiniteSet(s)
    BY FS_Subset
  <2> QED
    BY <2>1, <2>2, FS_RemoveElement, FS_CardinalityType
<1>1. 0 \in T
  <2> DEFINE h == [s \in SUBSET S |-> 1]
  <2>1. ASSUME NEW s \in SUBSET S, Cardinality(s) <= 0 PROVE h[s] = Step(h, s)
    <3>1. s = {}
      <4>1. CASE s # {}
        <5>1. Cardinality(s) - 1 \in Nat
          <6>1. IsFiniteSet(s \ {Pick(s)})
            BY FS_Subset, <1>0, <4>1
          <6> QED
          BY <1>0, <4>1, <6>1, FS_CardinalityType
        <5>2. Cardinality(s) \in Nat
          BY <1>0, <4>1
        <5> QED
          BY <2>1, <5>1, <5>2, SMT
      <4> QED
        BY <4>1
    <3> QED
      BY <3>1
  <2> QED
    BY <2>1
<1>2. ASSUME NEW k \in T \cap Nat PROVE k + 1 \in T
  <2>1. PICK h : \A s \in SUBSET S : Cardinality(s) <= k => h[s] = Step(h, s)
    BY <1>2
  <2> DEFINE g == [s \in SUBSET S |-> Step(h, s)]
  <2>2. ASSUME NEW s \in SUBSET S, Cardinality(s) <= k + 1 PROVE g[s] = Step(g, s)
    <3>1. CASE s = {}
      BY <3>1
    <3>2. CASE s # {}
      <4> HIDE DEF T
      <4> DEFINE r == s \ {Pick(s)}
      <4>1. r \in SUBSET S /\ Cardinality(r) <= k
        BY <1>0, <2>2, <3>2
      <4>2. g[r] = h[r]
        BY <2>1, <4>1
      <4> QED
        BY <3>2, <4>2
    <3> QED
      BY <3>1, <3>2
  <2> HIDE DEF g
  <2>3. \E w : \A s \in SUBSET S : Cardinality(s) <= k + 1 => w[s] = Step(w, s)
    BY <2>2
  <2>4. k + 1 \in Nat
    OBVIOUS
  <2> HIDE DEF Step
  <2> QED
    BY <2>3, <2>4
<1> HIDE DEF T
<1>3. Cardinality(S) \in T
  BY <1>1, <1>2, Induction, FS_CardinalityType
<1>4. PICK h : \A s \in SUBSET S : Cardinality(s) <= Cardinality(S) => h[s] = Step(h, s)
  BY <1>3 DEF T
<1>5. \A s \in SUBSET S : h[s] = Step(h, s)
  BY <1>4, FS_Subset
<1> DEFINE i == [s \in SUBSET S |-> h[s]]
<1>6. ASSUME NEW s \in SUBSET S PROVE i[s] = Step(i, s)
  BY <1>0, <1>5, <1>6
<1>7. i = [s \in SUBSET S |-> i[s]]
  OBVIOUS
<1> HIDE DEF i
<1>8. IsProductOver(i, S, f)
  BY <1>6, <1>7 DEF IsProductOver
<1> QED
  BY <1>8

LEMMA ProductOverIs ==
  ASSUME NEW S, IsFiniteSet(S), NEW f
  PROVE  \E i : IsProductOver(i, S, f) /\ ProductOver(S, f) = i[S]
<1> DEFINE W(i) == i = [s \in SUBSET S |-> IF s = {} THEN 1 ELSE i[s \ {CHOOSE x \in s : TRUE}] * f[CHOOSE x \in s : TRUE]]
           c == CHOOSE i : W(i)
<1>1. ProductOver(S, f) = c[S]
  BY DEF ProductOver, FoldSet, MapThenFoldSet
<1>2. \E i : W(i)
  <2>1. PICK i : IsProductOver(i, S, f)
    BY ProductOverExists
  <2>2. W(i)
    BY <2>1 DEF IsProductOver, Pick
  <2> HIDE DEF W
  <2> QED
    BY <2>2
<1> HIDE DEF W
<1>3. W(c)
  BY <1>2
<1> QED
  BY <1>1, <1>3 DEF W, IsProductOver, Pick

LEMMA ProductOverEmpty ==
  ASSUME NEW S, NEW f, NEW i, IsProductOver(i, S, f)
  PROVE  i[{}] = 1
<1> DEFINE val(x) == IF x = {} THEN 1 ELSE i[x \ {Pick(x)}] * f[Pick(x)]
<1>1. i = [x \in SUBSET S |-> val(x)]
  BY DEF IsProductOver
<1>2. {} \in SUBSET S
  OBVIOUS
<1> HIDE DEF val
<1>3. i[{}] = val({})
  BY <1>1, <1>2
<1> QED
  BY <1>3 DEF val

LEMMA ProductOverStep ==
  ASSUME NEW S, NEW f, NEW i, IsProductOver(i, S, f), NEW s \in SUBSET S, s # {}
  PROVE  /\ Pick(s) \in s /\ s \ {Pick(s)} \in SUBSET S
         /\ i[s] = i[s \ {Pick(s)}] * f[Pick(s)]
<1> DEFINE val(x) == IF x = {} THEN 1 ELSE i[x \ {Pick(x)}] * f[Pick(x)]
<1>1. i = [x \in SUBSET S |-> val(x)]
  BY DEF IsProductOver
<1>2. Pick(s) \in s
  BY DEF Pick
<1> HIDE DEF val
<1>3. i[s] = val(s)
  BY <1>1
<1> QED
  BY <1>2, <1>3 DEF val

(* A sum of natural numbers is one, and positive with a positive term. *)
LEMMA ProductPositive ==
  ASSUME NEW S, IsFiniteSet(S), NEW f, \A x \in S : f[x] \in Nat \ {0}
  PROVE  ProductOver(S, f) \in Nat \ {0}
<1>1. PICK i : IsProductOver(i, S, f) /\ ProductOver(S, f) = i[S]
  BY ProductOverIs
<1> DEFINE T == {s \in SUBSET S : i[s] \in Nat \ {0}}
<1>2. {} \in T
  <2>1. i[{}] = 1
    BY <1>1, ProductOverEmpty
  <2> QED
    BY <2>1
<1>3. ASSUME NEW s \in SUBSET S, s # {}, s \ {Pick(s)} \in T PROVE s \in T
  <2>1. /\ Pick(s) \in s /\ s \ {Pick(s)} \in SUBSET S
        /\ i[s] = i[s \ {Pick(s)}] * f[Pick(s)]
    BY <1>1, <1>3, ProductOverStep
  <2>2. i[s \ {Pick(s)}] \in Nat \ {0} /\ f[Pick(s)] \in Nat \ {0}
    BY <1>3, <2>1
  <2>3. i[s \ {Pick(s)}] * f[Pick(s)] \in Nat \ {0}
    BY <2>2, PositiveProduct
  <2> QED
    BY <2>1, <2>3
<1> HIDE DEF T
<1>4. S \in T
  BY <1>2, <1>3, PickInduction
<1> QED
  BY <1>1, <1>4 DEF T

LEMMA ProductOne ==
  ASSUME NEW x, NEW f, f[x] \in Int
  PROVE  ProductOver({x}, f) = f[x]
<1> DEFINE S == {x}
<1>1. IsFiniteSet(S) /\ S \in SUBSET S /\ S # {} /\ Pick(S) = x /\ S \ {x} = {}
  BY FS_Singleton DEF Pick
<1> HIDE DEF S
<1>2. PICK i : IsProductOver(i, S, f) /\ ProductOver(S, f) = i[S]
  BY <1>1, ProductOverIs
<1>3. i[S] = i[S \ {Pick(S)}] * f[Pick(S)]
  BY <1>1, <1>2, ProductOverStep
<1>4. i[{}] = 1
  BY <1>2, ProductOverEmpty
<1> QED
  BY <1>1, <1>2, <1>3, <1>4 DEF S

(* A sum of so many values, none above c, is not above c times as many; and *)
(* one of none below c not below. *)
LEMMA SumBounded ==
  ASSUME NEW S, IsFiniteSet(S), NEW f, NEW c \in Nat, \A x \in S : f[x] \in Nat
  PROVE  /\ (\A x \in S : f[x] <= c) => SumOver(S, f) <= c * Cardinality(S)
         /\ (\A x \in S : c <= f[x]) => c * Cardinality(S) <= SumOver(S, f)
<1> DEFINE T == {s \in SUBSET S :
              /\ SumOver(s, f) \in Nat /\ Cardinality(s) \in Nat
              /\ (\A x \in S : f[x] <= c) => SumOver(s, f) <= c * Cardinality(s)
              /\ (\A x \in S : c <= f[x]) => c * Cardinality(s) <= SumOver(s, f)}
<1>1. {} \in T
  BY SumNothing, FS_EmptySet
<1>2. ASSUME NEW s \in SUBSET S, s # {}, s \ {Pick(s)} \in T PROVE s \in T
  <2> DEFINE r == s \ {Pick(s)}
             y == Pick(s)
             n == Cardinality(r)
  <2>1. y \in s
    BY <1>2 DEF Pick
  <2>2. IsFiniteSet(r) /\ y \notin r /\ s = r \cup {y} /\ f[y] \in Nat
    <3>1. IsFiniteSet(r)
      BY FS_Subset
    <3> QED
      BY <2>1, <3>1
  <2>3. \A x \in r \cup {y} : f[x] \in Int
    BY <2>1
  <2>4. /\ SumOver(r, f) \in Nat /\ n \in Nat
        /\ (\A x \in S : f[x] <= c) => SumOver(r, f) <= c * n
        /\ (\A x \in S : c <= f[x]) => c * n <= SumOver(r, f)
    BY <1>2
  <2>5. (\A x \in S : f[x] <= c) => f[y] <= c
    BY <2>1
  <2>6. (\A x \in S : c <= f[x]) => c <= f[y]
    BY <2>1
  <2> HIDE DEF y, r, T
  <2>7. SumOver(s, f) = SumOver(r, f) + f[y] /\ Cardinality(s) = n + 1
    BY <2>2, <2>3, SumMore, FS_AddElement DEF n
  <2> HIDE DEF n
  <2>8. c * (n + 1) = c * n + c /\ c * n \in Int
    BY <2>4, SMT
  <2>9. /\ SumOver(s, f) \in Nat /\ Cardinality(s) \in Nat
        /\ (\A x \in S : f[x] <= c) => SumOver(s, f) <= c * Cardinality(s)
        /\ (\A x \in S : c <= f[x]) => c * Cardinality(s) <= SumOver(s, f)
    BY <2>2, <2>4, <2>5, <2>6, <2>7, <2>8
  <2> QED
    BY <2>9 DEF T
<1> HIDE DEF T
<1>3. S \in T
  BY <1>1, <1>2, PickInduction
<1> QED
  BY <1>3 DEF T

(* Of two sets of one size, the one whose values are all below the other's  *)
(* has the lesser sum. *)
LEMMA SumsApart ==
  ASSUME NEW A, IsFiniteSet(A), NEW B, IsFiniteSet(B), Cardinality(A) <= Cardinality(B),
         NEW f, \A x \in A \cup B : f[x] \in Nat,
         \A x \in A, y \in B : f[x] <= f[y]
  PROVE  SumOver(A, f) <= SumOver(B, f)
<1>1. CASE A = {}
  <2>1. SumOver(A, f) = 0 /\ SumOver(B, f) \in Nat
    BY <1>1, SumNothing, SumNat
  <2> QED
    BY <2>1
<1>2. CASE A # {}
  <2> DEFINE V == {f[x] : x \in A}
             c == Max(V)
  <2>1. V \in SUBSET Int /\ IsFiniteSet(V) /\ V # {}
    BY <1>2, ImageFinite
  <2>2. c \in V /\ \A v \in V : v <= c
    BY <2>1, MaxIs
  <2>3. c \in Nat /\ (\A x \in A : f[x] <= c) /\ \A y \in B : c <= f[y]
    BY <2>2
  <2> HIDE DEF c, V
  <2>4. SumOver(A, f) <= c * Cardinality(A) /\ c * Cardinality(B) <= SumOver(B, f)
    BY <2>3, SumBounded
  <2>5. Cardinality(A) \in Nat /\ Cardinality(B) \in Nat
    BY FS_CardinalityType
  <2>6. c * Cardinality(A) <= c * Cardinality(B)
    BY <2>3, <2>5, Monotone
  <2>7. SumOver(A, f) \in Nat /\ SumOver(B, f) \in Nat
    BY SumNat
  <2>8. c * Cardinality(A) \in Nat /\ c * Cardinality(B) \in Nat
    BY <2>3, <2>5, Product
  <2> QED
    BY <2>4, <2>6, <2>7, <2>8
<1> QED
  BY <1>1, <1>2

-----------------------------------------------------------------------------
(* The first n of a set in the order B. *)
First(S, B, n) == {x \in S : Cardinality(Below(S, B, x)) < n}

LEMMA FirstIs ==
  ASSUME NEW S, IsFiniteSet(S), NEW B, Orders(B, S), NEW n \in Nat
  PROVE  /\ First(S, B, n) \in SUBSET S /\ IsFiniteSet(First(S, B, n))
         /\ Cardinality(First(S, B, n)) = IF n <= Cardinality(S) THEN n ELSE Cardinality(S)
         /\ Cardinality(S) <= n => First(S, B, n) = S
         /\ \A x \in First(S, B, n), y \in S \ First(S, B, n) : <<x, y>> \in B
<1> DEFINE F == First(S, B, n)
           rank == [x \in S |-> Cardinality(Below(S, B, x)) + 1]
           N == Cardinality(S)
           m == IF n <= N THEN n ELSE N
<1>1. /\ N \in Nat
      /\ \A x \in S : Cardinality(Below(S, B, x)) \in 0..N - 1
      /\ \A x, z \in S : Cardinality(Below(S, B, x)) = Cardinality(Below(S, B, z)) => x = z
      /\ \A k \in 1..N : \E x \in S : Cardinality(Below(S, B, x)) = k - 1
  BY Ranks
<1>2. F \in SUBSET S /\ IsFiniteSet(F)
  <2>1. F \in SUBSET S
    BY DEF First
  <2> QED
    BY <2>1, FS_Subset
<1>3. m \in Nat /\ m <= N /\ m <= n
  BY <1>1
<1>4. \A x \in F : rank[x] \in 1..m
  <2> SUFFICES ASSUME NEW x \in F PROVE rank[x] \in 1..m
    OBVIOUS
  <2>1. x \in S /\ Cardinality(Below(S, B, x)) < n /\ Cardinality(Below(S, B, x)) \in 0..N - 1
    BY <1>1, <1>2 DEF First
  <2> QED
    BY <1>1, <2>1
<1>5. \A k \in 1..m : \E x \in F : rank[x] = k
  <2> SUFFICES ASSUME NEW k \in 1..m PROVE \E x \in F : rank[x] = k
    OBVIOUS
  <2>1. PICK x \in S : Cardinality(Below(S, B, x)) = k - 1
    BY <1>1, <1>3
  <2>2. x \in F
    BY <1>3, <2>1 DEF First
  <2> QED
    BY <1>3, <2>1, <2>2
<1>6. \A x, z \in F : rank[x] = rank[z] => x = z
  BY <1>1, <1>2
<1> DEFINE g == [x \in F |-> rank[x]]
<1> HIDE DEF F, m, N
<1>7. g \in Injection(F, 1..m)
  <2>1. \A x, z \in F : g[x] = g[z] => x = z
    BY <1>6
  <2> QED
    BY <1>4, <2>1 DEF Injection, IsInjective
<1>8. g \in Surjection(F, 1..m)
  BY <1>4, <1>5 DEF Surjection
<1>9. IsFiniteSet(1..m) /\ Cardinality(1..m) = m
  BY <1>3, FS_Interval
<1>10. Cardinality(F) = m
  BY <1>7, <1>8, <1>9, FS_Injection
<1>11. ASSUME N <= n PROVE F = S
  BY <1>1, <1>11, <1>2 DEF F, First
<1>12. ASSUME NEW x \in F, NEW y \in S, y \notin F PROVE <<x, y>> \in B
  <2>1. x \in S /\ Cardinality(Below(S, B, x)) < n /\ ~(Cardinality(Below(S, B, y)) < n)
    BY <1>2, <1>12 DEF F, First
  <2>2. CASE <<y, x>> \in B
    <3>1. Below(S, B, y) \in SUBSET Below(S, B, x)
      BY <2>1, <2>2, <1>12 DEF Below, Orders
    <3>2. IsFiniteSet(Below(S, B, x))
      <4>1. Below(S, B, x) \in SUBSET S
        BY DEF Below
      <4> QED
        BY <4>1, FS_Subset
    <3>3. Cardinality(Below(S, B, y)) <= Cardinality(Below(S, B, x))
      BY <3>1, <3>2, FS_Subset
    <3> QED
      BY <1>1, <2>1, <3>3
  <2> QED
    BY <1>12, <2>1, <2>2 DEF Orders
<1> QED
  BY <1>2, <1>10, <1>11, <1>12 DEF F, m, N

(* No n of a set cost less than its n cheapest. *)
LEMMA FirstIsLeast ==
  ASSUME NEW S, IsFiniteSet(S), NEW B, Orders(B, S), NEW n \in Nat,
         NEW f, \A x \in S : f[x] \in Nat,
         \A x, y \in S : <<x, y>> \in B => f[x] <= f[y],
         NEW T \in SUBSET S, n <= Cardinality(T)
  PROVE  SumOver(First(S, B, n), f) <= SumOver(T, f)
<1> DEFINE F == First(S, B, n)
           I == F \cap T
<1>1. IsFiniteSet(T) /\ Cardinality(T) <= Cardinality(S) /\ Cardinality(T) \in Nat /\ Cardinality(S) \in Nat
  BY FS_Subset, FS_CardinalityType
<1>2. /\ F \in SUBSET S /\ IsFiniteSet(F) /\ Cardinality(F) = n
      /\ \A x \in F, y \in S \ F : <<x, y>> \in B
  BY <1>1, FirstIs
<1> HIDE DEF F
<1>3. /\ IsFiniteSet(F \ I) /\ IsFiniteSet(T \ I) /\ IsFiniteSet(I)
      /\ Cardinality(F \ I) <= Cardinality(T \ I)
  <2>1. IsFiniteSet(F \ I) /\ IsFiniteSet(T \ I) /\ IsFiniteSet(I)
    BY <1>1, <1>2, FS_Subset
  <2>2. (F \ I) \cup I = F /\ (F \ I) \cap I = {} /\ (T \ I) \cup I = T /\ (T \ I) \cap I = {}
    OBVIOUS
  <2>3. /\ Cardinality(F) = Cardinality(F \ I) + Cardinality(I) - Cardinality((F \ I) \cap I)
        /\ Cardinality(T) = Cardinality(T \ I) + Cardinality(I) - Cardinality((T \ I) \cap I)
    BY <2>1, <2>2, FS_Union
  <2>4. /\ Cardinality((F \ I) \cap I) = 0 /\ Cardinality((T \ I) \cap I) = 0
        /\ Cardinality(F \ I) \in Nat /\ Cardinality(I) \in Nat /\ Cardinality(T \ I) \in Nat
    BY <2>1, <2>2, FS_EmptySet, FS_CardinalityType
  <2> QED
    BY <1>1, <1>2, <2>1, <2>3, <2>4
<1>4. (\A x \in (F \ I) \cup (T \ I) : f[x] \in Nat) /\ \A x \in F \ I, y \in T \ I : f[x] <= f[y]
  BY <1>2
<1>5. SumOver(F \ I, f) <= SumOver(T \ I, f)
  BY <1>3, <1>4, SumsApart
<1>6. /\ SumOver(F, f) = SumOver(I, f) + SumOver(F \ I, f)
      /\ SumOver(I, f) \in Nat /\ SumOver(F \ I, f) \in Nat
  <2>1. (\A x \in F : f[x] \in Nat) /\ I \in SUBSET F
    BY <1>2
  <2> QED
    BY <1>2, <2>1, SumPart
<1>7. /\ SumOver(T, f) = SumOver(I, f) + SumOver(T \ I, f)
      /\ SumOver(T \ I, f) \in Nat
  <2>1. (\A x \in T : f[x] \in Nat) /\ I \in SUBSET T
    OBVIOUS
  <2> QED
    BY <1>1, <2>1, SumPart
<1> QED
  BY <1>5, <1>6, <1>7 DEF F
=============================================================================
