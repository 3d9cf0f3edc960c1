---------------------------- MODULE PartialFill ----------------------------
(***************************************************************************)
(* The chance that a bundle can be assembled and what failing half-way     *)
(* costs (valuation/partial_fill.py).  An input is                         *)
(*   [id, cost, age, reliability],                                   *)
(* its age given in half-lives of the survival prior and its seller's      *)
(* reliability as a set of at most one ratio.  Probabilities are           *)
(* quantised to SurvivalGrid steps.                                        *)
(***************************************************************************)
EXTENDS Money

CONSTANTS SurvivalGrid,  \* steps per unit of a probability
          BaseSurvival, FloorSurvival,  \* in such steps
          SalvageRate    \* what an orphaned input still brings, a ratio

ASSUME PartialFillAssumption ==
  /\ SurvivalGrid \in Nat \ {0} /\ BaseSurvival \in 0..SurvivalGrid
  /\ FloorSurvival \in 0..BaseSurvival
  /\ SalvageRate \in Fraction /\ SalvageRate[1] <= SalvageRate[2]

(* A listing is one of a kind and has its cost, age and lock in whole units. *)
IsInput(input) ==
  /\ input.id \in Nat /\ input.cost \in Nat /\ input.age \in Nat /\ input.lock \in Nat
  /\ \A r \in input.reliability : r \in Fraction /\ r[1] <= r[2]

IsBundle(inputs) ==
  /\ Len(inputs) \in Nat \ {0} /\ DOMAIN inputs = 1..Len(inputs)
  /\ \A i \in DOMAIN inputs : IsInput(inputs[i])
  /\ \A i, j \in DOMAIN inputs : inputs[i].id = inputs[j].id => i = j

Power(b, n) ==
  LET power[k \in 0..n] == IF k = 0 THEN 1 ELSE b * power[k - 1] IN power[n]

(* Decay from the base towards the floor, scaled by reliability. *)
Survival(input) ==
  LET decay == Power(2, input.age)
      aged == FloorSurvival * decay + (BaseSurvival - FloorSurvival)
      relied(r) == RoundHalfEven(aged * r[1], decay * r[2])
  IN CHOOSE s \in {relied(r) : r \in IF input.reliability = {} THEN {<<1, 1>>} ELSE input.reliability} : TRUE

(* The orders in which the inputs can be bought. *)
Arrangements(inputs) ==
  {[k \in DOMAIN inputs |-> inputs[f[k]]] :
     f \in {g \in [DOMAIN inputs -> DOMAIN inputs] : \A i, j \in DOMAIN inputs : g[i] = g[j] => i = j}}

(* The likelier to be gone; identities break ties. *)
Riskier(a, b) == Survival(a) < Survival(b) \/ (Survival(a) = Survival(b) /\ a.id < b.id)

(* Mutant: the safest purchase comes first. *)
SafestFirst(inputs) ==
  CHOOSE order \in Arrangements(inputs) :
    \A i, j \in DOMAIN order : i < j => Riskier(order[j], order[i])

(* The riskiest purchase comes first. *)
PurchaseSequence(inputs) ==
  CHOOSE order \in Arrangements(inputs) :
    \A i, j \in DOMAIN order : i < j => Riskier(order[i], order[j])

Before(k) == 1..(k - 1)

(* What is spent when the k-th purchase is tried. *)
Committed(order, k) == SumOver(Before(k), [j \in Before(k) |-> order[j].cost])

(* Mutant: the purchase that failed is counted as bought. *)
LossIncludingFailed(order, k) ==
  LET spent == Committed(order, k) + order[k].cost IN spent - ScaledDown(spent, SalvageRate)

(* What stays lost when the k-th purchase fails. *)
LossAt(order, k) == Committed(order, k) - ScaledDown(Committed(order, k), SalvageRate)

(* The chance of getting as far as the k-th purchase. *)
Reached(order, k) ==
  LET reach[j \in 0..(k - 1)] == IF j = 0 THEN 1 ELSE reach[j - 1] * Survival(order[j])
  IN <<reach[k - 1], Power(SurvivalGrid, k - 1)>>

FailsAt(order, k) ==
  <<Reached(order, k)[1] * (SurvivalGrid - Survival(order[k])), Power(SurvivalGrid, k)>>

(* Mutant: each part of the expectation is rounded down. *)
ExpectedLossRoundedDown(order) ==
  SumOver(DOMAIN order, [k \in DOMAIN order |-> ScaledDown(LossAt(order, k), FailsAt(order, k))])

(* Every possible orphaning, charged at its probability and rounded up. *)
ExpectedLoss(order) ==
  SumOver(DOMAIN order, [k \in DOMAIN order |-> ScaledUp(LossAt(order, k), FailsAt(order, k))])

MaxExposure(order) == Max({LossAt(order, k) : k \in DOMAIN order})

Completion(order) == Reached(order, Len(order) + 1)

Assessment(inputs) ==
  LET order == PurchaseSequence(inputs)
  IN [order |-> order, loss |-> ExpectedLoss(order), exposure |-> MaxExposure(order),
      completion |-> Completion(order)]
=============================================================================
