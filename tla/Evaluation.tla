----------------------------- MODULE Evaluation -----------------------------
(***************************************************************************)
(* The economics of a candidate (valuation/expected_value.py): every       *)
(* charge rounded up, every expectation summed exactly and rounded down    *)
(* once.  A candidate is                                                   *)
(*   [inputs, outcomes, ...], its outcomes a sequence of [item, share],    *)
(* where a share is a probability over the sum of the shares; values gives *)
(* each outcome its valuation.                                             *)
(***************************************************************************)
EXTENDS ExitPrices, PartialFill

CONSTANTS OperationalCost,  \* per contract
          FixedDays         \* transfer, execution and settlement

ASSUME EvaluationAssumption == OperationalCost \in Nat /\ FixedDays \in Nat

IsCandidate(candidate) ==
  /\ IsBundle(candidate.inputs)
  /\ IsFiniteSet(DOMAIN candidate.outcomes) /\ DOMAIN candidate.outcomes # {}
  /\ \A o \in DOMAIN candidate.outcomes : candidate.outcomes[o].share \in Nat \ {0}
  /\ IsFiniteSet(DOMAIN candidate.obs)
  /\ \A i \in DOMAIN candidate.obs : IsObservation(candidate.obs[i])

Shares(candidate) ==
  SumOver(DOMAIN candidate.outcomes, [o \in DOMAIN candidate.outcomes |-> candidate.outcomes[o].share])

(* The numerator of an expectation over the shares. *)
WeightedSum(candidate, amounts) ==
  SumOver(DOMAIN amounts, [o \in DOMAIN amounts |-> candidate.outcomes[o].share * amounts[o]])

(* Mutant: every term is rounded, the exact half upwards. *)
ExpectationPerTerm(candidate, amounts) ==
  SumOver(DOMAIN amounts, [o \in DOMAIN amounts |->
    RoundDown(2 * candidate.outcomes[o].share * amounts[o] + Shares(candidate), 2 * Shares(candidate))])

Expectation(candidate, amounts) == RoundDown(WeightedSum(candidate, amounts), Shares(candidate))

Acquisition(candidate) ==
  SumOver(DOMAIN candidate.inputs, [i \in DOMAIN candidate.inputs |-> candidate.inputs[i].cost])

MaxOfInputs(amounts) == Max({amounts[i] : i \in DOMAIN amounts})

(* The longest lock, the way to the venue and back, the expected sale. *)
TotalDays(candidate, values) ==
  MaxOfInputs([i \in DOMAIN candidate.inputs |-> candidate.inputs[i].lock]) + FixedDays
    + RoundUp(WeightedSum(candidate, [o \in DOMAIN values |-> values[o].days]), Shares(candidate))

Valuable(values) == {o \in DOMAIN values : values[o].source # "unvaluable"}

(* The weakest confidence among the outcomes that have a value. *)
ConfidenceFloor(values) ==
  IF Valuable(values) = {} THEN 0 ELSE Min({values[o].confidence : o \in Valuable(values)})

(* What a contract that spends this much is charged besides; only the      *)
(* settlement share and the carry follow the spend. *)
OverheadAt(spend, rate, days, reserve) ==
  OperationalCost + ScaledUp(spend, rate) + CarryCost(spend, days) + reserve

(* rate is the settlement rail's charge on the acquisition cost. *)
Evaluate(candidate, values, rate) ==
  LET fill == Assessment(candidate.inputs)
      spend == Acquisition(candidate)
      days == TotalDays(candidate, values)
      overhead == OverheadAt(spend, rate, days, fill.loss)
      nets == [o \in DOMAIN values |-> values[o].net]
      expected == Expectation(candidate, nets)
      cautious == Expectation(candidate, [o \in DOMAIN values |-> LowerBound(values[o])])
      missing == (DOMAIN values) \ Valuable(values)
  IN [acquisition |-> spend, overhead |-> overhead, reserve |-> fill.loss, days |-> days,
      expected |-> expected, ev |-> expected - spend - overhead,
      lowerBound |-> cautious - spend - overhead,
      worst |-> Min({nets[o] : o \in DOMAIN nets}) - spend - overhead,
      orphan |-> fill.exposure, age |-> MaxOfInputs([i \in DOMAIN candidate.inputs |-> candidate.inputs[i].age]),
      unvaluable |-> <<SumOver(missing, [o \in missing |-> candidate.outcomes[o].share]), Shares(candidate)>>,
      confidence |-> ConfidenceFloor(values)]

(* On the capital really committed; nothing spent is no return. *)
Roi(evaluation) ==
  IF evaluation.acquisition = 0 THEN <<0, 1>> ELSE <<evaluation.ev, evaluation.acquisition>>
=============================================================================
