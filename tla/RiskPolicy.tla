----------------------------- MODULE RiskPolicy -----------------------------
(***************************************************************************)
(* The two gates (execution/policy.py).  Each collects every reason for    *)
(* which it refuses.  What the venues answered about the listings is a     *)
(* function from listing ids to                                            *)
(*   [present, price, float, asset],                                       *)
(* where what a venue left unsaid is an empty set.                         *)
(***************************************************************************)
EXTENDS Evaluation

CONSTANT Limits  \* the settings both gates read

Refusals(checks) == {reason \in DOMAIN checks : checks[reason]}

(* Looser in what it looks at, not in the return it asks for. *)
DiscoveryReasons(candidate, evaluation) ==
  Refusals(
    [BELOW_DISCOVERY_ROI |-> ~AtLeast(Roi(evaluation), Limits.discoveryRoi),
     CONTRACT_COST_EXCEEDED |-> evaluation.acquisition > Limits.contractCost,
     QUOTE_TOO_OLD |-> candidate.expired \/ evaluation.age > Limits.quoteAge])

(* Mutant: a listing nobody answered about is passed over. *)
ListingReasonsIfAnswered(input, answers) ==
  LET asked == input.id \in DOMAIN answers
  IN Refusals([LISTING_DISAPPEARED |-> asked /\ ~answers[input.id].present,
               LISTING_PRICE_CHANGED |-> asked /\ answers[input.id].present
                                           /\ \E p \in answers[input.id].price : p # input.price])

(* What a venue does not report counts as unchanged. *)
ListingReasons(input, answers) ==
  LET asked == input.id \in DOMAIN answers
      found == asked /\ answers[input.id].present
  IN Refusals(
       [INCOMPLETE_BUNDLE |-> ~asked,
        LISTING_DISAPPEARED |-> asked /\ ~found,
        LISTING_PRICE_CHANGED |-> found /\ \E p \in answers[input.id].price : p # input.price,
        LISTING_FLOAT_MISMATCH |-> found /\ \E f \in answers[input.id].float : f # input.float,
        LISTING_IDENTITY_MISMATCH |-> found /\ \E a \in answers[input.id].asset : a # input.asset,
        LISTING_NOT_PURCHASABLE |-> found /\ ~input.usable])

(* Mutant: the limit is on the loss of the average outcome. *)
EconomicReasonsOnAverage(evaluation) ==
  Refusals(
    [BELOW_DISCOVERY_ROI |-> ~AtLeast(Roi(evaluation), Limits.discoveryRoi),
     WORST_CASE_LOSS_EXCEEDED |-> Magnitude(evaluation.lowerBound) > Limits.worstCase,
     PARTIAL_FILL_EXPOSURE_EXCEEDED |-> evaluation.reserve > Limits.orphan])

(* The worst case is held by its size, a sure profit's too. *)
EconomicReasons(evaluation) ==
  Refusals(
    [BELOW_DISCOVERY_ROI |-> ~AtLeast(Roi(evaluation), Limits.discoveryRoi),
     BELOW_FINAL_ROI |-> ~AtLeast(Roi(evaluation), Limits.finalRoi),
     BELOW_MIN_ABSOLUTE_PROFIT |-> evaluation.ev < Limits.profit,
     NEGATIVE_LOWER_BOUND_EV |-> evaluation.lowerBound <= 0,
     WORST_CASE_LOSS_EXCEEDED |-> Magnitude(evaluation.worst) > Limits.worstCase,
     CONTRACT_COST_EXCEEDED |-> evaluation.acquisition > Limits.contractCost,
     PARTIAL_FILL_EXPOSURE_EXCEEDED |-> evaluation.orphan > Limits.orphan,
     CAPITAL_DAYS_EXCEEDED |-> evaluation.days > Limits.capitalDays])

EvidenceReasons(candidate, evaluation) ==
  Refusals(
    [QUOTE_TOO_OLD |-> evaluation.age > Limits.quoteAge,
     UNVERIFIED_RULESET |-> ~candidate.approvable,
     UNVALUABLE_OUTPUT_MASS |-> ~AtLeast(Limits.unvaluable, evaluation.unvaluable),
     INSUFFICIENT_OUTPUT_LIQUIDITY |-> evaluation.confidence = 0])

AllocationReasons(candidate, reserved) ==
  Refusals(
    [DUPLICATE_ASSET_ALLOCATION |->
       \E i, j \in DOMAIN candidate.inputs : i # j /\ candidate.inputs[i].asset = candidate.inputs[j].asset,
     ASSET_ALREADY_RESERVED |->
       \E i \in DOMAIN candidate.inputs : candidate.inputs[i].id \notin reserved])

(* A balance or a day's spending that is not known limits less or nothing. *)
FundingReasons(evaluation, mode, balance, spent) ==
  Refusals(
    [INSUFFICIENT_BALANCE |-> \E b \in balance : b < evaluation.acquisition,
     DAILY_SPEND_LIMIT_EXCEEDED |-> evaluation.acquisition + SumOver(spent, [s \in spent |-> s]) > Limits.dailySpend,
     EXECUTION_MODE_NOT_PERMITTED |-> mode = "UNSUPPORTED",
     LIVE_EXECUTION_DISABLED |-> ~Limits.live /\ mode = "AUTOMATED"])

FinalReasons(candidate, evaluation, answers, reserved, mode, balance, spent) ==
  (UNION {ListingReasons(candidate.inputs[i], answers) : i \in DOMAIN candidate.inputs})
    \cup EvidenceReasons(candidate, evaluation) \cup EconomicReasons(evaluation)
    \cup AllocationReasons(candidate, reserved)
    \cup FundingReasons(evaluation, mode, balance, spent)

(* The gate a scan uses: a person spends, so two limits do not apply. *)
CardReasons(candidate, evaluation, answers, reserved) ==
  FinalReasons(candidate, evaluation, answers, reserved, "OPERATOR_APPROVAL_REQUIRED", {}, {})
    \ {"DAILY_SPEND_LIMIT_EXCEEDED", "LIVE_EXECUTION_DISABLED"}
=============================================================================
