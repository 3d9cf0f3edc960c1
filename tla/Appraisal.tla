----------------------------- MODULE Appraisal -----------------------------
(***************************************************************************)
(* One lead after the other is appraised: its outputs are valued, the      *)
(* settlement rail priced, the economics computed, the gates applied on    *)
(* both sides of the requery (pipeline/scan.py), and the spend at which it *)
(* would clear the floor is searched (pipeline/confirm_batch.py).          *)
(***************************************************************************)
EXTENDS RiskPolicy, Settlement, EntryTarget, StickerPrices

CONSTANTS Candidate,   \* the candidates the leads bring up
          Schedule,    \* the fee schedules in force
          Quote, Capital, \* conversion quotes and capital blocks
          Said,        \* what a venue can say of a listing, per listing id
          Caps,        \* caps for which a sticker is asked
          MaxAppraised \* bound on the leads of a batch

ASSUME AppraisalAssumption ==
  /\ \A c \in Candidate : IsCandidate(c)
  /\ \A s \in Schedule : IsSchedule(s)
  /\ Capital \subseteq Int /\ Caps \subseteq Int /\ \A q \in Quote : IsQuote(q)
  /\ Limits.finalRoi \in Int \X (Nat \ {0})
  /\ Limits.finalRoi[1] + Limits.finalRoi[2] > 0
  /\ Limits.worstCase \in Int /\ Limits.orphan \in Int

VARIABLES stage,      \* of the appraisal under way
          deal,       \* what it has computed so far
          appraised,  \* the appraisals concluded
          asked       \* what the operator asked besides
appraisalVars == <<stage, deal, appraised, asked, search>>

NoQuestion == [what |-> "nothing"]

AppraisalInit ==
  /\ stage = "idle" /\ deal = << >> /\ appraised = << >> /\ asked = NoQuestion
  /\ SearchInit

(* The deal with what a stage has computed. *)
Noted(computed) ==
  [x \in DOMAIN deal \cup DOMAIN computed |-> IF x \in DOMAIN computed THEN computed[x] ELSE deal[x]]

Answered(id, said) ==
  [x \in DOMAIN deal.answers \cup {id} |-> IF x = id THEN said ELSE deal.answers[x]]

Ids(candidate) == {candidate.inputs[i].id : i \in DOMAIN candidate.inputs}

-----------------------------------------------------------------------------
Start ==
  /\ stage = "idle" /\ Len(appraised) < MaxAppraised
  /\ \E c \in Candidate, s \in Schedule :
       deal' = [candidate |-> c, schedule |-> s, rate |-> <<0, 1>>, rail |-> {}, answers |-> << >>]
  /\ stage' = "rail" /\ asked' = NoQuestion
  /\ UNCHANGED <<appraised, search>>

(* Most runs settle in fiat and plan nothing. *)
NoRail == /\ stage = "rail" /\ stage' = "value"
          /\ UNCHANGED <<deal, appraised, asked, search>>

(* A rail that would gain is refused like one that cannot be priced. *)
PlanRail ==
  /\ stage = "rail"
  /\ \E capital \in Capital, quote \in Quote :
       LET s == deal.schedule
       IN IF Plannable(s, capital, quote) /\ Drag(s, capital, quote) >= 0
          THEN /\ deal' = [deal EXCEPT !.rate = ChargeRate(s, capital, quote),
                                       !.rail = {<<capital, Drag(s, capital, quote)>>}]
               /\ stage' = "value"
          ELSE stage' = "refused" /\ UNCHANGED deal
  /\ UNCHANGED <<appraised, asked, search>>

(* What the outputs of a candidate are worth under a fee schedule. *)
ExitsKnown(c, s) == \A o \in DOMAIN c.outcomes : ExitFeesKnown(c.obs, c.outcomes[o].item, s, 0)
ValuesOf(c, s) == [o \in DOMAIN c.outcomes |-> Valuation(c.obs, c.outcomes[o].item, s, 0)]

(* _build_candidate: an unknown exit fee drops the candidate. *)
Value ==
  /\ stage = "value"
  /\ IF ExitsKnown(deal.candidate, deal.schedule)
     THEN /\ deal' = Noted([values |-> ValuesOf(deal.candidate, deal.schedule)])
          /\ stage' = "screen"
     ELSE stage' = "refused" /\ UNCHANGED deal
  /\ UNCHANGED <<appraised, asked, search>>

(* A candidate rejected here is appraised for its entry target all the same. *)
Screen ==
  /\ stage = "screen"
  /\ LET e == Evaluate(deal.candidate, deal.values, deal.rate)
         reasons == DiscoveryReasons(deal.candidate, e)
     IN /\ deal' = Noted([evaluation |-> e, stage |-> "discovery", reasons |-> reasons])
        /\ stage' = IF reasons = {} THEN "reserve" ELSE "assess"
  /\ UNCHANGED <<appraised, asked, search>>

(* All of the bundle or, when any of it is held, none. *)
Reserve ==
  /\ stage = "reserve" /\ stage' = "requery"
  /\ \E reserved \in {{}, Ids(deal.candidate)} : deal' = Noted([reserved |-> reserved, next |-> 1])
  /\ UNCHANGED <<appraised, asked, search>>

(* One listing is asked for at its venue; a failed query leaves no answer. *)
Requery ==
  /\ stage = "requery" /\ deal.next <= Len(deal.candidate.inputs)
  /\ LET id == deal.candidate.inputs[deal.next].id
     IN \E answers \in {deal.answers} \cup {Answered(id, said) : said \in Said[id]} :
          deal' = [deal EXCEPT !.answers = answers, !.next = @ + 1]
  /\ UNCHANGED <<stage, appraised, asked, search>>

Gate ==
  /\ stage = "requery" /\ deal.next > Len(deal.candidate.inputs)
  /\ deal' = [deal EXCEPT !.stage = "operator_card",
                !.reasons = CardReasons(deal.candidate, deal.evaluation, deal.answers, deal.reserved)]
  /\ stage' = "assess"
  /\ UNCHANGED <<appraised, asked, search>>

(* Mutant: the partial-fill reserve is not among the overheads. *)
HeadroomBeforeReserve(e) == e.expected - e.overhead + e.reserve

(* What the outputs are expected to bring, less all that is charged besides the spend. *)
Headroom(e) == e.expected - e.overhead

(* assess_entry: what was charged besides the spend stays as evaluated; a  *)
(* candidate that costs nothing is not assessed. *)
Assess ==
  /\ stage = "assess"
  /\ IF deal.evaluation.acquisition >= 1
     THEN /\ Begin(Headroom(deal.evaluation),
                   <<Limits.finalRoi[1] + Limits.finalRoi[2], Limits.finalRoi[2]>>, <<0, 1>>)
          /\ stage' = "search"
     ELSE stage' = "refused" /\ UNCHANGED search
  /\ UNCHANGED <<deal, appraised, asked>>

Search == /\ stage \in {"search", "asked"} /\ (Narrow \/ Return)
          /\ UNCHANGED <<stage, deal, appraised, asked>>

EntryMet == deal.evaluation.acquisition <= search.low

Conclude ==
  /\ stage = "search" /\ Taken
  /\ appraised' = Append(appraised,
       [lead |-> deal.candidate.lead, cap |-> search.low, inputs |-> Len(deal.candidate.inputs)])
  /\ stage' = "idle" /\ deal' = << >>
  /\ UNCHANGED asked

(* The outcome of a lead nothing was computed for has no assessment. *)
Refuse ==
  /\ stage = "refused"
  /\ appraised' = Append(appraised, [lead |-> deal.candidate.lead, cap |-> 0, inputs |-> 0])
  /\ stage' = "idle" /\ deal' = << >>
  /\ UNCHANGED <<asked, search>>

(* The operator asks what sticker a cap buys; unknown fees are an error. *)
AskSticker ==
  /\ stage = "idle" /\ appraised = << >> /\ asked = NoQuestion
  /\ \E cap \in Caps, s \in Schedule :
       LET rules == Candidates(s, Venue, "purchase", 0)
       IN /\ StickerKnown(rules, cap)
          /\ asked' = [what |-> "sticker", cap |-> cap, rules |-> rules, price |-> MaxStickerPrice(rules, cap)]
  /\ UNCHANGED <<stage, deal, appraised, search>>

(* The cap as the library offers it, with an overhead that follows the spend. *)
AskCap ==
  /\ stage = "idle" /\ appraised = << >> /\ asked = NoQuestion
  /\ \E h \in Headrooms, t \in Targets, r \in Rates : Begin(h, t, r)
  /\ stage' = "asked" /\ asked' = [what |-> "cap"]
  /\ UNCHANGED <<deal, appraised>>

TakeCap == /\ stage = "asked" /\ Taken
           /\ stage' = "idle"
           /\ UNCHANGED <<deal, appraised, asked>>

Deliberate == \/ NoRail \/ PlanRail \/ Value \/ Screen \/ Reserve \/ Requery \/ Gate
              \/ Assess \/ Search \/ Refuse \/ AskSticker \/ AskCap \/ TakeCap

-----------------------------------------------------------------------------
Valued == stage \in {"screen", "reserve", "requery", "assess", "search"}
Evaluated == Valued /\ stage # "screen"

AppraisalTypeOK ==
  /\ stage \in {"idle", "rail", "value", "screen", "reserve", "requery", "assess", "search", "refused", "asked"}
  /\ SearchTypeOK
  /\ \A i \in DOMAIN appraised : appraised[i].cap \in Nat /\ appraised[i].inputs \in Nat
  /\ Valued => \A o \in DOMAIN deal.values : deal.values[o].net \in Nat /\ deal.values[o].gross \in Nat
  /\ Evaluated => deal.evaluation.reserve \in Nat /\ deal.evaluation.overhead \in Nat

(* No exit is counted on above an offer that stands in the market, unless  *)
(* somebody bids for it (valuation/exit_prices.py:200-208).                *)
ExitWithinAsks ==
  Valued => \A o \in DOMAIN deal.values :
    deal.values[o].source # "bid" =>
      \A i \in Usable(deal.candidate.obs, deal.candidate.outcomes[o].item) :
        deal.candidate.obs[i].source = "ask" => deal.values[o].gross <= deal.candidate.obs[i].gross

(* Over many contracts the expectation promises no more than the outcomes  *)
(* pay, and the cautious reading no more than the plain one                *)
(* (valuation/expected_value.py:5-13).                                     *)
NeverOverstated ==
  Evaluated =>
    /\ deal.evaluation.expected * Shares(deal.candidate)
         <= WeightedSum(deal.candidate, [o \in DOMAIN deal.values |-> deal.values[o].net])
    /\ deal.evaluation.lowerBound <= deal.evaluation.ev

(* The exact expectation of what an order of purchases leaves orphaned.    *)
ExactLoss(order) ==
  SumOver(DOMAIN order, [k \in DOMAIN order |->
    LossAt(order, k) * FailsAt(order, k)[1] * Power(SurvivalGrid, Len(order) - k)])

(* The reserve charged covers the expected loss of an incomplete bundle,   *)
(* and no single failure loses more than the exposure the gate compares    *)
(* with its limit (valuation/partial_fill.py).                             *)
ReserveCoversOrphans ==
  Evaluated =>
    LET order == PurchaseSequence(deal.candidate.inputs)
    IN /\ ExactLoss(order) <= deal.evaluation.reserve * Power(SurvivalGrid, Len(order))
       /\ deal.evaluation.reserve <= deal.evaluation.orphan + Len(order)

(* Among purchases of one price the card's order, riskiest first, risks    *)
(* the least in expectation (valuation/partial_fill.py:139-145).           *)
RiskiestFirstIsCheapest ==
  Evaluated =>
    LET inputs == deal.candidate.inputs
    IN (\A i, j \in DOMAIN inputs : inputs[i].cost = inputs[j].cost)
         => \A order \in Arrangements(inputs) :
              ExactLoss(PurchaseSequence(inputs)) <= ExactLoss(order)

(* What an operator card lets a person rely on: wherever the purchases     *)
(* break off and whichever outcome comes, the loss is within its limit,    *)
(* and no venue denied or contradicted a listing of the bundle.            *)
CardIsSound ==
  (Evaluated /\ deal.stage = "operator_card" /\ deal.reasons = {}) =>
    LET inputs == deal.candidate.inputs
        order == PurchaseSequence(inputs)
        spent == deal.evaluation.acquisition + deal.evaluation.overhead
    IN /\ \A k \in DOMAIN order : LossAt(order, k) <= Limits.orphan
       /\ \A o \in DOMAIN deal.values : spent - deal.values[o].net <= Limits.worstCase
       /\ \A i \in DOMAIN inputs :
            /\ inputs[i].id \in DOMAIN deal.answers
            /\ deal.answers[inputs[i].id].present
            /\ deal.answers[inputs[i].id].price \subseteq {inputs[i].price}
            /\ deal.answers[inputs[i].id].asset \subseteq {inputs[i].asset}

(* Unless the way back costs more than the capital itself, the rail's loss *)
(* is at least the fees it is made of, whatever the rate does to the       *)
(* roundings; and the contracts that one round trip is to support pay it   *)
(* back together (valuation/settlement.py).                                *)
RailPaysItself ==
  deal # << >> => \A block \in deal.rail :
    LET capital == block[1]
        drag == block[2]
        fee(operation) == OnRail(deal.schedule, operation, capital)
    IN /\ fee("withdrawal") + fee("conversion") <= capital
            => fee("deposit") + fee("withdrawal") + 2 * fee("conversion") <= drag
       /\ drag <= Contracts * ScaledUp(capital, deal.rate)

(* The search for the entry target and the evaluation agree to the unit:   *)
(* a bundle is at its target exactly when its own return meets the floor   *)
(* (valuation/entry_targets.py:316-339 against expected_value.py).         *)
EntryAgreesWithReturn ==
  (stage = "search" /\ search.pc = "done") =>
    (EntryMet <=> AtLeast(Roi(deal.evaluation), Limits.finalRoi))

(* Overheads held as evaluated err low for a cheaper bundle                *)
(* (valuation/entry_targets.py:306-311): every cheaper spend within the    *)
(* cap clears the floor with the overheads it would really be charged.     *)
CheaperBundlesClear ==
  (stage = "search" /\ search.pc = "done") =>
    LET e == deal.evaluation
    IN \A spend \in 1..Min({search.low, e.acquisition}) :
         AtLeast(<<e.expected - spend - OverheadAt(spend, deal.rate, e.days, e.reserve), spend>>,
                 Limits.finalRoi)

(* The sticker answered is the greatest with exactly one rule whose cost   *)
(* with fees is within the cap (valuation/entry_targets.py:194-197).       *)
StickerIsExact ==
  asked.what = "sticker" =>
    asked.price = Max({0} \cup {s \in 1..asked.cap :
                    /\ Cardinality(Covering(asked.rules, s)) = 1
                    /\ Loaded(Covering(asked.rules, s), s) <= asked.cap})

(* Whatever the rounding, no estimate errs in the buyer's favour: exits    *)
(* are within the asks, the expectation is not above its terms, the        *)
(* reserve covers orphans in the cheapest order, and the rail pays itself. *)
NothingOverstated ==
  /\ ExitWithinAsks /\ NeverOverstated
  /\ ReserveCoversOrphans /\ RiskiestFirstIsCheapest
  /\ RailPaysItself

(* What the searches for a price answer agrees with the evaluation they    *)
(* stand for, at their answer and below it.                                *)
TargetsAreSafe == EntryAgreesWithReturn /\ CheaperBundlesClear /\ StickerIsExact
=============================================================================
