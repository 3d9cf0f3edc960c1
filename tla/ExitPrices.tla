----------------------------- MODULE ExitPrices -----------------------------
(***************************************************************************)
(* What an output is conservatively worth in cash (valuation/              *)
(* exit_prices.py, valuation/capital.py): the best rung of evidence, read  *)
(* at its low end, held down to the standing asks, less every cost of the  *)
(* way out.  Evidence is a sequence of observations                        *)
(*   [of, source, venue, gross, cash, age, evidence];                      *)
(* venues are numbered in the order of their names, and cash says that the *)
(* price is in the base currency and withdrawable.                         *)
(***************************************************************************)
EXTENDS Fees

CONSTANTS Haircut,      \* source -> ratio taken off the gross price
          DaysToSale,   \* source -> days
          Confidence,   \* source -> 1 (low), 2 or 3 (high)
          Weight,       \* confidence -> ratio, from 0 (none) up
          Quantile,     \* the quantile read, a ratio
          FullEvidence, \* data points for a rung's full confidence
          MaxAge,       \* of an observation
          CarryRate,    \* annual cost of capital, a ratio
          FactorGrid    \* steps per unit to which a carry factor is rounded

(* Best evidence first; "unvaluable" is no evidence. *)
Sources == <<"bid", "float_sale", "sale", "ask", "reference", "fallback">>
Rank(source) == CHOOSE n \in DOMAIN Sources : Sources[n] = source

ASSUME ExitAssumption ==
  /\ \A n \in DOMAIN Sources :
       /\ Haircut[Sources[n]] \in Int \X (Nat \ {0})
       /\ DaysToSale[Sources[n]] \in Nat /\ Confidence[Sources[n]] \in 1..3
  /\ \A c \in 0..3 : Weight[c] \in Fraction /\ Weight[c][1] <= Weight[c][2]
  /\ Quantile \in Fraction /\ Quantile[1] <= Quantile[2]
  /\ CarryRate \in Fraction /\ FactorGrid \in Nat \ {0}

(* A price is never negative (domain/valuation.py). *)
IsObservation(o) ==
  /\ o.source = "unvaluable" \/ \E n \in DOMAIN Sources : Sources[n] = o.source
  /\ o.gross \in Nat /\ o.venue \in Nat /\ o.evidence \in Nat

(* Mutant: time in days is charged as if the grid rounded it off. *)
CarryCostRoundedDown(principal, days) ==
  ScaledDown(principal, <<RoundDown(CarryRate[1] * days * FactorGrid, CarryRate[2] * 365), FactorGrid>>)

CarryCost(principal, days) ==
  ScaledUp(principal, <<RoundUp(CarryRate[1] * days * FactorGrid, CarryRate[2] * 365), FactorGrid>>)

(* On topic, in realisable cash and fresh. *)
Usable(obs, item) ==
  {i \in DOMAIN obs : /\ obs[i].of = item /\ obs[i].source # "unvaluable"
                      /\ obs[i].cash /\ obs[i].age <= MaxAge}

AtRung(obs, I, source) == {i \in I : obs[i].source = source}

BestRung(obs, I) == Sources[Min({Rank(obs[i].source) : i \in I})]

(* The price a fixed fraction into the sorted evidence, rounded down. *)
QuantilePrice(obs, I) ==
  LET index == RoundDown(Quantile[1] * (Cardinality(I) - 1), Quantile[2])
      below(p) == {i \in I : obs[i].gross < p}
      upTo(p) == {i \in I : obs[i].gross <= p}
  IN CHOOSE p \in {obs[i].gross : i \in I} :
       Cardinality(below(p)) <= index /\ index < Cardinality(upTo(p))

(* The lowest ask, at the first venue by name that asks it. *)
LowestAsks(obs, I) ==
  LET asks == AtRung(obs, I, "ask")
      price == Min({obs[i].gross : i \in asks})
      venue == Min({obs[i].venue : i \in {i \in asks : obs[i].gross = price}})
  IN {i \in asks : obs[i].gross = price /\ obs[i].venue = venue}

(* Mutant: the standing asks hold nothing down. *)
ChosenUncapped(obs, I) == AtRung(obs, I, BestRung(obs, I))

(* The observations a valuation stands on: the best rung's, or the lowest  *)
(* ask's when that is lower than what sales say.  A live bid is real.      *)
Chosen(obs, I) ==
  LET rung == BestRung(obs, I)
      best == AtRung(obs, I, rung)
      asks == AtRung(obs, I, "ask")
  IN IF /\ rung # "bid" /\ asks # {}
        /\ Min({obs[i].gross : i \in asks}) < QuantilePrice(obs, best)
     THEN LowestAsks(obs, I) ELSE best

(* The venue with the most evidence, the first by name among equals. *)
ExitVenue(obs, J) ==
  LET count(v) == Cardinality({i \in J : obs[i].venue = v})
      venues == {obs[i].venue : i \in J}
  IN Min({v \in venues : \A w \in venues : count(w) <= count(v)})

EvidenceCount(obs, J) == SumOver(J, [i \in J |-> Max({obs[i].evidence, 1})])

(* Thin evidence drops a rung, never below low. *)
ConfidenceOf(source, evidence) ==
  IF evidence >= FullEvidence THEN Confidence[source] ELSE Max({Confidence[source] - 1, 1})

Unvaluable == [source |-> "unvaluable", venue |-> 0, gross |-> 0, costs |-> 0, net |-> 0,
               confidence |-> 0, days |-> 0]

(* Both fees of the way out must be known; a valuation assumes neither.    *)
ExitFeesKnown(obs, item, schedule, moment) ==
  LET I == Usable(obs, item)
      J == Chosen(obs, I)
      gross == QuantilePrice(obs, J)
      venue == ExitVenue(obs, J)
  IN I # {} => /\ FeeKnown(schedule, venue, "sale", gross, moment)
               /\ FeeKnown(schedule, venue, "withdrawal",
                           gross - Fee(schedule, venue, "sale", gross, moment), moment)

(* Mutant: an output nobody would pay for is carried as a negative asset.  *)
NetUnclamped(gross, costs) == gross - costs

(* Costs above the price make an output worth nothing, not less. *)
Net(gross, costs) == Max({gross - costs, 0})

Valuation(obs, item, schedule, moment) ==
  LET I == Usable(obs, item)
      J == Chosen(obs, I)
      source == obs[CHOOSE i \in J : TRUE].source
      gross == QuantilePrice(obs, J)
      venue == ExitVenue(obs, J)
      sale == Fee(schedule, venue, "sale", gross, moment)
      withdrawal == Fee(schedule, venue, "withdrawal", gross - sale, moment)
      costs == sale + withdrawal + ScaledUp(gross, Haircut[source])
                    + CarryCost(gross, DaysToSale[source])
  IN IF I = {} THEN Unvaluable
     ELSE [source |-> source, venue |-> venue, gross |-> gross, costs |-> costs,
           net |-> Net(gross, costs), days |-> DaysToSale[source],
           confidence |-> ConfidenceOf(source, EvidenceCount(obs, J))]

(* Net proceeds discounted by how good the evidence is. *)
LowerBound(valuation) == ScaledDown(valuation.net, Weight[valuation.confidence])
=============================================================================
