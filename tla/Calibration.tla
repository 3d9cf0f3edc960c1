---------------------------- MODULE Calibration -----------------------------
(***************************************************************************)
(* The calibration loop: sweeps estimate under the haircut fitted to the   *)
(* recorded confirmations (discovery/calibration.py, confirm_batch.py),    *)
(* and an estimate above the floor is confirmed and recorded in its turn.  *)
(*                                                                         *)
(* One output item is listed at 100; fee and haircuts are then amounts too *)
(* and the fitted values are whole.  What listings and completed sales     *)
(* really return for it moves at will.                                     *)
(***************************************************************************)
EXTENDS Money, Bags

CONSTANTS Quality,      \* the quality tiers
          Exacts,       \* what an output can really return
          Default,      \* ProspectPolicy.ask_haircut
          Cost,         \* what the inputs cost; an estimate must reach it
          MinReliable,  \* MIN_RELIABLE_SAMPLES
          MaxRows       \* bound on the pairs remembered of a quality, for TLC

SaleFee == 8
MaxHaircut == 95

ASSUME CalibrationAssumption ==
  /\ Exacts \subseteq 0..100 /\ Default \in 0..99
  /\ MinReliable \in Nat \ {0} /\ MaxRows \in Nat \ {0}

VARIABLES market,   \* what each quality's output returns today
          rows,     \* the history of each quality, a bag of pairs
          shown     \* the qualities whose lead the last sweep put above the floor
loop == <<market, rows, shown>>

(* An estimate, its confirmation and the haircut the estimate ran under. *)
Pair == [estimate: 1..100, exact: Exacts, haircut: 0..99]

-----------------------------------------------------------------------------
(* Mutant: a market above the net of its ask fits a negative haircut. *)
ClampedAbove(h) == IF h > MaxHaircut THEN MaxHaircut ELSE h

Clamped(h) == IF h < 0 THEN 0 ELSE IF h > MaxHaircut THEN MaxHaircut ELSE h

(* Mutant: the estimate is taken to have run under the configured prior. *)
ImpliedByDefault(p) == Clamped(100 - SaleFee - (p.exact * (100 - SaleFee - Default)) \div p.estimate)

(* The haircut that would have made this estimate match its confirmation. *)
Implied(p) == Clamped(100 - SaleFee - (p.exact * (100 - SaleFee - p.haircut)) \div p.estimate)

(* How many of the pairs are in S. *)
CountIn(bag, S) == SumOver(S, bag)

Samples(bag) == CountIn(bag, DOMAIN bag)

(* The history with one more pair. *)
Recorded(bag, pair) ==
  [p \in DOMAIN bag \cup {pair} |-> (IF p \in DOMAIN bag THEN bag[p] ELSE 0) + (IF p = pair THEN 1 ELSE 0)]

(* The implied haircuts in order. *)
Ordered(bag) ==
  LET AtMost(h) == CountIn(bag, {p \in DOMAIN bag : Implied(p) <= h})
  IN [k \in 1..Samples(bag) |->
        Min({h \in {Implied(p) : p \in DOMAIN bag} : AtMost(h) >= k})]

(* Mutant: the smaller of the middle pair. *)
LowerMedian(bag) == Ordered(bag)[(Samples(bag) + 1) \div 2]

(* The middle value in order; of two, the larger. *)
ConservativeMedian(bag) ==
  LET middle == Samples(bag) \div 2
  IN IF Samples(bag) % 2 = 1 THEN Ordered(bag)[middle + 1]
     ELSE Max({Ordered(bag)[middle], Ordered(bag)[middle + 1]})

(* Mutant: one pair is enough. *)
ReliableAnecdote(bag) == Samples(bag) > 0

Reliable(bag) == Samples(bag) >= MinReliable

(* applied_haircuts: the fitted value, or the configured one. *)
Applied(q) == IF Reliable(rows[q]) THEN ConservativeMedian(rows[q]) ELSE Default

(* The sweep's net of an ask, never below zero. *)
Estimate(h) == IF 100 - SaleFee - h < 0 THEN 0 ELSE 100 - SaleFee - h

LoopInit == /\ market \in [Quality -> Exacts]
            /\ rows = [q \in Quality |-> EmptyBag]
            /\ shown = {}

(* One sweep for every quality; leads above the floor are confirmed and    *)
(* their pairs recorded.  A pair needs a positive estimate. *)
Batch ==
  LET above == {q \in Quality : Estimate(Applied(q)) > 0 /\ Estimate(Applied(q)) >= Cost}
      New(q) == [estimate |-> Estimate(Applied(q)), exact |-> market[q], haircut |-> Applied(q)]
  IN /\ shown' = above
     /\ rows' = [q \in Quality |->
                   IF q \in above /\ Samples(rows[q]) < MaxRows
                   THEN Recorded(rows[q], New(q)) ELSE rows[q]]
     /\ UNCHANGED market

MarketMoves == /\ \E q \in Quality, e \in Exacts : market' = [market EXCEPT ![q] = e]
               /\ UNCHANGED <<rows, shown>>

-----------------------------------------------------------------------------
LoopTypeOK ==
  /\ market \in [Quality -> Exacts]
  /\ \A q \in Quality : IsABag(rows[q]) /\ BagToSet(rows[q]) \subseteq Pair
  /\ shown \subseteq Quality

(* The feedback has the right fixed point: when more than half of a        *)
(* reliable history measured today's market, whatever haircuts its         *)
(* estimates ran under, the next estimate is today's executable value.     *)
EstimatesTrackEvidence ==
  \A q \in Quality :
    LET n == Samples(rows[q])
        today == CountIn(rows[q], {p \in DOMAIN rows[q] : p.exact = market[q]})
    IN n >= MinReliable /\ 2 * today > n /\ market[q] <= 100 - SaleFee
         => Estimate(Applied(q)) = market[q]

(* Overstating a cost is the survivable error: had a reliable history been *)
(* estimated under the haircut now applied, whatever haircuts it really    *)
(* ran under, fewer than half of its confirmations would have come in      *)
(* below their estimates.                                                  *)
HaircutIsConservative ==
  \A q \in Quality : Samples(rows[q]) >= MinReliable =>
    2 * CountIn(rows[q], {p \in DOMAIN rows[q] : p.exact < Estimate(Applied(q))})
      < Samples(rows[q])

(* An anecdote steers nothing: a haircut moves only with new evidence of   *)
(* its own quality, and only past the sample floor.                        *)
AnecdotesSteerNothing ==
  [][\A q \in Quality : Applied(q)' # Applied(q) =>
       Samples(rows[q])' >= MinReliable /\ q \in shown']_loop
=============================================================================
