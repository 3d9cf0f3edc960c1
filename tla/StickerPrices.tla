--------------------------- MODULE StickerPrices ---------------------------
(***************************************************************************)
(* What to enter at a venue (valuation/entry_targets.py): the share of a   *)
(* cap per input, and the greatest sticker whose cost with fees fits under *)
(* that share.  Fees come in tiers, so what a sticker costs does not rise  *)
(* with the sticker; the search goes through the segments between tiers.   *)
(***************************************************************************)
EXTENDS Fees

(* Mutant: the share is rounded up. *)
PerUnitRoundedUp(cap, inputs) == RoundUp(cap, inputs)

PerUnit(cap, inputs) == cap \div inputs

(* One venue's schedule for the stickers, its rules of today. *)
Candidates(schedule, venue, operation, moment) ==
  {rule \in schedule : rule.venue = venue /\ rule.operation = operation /\ CoversTime(rule, moment)}

(* The tier boundaries up to the cap, in order the ends of the segments. *)
Boundaries(rules, cap) ==
  {b \in {1, cap + 1} \cup {Max({rule.lower, 1}) : rule \in rules} \cup UNION {rule.upper : rule \in rules} :
     1 <= b /\ b <= cap + 1}

Segments(rules, cap) ==
  {s \in Boundaries(rules, cap) \X Boundaries(rules, cap) :
     s[1] < s[2] /\ ~\E b \in Boundaries(rules, cap) : s[1] < b /\ b < s[2]}

Covering(rules, sticker) == {rule \in rules : CoversAmount(rule, sticker)}

Loaded(rules, sticker) ==
  sticker + SumOver(rules, [rule \in rules |-> RuleFee(rule, sticker)])

(* The last sticker of a segment that fits, halving between one that does  *)
(* and one that does not; zero when the first does not fit. *)
BestOf(segment, rules, cap) ==
  LET fees == Covering(rules, segment[1])
      fits(s) == Loaded(fees, s) <= cap
      top == segment[2] - 1
      halve[b \in Nat \X Nat] ==
        LET middle == (b[1] + b[2]) \div 2
        IN IF b[2] - b[1] <= 1 THEN b[1]
           ELSE IF fits(middle) THEN halve[<<middle, b[2]>>] ELSE halve[<<b[1], middle>>]
  IN CASE ~fits(segment[1]) -> 0
       [] fits(segment[1]) /\ fits(top) -> top
       [] OTHER -> halve[<<segment[1], top>>]

(* A fee unknown at every sticker, or ambiguous at one, is an error. *)
StickerKnown(rules, cap) ==
  cap >= 1 =>
    /\ \A s \in Segments(rules, cap) : Cardinality(Covering(rules, s[1])) <= 1
    /\ \E s \in Segments(rules, cap) : Covering(rules, s[1]) # {}

(* Mutant: the tier of the cap itself is the only one tried. *)
MaxStickerOfLastTier(rules, cap) ==
  IF cap < 1 THEN 0 ELSE Max({0} \cup {BestOf(s, rules, cap) : s \in {s \in Segments(rules, cap) : s[2] = cap + 1}})

MaxStickerPrice(rules, cap) ==
  IF cap < 1 THEN 0
  ELSE Max({0} \cup {BestOf(s, rules, cap) : s \in {s \in Segments(rules, cap) : Covering(rules, s[1]) # {}}})
=============================================================================
