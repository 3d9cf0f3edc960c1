-------------------------------- MODULE Fees --------------------------------
(***************************************************************************)
(* Fee rules and their resolution (domain/fees.py).  A rule holds for one  *)
(* venue and operation, over a window of time and a tier of amounts; a     *)
(* bound that may be absent is a set of at most one number.  A schedule is *)
(* a set of rules, told apart by their ids.                                *)
(***************************************************************************)
EXTENDS Money

(* Whole minor units and a share that is not negative; a bound that would  *)
(* make a fee negative is an error.                                        *)
IsRule(rule) ==
  /\ rule.rate \in Fraction /\ rule.fixed \in Nat
  /\ rule.lower \in Int /\ rule.upper \subseteq Int
  /\ rule.minimum \subseteq Int /\ IsFiniteSet(rule.minimum)
  /\ rule.maximum \subseteq Nat /\ IsFiniteSet(rule.maximum)

IsSchedule(schedule) == IsFiniteSet(schedule) /\ \A rule \in schedule : IsRule(rule)

CoversTime(rule, moment) == rule.from <= moment /\ \A u \in rule.until : moment < u

(* Tiers go by the size of the amount: from lower up to, excluding, upper. *)
CoversAmount(rule, basis) ==
  rule.lower <= Magnitude(basis) /\ \A u \in rule.upper : Magnitude(basis) < u

Matching(schedule, venue, operation, basis, moment) ==
  {rule \in schedule : /\ rule.venue = venue /\ rule.operation = operation
                       /\ CoversTime(rule, moment) /\ CoversAmount(rule, basis)}

(* Mutant: the fee is rounded in our favour. *)
RuleFeeRoundedDown(rule, basis) ==
  LET raw == ScaledDown(Magnitude(basis), rule.rate) + rule.fixed
  IN Min({Max({raw} \cup rule.minimum)} \cup rule.maximum)

(* The rounded-up percentage and the fixed part, held between a floor and  *)
(* a cap, where the cap has the last word.                                 *)
RuleFee(rule, basis) ==
  LET raw == ScaledUp(Magnitude(basis), rule.rate) + rule.fixed
  IN Min({Max({raw} \cup rule.minimum)} \cup rule.maximum)

(* A gap and an overlap are both an unknown fee. *)
FeeKnown(schedule, venue, operation, basis, moment) ==
  Cardinality(Matching(schedule, venue, operation, basis, moment)) = 1

Fee(schedule, venue, operation, basis, moment) ==
  RuleFee(CHOOSE rule \in Matching(schedule, venue, operation, basis, moment) : TRUE, basis)
=============================================================================
