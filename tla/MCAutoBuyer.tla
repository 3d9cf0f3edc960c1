---------------------------- MODULE MCAutoBuyer -----------------------------
(* Two bundles that overlap (a, b) and one that stands alone (d).          *)
EXTENDS AutoBuyer, FiniteSets

CONSTANTS l1, l2, l3, l4, a, b, d, MaxCallsOfA

MCBundle == [c \in Candidate |->
               CASE c = a -> <<l1, l2>>
                 [] c = b /\ l3 \in Listing -> <<l2, l3>>
                 [] c = b /\ l3 \notin Listing -> <<l2>>
                 [] OTHER -> <<l4>>]

MCCallBound == [c \in Candidate |-> IF c = a THEN MaxCallsOfA ELSE 1]

MCPrice == [l \in Listing |-> IF l \in {l1, l4} THEN 2 ELSE 1]

MCCostFrom == [c \in Candidate |->
                 [i \in 1..Size(c) + 1 |->
                    IF i > Size(c) THEN 0
                    ELSE IF i = Size(c) THEN MCPrice[MCBundle[c][i]]
                    ELSE MCPrice[MCBundle[c][i]] + MCPrice[MCBundle[c][i + 1]]]]

(* One sufficient budget, where the gates are not the question. *)
MCAmple == {[live |-> TRUE, spentToday |-> 1, maxDailySpend |-> 4]}

(* The switch off; no spend figure; a budget that fits the dearest bundle  *)
(* exactly, and one that only the cheaper bundles fit.                     *)
MCSettingsSet ==
  {[live |-> FALSE, spentToday |-> 0, maxDailySpend |-> 0],
   [live |-> TRUE, spentToday |-> NotSupplied, maxDailySpend |-> 4],
   [live |-> TRUE, spentToday |-> 1, maxDailySpend |-> 4],
   [live |-> TRUE, spentToday |-> 1, maxDailySpend |-> 3]}
=============================================================================
