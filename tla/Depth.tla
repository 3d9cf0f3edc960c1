-------------------------------- MODULE Depth --------------------------------
(***************************************************************************)
(* The depth gate of one contract input (discovery/depth.py): are there    *)
(* enough purchasable listings at the price the estimate assumed?  An      *)
(* absent float bound, and the mean of too few listings, are empty sets.   *)
(***************************************************************************)
EXTENDS Money

(* Listings of another skin, quality or purse do not count, nor those      *)
(* that cannot be bought or lie outside the band. *)
QualifyingListings(listings, slot) ==
  {l \in listings : /\ l.skin = slot.skin /\ l.quality = slot.quality
                    /\ l.usable /\ l.purse = slot.purse
                    /\ \A f \in slot.low : l.float >= f
                    /\ \A f \in slot.high : l.float <= f}

Spent(S) == SumOver(S, [l \in S |-> l.cost])

Cheapest(qualifying, n) ==
  {l \in qualifying : Cardinality({k \in qualifying : \/ k.cost < l.cost
                                                      \/ k.cost = l.cost /\ k.id < l.id}) < n}

(* Mutant: the remainder is to the buyer's benefit. *)
MeanRoundedDown(S, n) == Spent(S) \div n

Mean(S, n) == -((-Spent(S)) \div n)

AssessInputDepth(qualifying, required, target) ==
  LET cheapest == Cheapest(qualifying, required)
  IN IF Cardinality(qualifying) < required
     THEN [count |-> Cardinality(qualifying), mean |-> {}, passed |-> FALSE,
           venues |-> {l.venue : l \in qualifying}]
     ELSE [count |-> Cardinality(qualifying), mean |-> {Mean(cheapest, required)},
           passed |-> Mean(cheapest, required) <= target, venues |-> {l.venue : l \in cheapest}]
=============================================================================
