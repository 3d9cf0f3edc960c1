-------------------------- MODULE MCScanPipeline ---------------------------
(* Bundles over four offers of two venues.  l1 and l3 bear the same id at  *)
(* their venues and meet in bundle a; b shares an offer with a and one     *)
(* with d; e repeats an offer; no contract can be built from x.            *)
EXTENDS ScanPipeline

CONSTANTS l1, l2, l3, l4, a, b, d, e, x

MCBundle == [c \in Candidate |->
               CASE c = a -> <<l1, l3>>
                 [] c = b -> <<l2, l1>>
                 [] c = d -> <<l4, l2>>
                 [] c = e -> <<l2, l2>>
                 [] OTHER -> <<l3>>]

MCListingId == [l \in Listing |-> IF l \in {l1, l3} THEN 1 ELSE IF l = l2 THEN 2 ELSE 3]

(* The same bundle for two budgets, and a composition begun below the cap; *)
(* overlapping bundles up to the cap; a bundle that repeats an offer.      *)
MCPlans == {<< <<a, a, x>>, <<d, b>> >>,
            << <<b>>, <<d>>, <<a>> >>,
            << <<d, e>> >>}
=============================================================================
