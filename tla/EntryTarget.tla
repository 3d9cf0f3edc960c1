---------------------------- MODULE EntryTarget ----------------------------
(***************************************************************************)
(* max_acquisition_cost (valuation/entry_targets.py): the largest spend    *)
(* whose forward economics still clear a ROI floor, found by bisection     *)
(* between a spend that clears and one that does not.                      *)
(***************************************************************************)
EXTENDS Money

CONSTANTS Headrooms,  \* values net of fixed overhead, minor units
          Targets,    \* 1 + target_roi, as ratios
          Rates       \* overheads per unit of spend, as ratios

Ratios == (Nat \ {0}) \X (Nat \ {0})

ASSUME EntryAssumption ==
  /\ Headrooms \subseteq Int
  /\ Targets \subseteq Ratios /\ Rates \subseteq Nat \X (Nat \ {0})

VARIABLES search  \* the call under way

(* The overhead that follows the spend, rounded up as a charge is. *)
Proportional(spend, rate) == ScaledUp(spend, rate)

(* Mutant: an equal amount is taken to fail. *)
ClearsStrictly(spend, headroom, target, rate) ==
  target[1] * spend + target[2] * Proportional(spend, rate) < headroom * target[2]

Clears(spend, headroom, target, rate) ==
  target[1] * spend + target[2] * Proportional(spend, rate) <= headroom * target[2]

(* The first bound that cannot clear, whatever the overhead. *)
Seed(headroom, target) == (headroom * target[2]) \div target[1] + 1

Searches == [pc: {"idle", "narrow", "done"}, headroom: Int,
             target: Ratios, rate: Nat \X (Nat \ {0}), low: Int, high: Int]

NoSearch == [pc |-> "idle", headroom |-> 0, target |-> <<1, 1>>, rate |-> <<0, 1>>,
             low |-> 0, high |-> 1]

SearchInit == search = NoSearch

(* No headroom, or none for a single unit: the answer is zero at once. *)
Begin(headroom, target, rate) ==
  /\ search.pc # "narrow"
  /\ search' = IF headroom > 0 /\ Clears(1, headroom, target, rate)
               THEN [pc |-> "narrow", headroom |-> headroom, target |-> target, rate |-> rate,
                     low |-> 1, high |-> Seed(headroom, target)]
               ELSE [pc |-> "done", headroom |-> headroom, target |-> target, rate |-> rate,
                     low |-> 0, high |-> 1]

Middle == (search.low + search.high) \div 2

(* Mutant: the spend below the one that failed is taken to fail as well. *)
HalvedPastMiddle(s, middle) ==
  IF Clears(middle, s.headroom, s.target, s.rate)
  THEN [s EXCEPT !.low = middle] ELSE [s EXCEPT !.high = middle - 1]

Halved(s, middle) ==
  IF Clears(middle, s.headroom, s.target, s.rate)
  THEN [s EXCEPT !.low = middle] ELSE [s EXCEPT !.high = middle]

Narrow == /\ search.pc = "narrow" /\ search.high - search.low > 1
          /\ search' = Halved(search, Middle)

Return == /\ search.pc = "narrow" /\ search.high - search.low <= 1
          /\ search' = [search EXCEPT !.pc = "done"]

(* The caller has taken the answer. *)
Taken == search.pc = "done" /\ search' = NoSearch

SearchNext == \/ \E h \in Headrooms, t \in Targets, r \in Rates : Begin(h, t, r)
              \/ Narrow \/ Return \/ Taken

SearchSpec == SearchInit /\ [][SearchNext]_search

-----------------------------------------------------------------------------
SearchTypeOK == search \in Searches

(* The spending cap the search returns is exact (entry_targets.py:104-106): *)
(* it clears the floor, nothing above it does, and zero means that no      *)
(* positive spend clears.  (A spend past the seed fails by its size.)      *)
CapIsExact ==
  search.pc = "done" =>
    /\ search.low > 0 => Clears(search.low, search.headroom, search.target, search.rate)
    /\ \A spend \in (search.low + 1)..Seed(search.headroom, search.target) :
         ~Clears(spend, search.headroom, search.target, search.rate)
=============================================================================
