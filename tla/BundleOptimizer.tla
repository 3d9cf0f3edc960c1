--------------------------- MODULE BundleOptimizer ---------------------------
(***************************************************************************)
(* The cheapest listings for a shape of contract under a float budget      *)
(* (optimizer/pareto.py, optimizer/bundle.py): listings are pruned, each   *)
(* collection's frontier of (float, cost) is grown listing by listing, and *)
(* the frontiers are folded together.                                      *)
(*                                                                         *)
(* An item is a record of its identity, the place it was met at, its       *)
(* normalised float and its cost; a point is a selection, as a sequence of *)
(* identities, with its totals.  A frontier is the set of its points: the  *)
(* order the code keeps them in is that of their floats.                   *)
(***************************************************************************)
EXTENDS Floats

CheaperFirst(a, b) ==
  \/ a.cost < b.cost
  \/ a.cost = b.cost /\ a.z < b.z
  \/ a.cost = b.cost /\ a.z = b.z /\ a.id < b.id
  \/ a.cost = b.cost /\ a.z = b.z /\ a.id = b.id /\ a.nth < b.nth

(* One offer served twice does not dominate itself. *)
Dominates(a, b) == /\ a.id # b.id
                   /\ a.cost <= b.cost /\ a.z <= b.z
                   /\ a.cost < b.cost \/ a.z < b.z

Dominators(items, i) == {j \in items : Dominates(j, i)}

(* Mutant: one better listing is enough to drop another. *)
PruneDominatedByOne(items, slots) == {i \in items : Dominators(items, i) = {}}

(* The listings worth considering: a bundle with slots places can do       *)
(* without a listing only if slots others are better. *)
PruneDominated(items, slots) == {i \in items : Cardinality(Dominators(items, i)) < slots}

-----------------------------------------------------------------------------
(* The rank of a point tells those of one float and cost apart. *)
Nothing == [total |-> 0, cost |-> 0, chosen |-> << >>, rank |-> 0]

(* Selections of one size by float, then by cost, then as they were met. *)
Precedes(p, q) ==
  /\ Len(p.chosen) = Len(q.chosen)
  /\ \/ p.total < q.total
     \/ p.total = q.total /\ p.cost < q.cost
     \/ p.total = q.total /\ p.cost = q.cost /\ p.rank < q.rank

(* A point survives if it is cheaper than every point before it. *)
PruneFrontier(points) == {p \in points : \A q \in points : Precedes(q, p) => p.cost < q.cost}

Truncated(points, limit) == {p \in points : Cardinality({q \in points : Precedes(q, p)}) < limit}

(* Every selection with the n-th item added that stays within the budget. *)
Extended(points, item, n, slots, budget) ==
  {[total |-> p.total + item.z, cost |-> p.cost + item.cost, chosen |-> Append(p.chosen, item.id), rank |-> n]
   : p \in {q \in points : Len(q.chosen) < slots /\ q.total + item.z <= budget}}

(* Mutant: sizes are taken upward, and an item extends its own selection. *)
WithItemUpward(points, item, n, slots, budget, limit) ==
  LET once == points \cup Extended(points, item, n, slots, budget)
  IN Truncated(PruneFrontier(points \cup Extended(once, item, n, slots, budget)), limit)

(* The selections of every size, once the n-th item is offered.  Sizes are *)
(* taken downward: the item is added to selections that do not hold it. *)
WithItem(points, item, n, slots, budget, limit) ==
  Truncated(PruneFrontier(points \cup Extended(points, item, n, slots, budget)), limit)

(* The frontier of choosing exactly slots of the items, cheapest first. *)
CollectionFrontier(items, slots, budget, limit) ==
  LET order == InOrder(items, CheaperFirst)
      grown[n \in 0..Len(order)] ==
        IF n = 0 THEN {Nothing} ELSE WithItem(grown[n - 1], order[n], n, slots, budget, limit)
  IN {p \in grown[Len(order)] : Len(p.chosen) = slots}

Joined(a, b) == [total |-> a.total + b.total, cost |-> a.cost + b.cost, chosen |-> a.chosen \o b.chosen,
                 rank |-> a.total]

(* Two collections' frontiers combined under the shared budget. *)
MergeFrontier(left, right, budget) ==
  PruneFrontier({p \in {Joined(a, b) : a \in left, b \in right} : p.total <= budget})

Slots(counts) == SumOver(DOMAIN counts, counts)

(* The cheapest bundle of the shape counts whose average is within the     *)
(* budget, or none: a set of at most one point. *)
Solve(counts, items, average, limit) ==
  LET budget == average * Slots(counts)
      Frontier(c) == CollectionFrontier(PruneDominated(items[c], counts[c]), counts[c], budget, limit)
      order == InOrder(DOMAIN counts, LAMBDA c, d : c < d)
      combined[n \in 0..Len(order)] ==
        IF n = 0 THEN {Nothing}
        ELSE Truncated(MergeFrontier(combined[n - 1], Frontier(order[n]), budget), limit)
      found == combined[Len(order)]
  IN {p \in found : \A q \in found : p.cost <= q.cost}

-----------------------------------------------------------------------------
(* The shapes worth solving (discovery/enumerator.py): how many inputs     *)
(* each of a few collections gives.                                        *)

(* Mutant: every collection must be able to fill its share alone. *)
RoomIfEach(collections, caps, n) == \A c \in collections : caps[c] >= n

Room(collections, caps, n) == SumOver(collections, caps) >= n

(* Usable collections are those with enough listings; none gives more than *)
(* it has. *)
Compositions(available, n, maxDistinct, minimum) ==
  LET usable == {c \in DOMAIN available : available[c] >= minimum}
      caps == [c \in usable |-> IF available[c] < n THEN available[c] ELSE n]
      subsets == {s \in SUBSET usable : /\ Cardinality(s) \in 1..maxDistinct
                                        /\ Cardinality(s) <= n
                                        /\ Room(s, caps, n)}
  IN UNION {{counts \in [s -> minimum..n] : /\ \A c \in s : counts[c] <= caps[c]
                                            /\ Slots(counts) = n} : s \in subsets}

(* The least element in one of two sets and not in the other tells them    *)
(* apart. *)
Leading(S) == CHOOSE x \in S : \A y \in S : x <= y

(* Fewer collections first, then by the collections, then by the shares. *)
ShapeOrder(a, b) ==
  LET apart == (DOMAIN a \ DOMAIN b) \cup (DOMAIN b \ DOMAIN a)
      differ == {c \in DOMAIN a : a[c] # b[c]}
  IN \/ Cardinality(DOMAIN a) < Cardinality(DOMAIN b)
     \/ /\ Cardinality(DOMAIN a) = Cardinality(DOMAIN b) /\ apart # {}
        /\ Leading(apart) \in DOMAIN a
     \/ apart = {} /\ differ # {} /\ a[Leading(differ)] < b[Leading(differ)]
=============================================================================
