------------------------------- MODULE Floats -------------------------------
(***************************************************************************)
(* Wear floats and what a contract makes of them (domain/items.py,         *)
(* domain/mathematics.py, domain/rules.py, discovery/boundaries.py).  A    *)
(* float is counted in hundredths and a normalised float in thousandths;   *)
(* ranges whose width divides a thousand keep every value exact, as the    *)
(* code's rationals are.  The code's rendering of a projected float to     *)
(* twelve places is finer than any step of this grid.                      *)
(***************************************************************************)
EXTENDS Money

(* The elements of S in the order of before: the code's sorted loops.      *)
InOrder(S, before(_, _)) ==
  [k \in 1..Cardinality(S) |->
     CHOOSE x \in S : Cardinality({y \in S \ {x} : before(y, x)}) = k - 1]

(* The entries of s at the positions of I, in order. *)
Picked(s, I) ==
  LET order == InOrder(I, LAMBDA j, k : j < k)
  IN [k \in 1..Cardinality(I) |-> s[order[k]]]

Whole == 1000
EPSILON == 1

Wears == 1..5
BandLow == <<0, 7, 15, 38, 45>>
BandHigh == <<7, 15, 38, 45, 100>>

Ranges == {r \in [min: 0..100, max: 0..100] : r.min < r.max /\ Whole % (r.max - r.min) = 0}
Width(range) == range.max - range.min
InRange(range, f) == range.min <= f /\ f <= range.max

(* The band of the float num/den: a boundary belongs to the worse band. *)
Wear(num, den) == CHOOSE w \in Wears :
  /\ BandLow[w] * den <= num
  /\ num < BandHigh[w] * den \/ w = 5

(* A band is reachable when the range meets it; the last one is closed. *)
Reachable(range) ==
  {w \in Wears : range.max >= BandLow[w] /\ (range.min < BandHigh[w] \/ w = 5)}

(* z = (f - a) / (b - a). *)
Normalized(f, range) == ((f - range.min) * Whole) \div Width(range)

(* The float of an output whose n inputs normalise to total, as a ratio. *)
OutputFloat(total, n, range) ==
  <<range.min * n * Whole + total * Width(range), n * Whole>>

OutputWear(total, n, range) ==
  Wear(OutputFloat(total, n, range)[1], OutputFloat(total, n, range)[2])

(* Where an output of this range crosses into a worse band. *)
Crossings(range) ==
  {Normalized(w, range) : w \in {BandLow[v] : v \in {u \in Wears : /\ range.min < BandLow[u]
                                                                   /\ BandLow[u] <= range.max}}}

Breakpoints(ranges) ==
  {z \in UNION {Crossings(r) : r \in ranges} : 0 < z /\ z <= Whole}

(* Mutant: the budget sits on the boundary, where the worse band begins. *)
BudgetsOnBoundary(ranges) == Breakpoints(ranges) \cup {Whole}

(* Just below every breakpoint, and no constraint at all. *)
Budgets(ranges) ==
  {z \in {b - EPSILON : b \in Breakpoints(ranges)} : z > 0} \cup {Whole}

(* P(y) = n_c / (N k_c) for each output y of a pool of collection c, as a  *)
(* ratio; a contract with an empty pool is not defined.                    *)
Defined(counts, pools) == \A c \in DOMAIN counts : pools[c] # {}

Probability(counts, pools, c) ==
  <<counts[c], SumOver(DOMAIN counts, counts) * Cardinality(pools[c])>>
=============================================================================
