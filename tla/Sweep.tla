------------------------------- MODULE Sweep -------------------------------
(***************************************************************************)
(* sweep_prospects (discovery/prospects.py): every contract of one or two  *)
(* collections that the quoted catalogue could fill, over its cheapest     *)
(* units, valued at the discounted asks of its outputs.                    *)
(*                                                                         *)
(* A cell of the sweep is a rarity, a quality and a wear, with the size of *)
(* its contracts, the quotes, when they were taken and the haircut they    *)
(* are discounted by.  Quotes are a function from market names, <<name,    *)
(* quality, wear>>, to the least ask and the units on sale; a name without *)
(* a price is not in its domain.  Inputs are assumed at the middle of      *)
(* their band.                                                             *)
(***************************************************************************)
EXTENDS Registry, Floats, Fees

CONSTANTS FillerPool,   \* ProspectPolicy.mixed_filler_pool
          MaxUnpriced,  \* ProspectPolicy.max_unpriced_probability, a ratio
          MaxCost,      \* max_cost, a set of at most one amount
          Schedule,     \* the fee schedule
          Reference     \* _REFERENCE_VENUE

ASSUME SweepAssumption ==
  /\ FillerPool \in Nat \ {0} /\ Cardinality(MaxCost) <= 1
  /\ MaxUnpriced \in Fraction /\ MaxUnpriced[1] <= MaxUnpriced[2]

FloatRange(s) == registry.skins[s].range

Name(s, q, w) == <<registry.skins[s].name, q, w>>

-----------------------------------------------------------------------------
(* What a collection can contribute. *)
Eligible(cell, c) == EligibleInputs(c, cell.rarity, cell.quality)

Eligibles(cell) == {c \in Collections : OutputPool(c, cell.rarity) # {} /\ SkinsAt(c, cell.rarity) # {}}
Supported(cell, c) == \A y \in OutputPool(c, cell.rarity) : cell.quality \in registry.skins[y].qualities
Considered(cell) == {c \in Eligibles(cell) : Supported(cell, c) /\ Eligible(cell, c) # {}}

(* The part of a band a skin can lie in, and its middle, normalised. *)
MeetLow(range, w) == Max({BandLow[w], range.min})
MeetHigh(range, w) == Min({BandHigh[w], range.max})

Assumed(range, w) ==
  ((MeetLow(range, w) + MeetHigh(range, w) - 2 * range.min) * Whole) \div (2 * Width(range))

Quote(cell, s) == cell.asks[Name(s, cell.quality, cell.wear)]

Purchasable(cell, c) ==
  {s \in Eligible(cell, c) : /\ cell.wear \in Reachable(FloatRange(s))
                             /\ MeetLow(FloatRange(s), cell.wear) < MeetHigh(FloatRange(s), cell.wear)
                             /\ Name(s, cell.quality, cell.wear) \in DOMAIN cell.asks
                             /\ Quote(cell, s).units >= 1}

(* The units on sale, each on its own. *)
Offers(cell, c) ==
  {[skin |-> p[1], nth |-> p[2], price |-> Quote(cell, p[1]).price,
    z |-> Assumed(FloatRange(p[1]), cell.wear)]
   : p \in UNION {{s} \X (1..Quote(cell, s).units) : s \in Purchasable(cell, c)}}

(* Cheapest first; of one price, by the skin. *)
Ahead(o, p) ==
  \/ o.price < p.price
  \/ o.price = p.price /\ o.skin[1] < p.skin[1]
  \/ o.price = p.price /\ o.skin[1] = p.skin[1] /\ o.nth < p.nth

CheapestUnits(offers, n) == {o \in offers : Cardinality({p \in offers : Ahead(p, o)}) < n}

(* What a collection can bring, no more than a contract takes. *)
Units(cell, c) == CheapestUnits(Offers(cell, c), cell.size)

Stock(cell) == [c \in Considered(cell) |-> Units(cell, c)]

(* Mutant: a collection too thin to stand alone is out of the mixes too. *)
DeepComponents(cell, stock) == {c \in DOMAIN stock : Cardinality(stock[c]) = cell.size}

Components(cell, stock) == {c \in DOMAIN stock : stock[c] # {}}

(* The collections with the cheapest single unit. *)
Fillers(cell, stock) ==
  LET Least(c) == Min({u.price : u \in stock[c]})
      Cheaper(c, d) == Least(c) < Least(d) \/ (Least(c) = Least(d) /\ c < d)
      components == Components(cell, stock)
  IN {c \in components : Cardinality({d \in components : Cheaper(d, c)}) < FillerPool}

-----------------------------------------------------------------------------
(* The economics of one sketch: counts inputs of each of its collections.  *)
Taken(stock, counts) == [c \in DOMAIN counts |-> CheapestUnits(stock[c], counts[c])]

Bought(taken) == UNION {taken[c] : c \in DOMAIN taken}
TotalFloat(taken) == SumOver(Bought(taken), [u \in Bought(taken) |-> u.z])
TotalCost(taken) == SumOver(Bought(taken), [u \in Bought(taken) |-> u.price])

Net(cell, ask) ==
  Max({0, ask - Fee(Schedule, Reference, "SALE", ask, cell.at) - ScaledUp(ask, <<cell.haircut, 100>>)})

Pools(cell, counts) == [c \in DOMAIN counts |-> OutputPool(c, cell.rarity)]

(* Probabilities over a common denominator, by the collection. *)
Size(cell, counts) ==
  cell.size * ProductOver(DOMAIN counts, [c \in DOMAIN counts |-> Cardinality(OutputPool(c, cell.rarity))])
Weight(cell, counts, c) ==
  LET p == Probability(counts, Pools(cell, counts), c) IN (p[1] * Size(cell, counts)) \div p[2]

Results(cell, counts) == UNION {OutputPool(c, cell.rarity) : c \in DOMAIN counts}

(* The name an output has at the float these inputs give it. *)
Made(cell, y, total) == Name(y, cell.quality, OutputWear(total, cell.size, FloatRange(y)))

Unvalued(cell, counts, total) == {y \in Results(cell, counts) : Made(cell, y, total) \notin DOMAIN cell.asks}

MassOf(cell, counts, results) ==
  SumOver(results, [y \in results |-> Weight(cell, counts, registry.skins[y].home)])

Gross(cell, counts, total, results) ==
  SumOver(results, [y \in results |-> Weight(cell, counts, registry.skins[y].home)
                                        * Net(cell, cell.asks[Made(cell, y, total)].price)])

(* Mutant: the outputs that have a price share all of the probability. *)
ValueRenormalized(cell, counts, total) ==
  LET valued == Results(cell, counts) \ Unvalued(cell, counts, total)
  IN IF valued = {} THEN 0
     ELSE RoundDown(Gross(cell, counts, total, valued), MassOf(cell, counts, valued))

(* An output without a quote is worth nothing; the sum is rounded once. *)
Value(cell, counts, total) ==
  RoundDown(Gross(cell, counts, total, Results(cell, counts) \ Unvalued(cell, counts, total)),
            Size(cell, counts))

FeeUnknown(cell, counts, total) ==
  \E y \in Results(cell, counts) \ Unvalued(cell, counts, total) :
    ~FeeKnown(Schedule, Reference, "SALE", cell.asks[Made(cell, y, total)].price, cell.at)

TooUnpriced(cell, counts, total) ==
  MassOf(cell, counts, Unvalued(cell, counts, total)) * MaxUnpriced[2] > MaxUnpriced[1] * Size(cell, counts)

(* The side that gives more names the lead. *)
Primary(counts) == CHOOSE c \in DOMAIN counts :
  \A d \in DOMAIN counts \ {c} : counts[c] > counts[d] \/ (counts[c] = counts[d] /\ c < d)

NoSketch(cell, counts, fate) ==
  [rarity |-> cell.rarity, size |-> cell.size, quality |-> cell.quality, wear |-> cell.wear,
   counts |-> counts, fate |-> fate, primary |-> Primary(counts),
   units |-> [c \in DOMAIN counts |-> {}], cost |-> 0, value |-> 0, haircut |-> cell.haircut]

Sketch(cell, taken, counts) ==
  LET total == TotalFloat(taken)
      cost == TotalCost(taken)
      Fated(fate) == [NoSketch(cell, counts, fate) EXCEPT
                        !.units = taken, !.cost = cost, !.value = Value(cell, counts, total)]
  IN IF FeeUnknown(cell, counts, total) THEN NoSketch(cell, counts, "rules")
     ELSE IF TooUnpriced(cell, counts, total) THEN NoSketch(cell, counts, "unpriced")
     ELSE Fated(IF \E cap \in MaxCost : cost > cap THEN "cost" ELSE "lead")

-----------------------------------------------------------------------------
(* The sweep: what it considered, each with its fate. *)
Pure(cell, stock) ==
  {LET counts == [d \in {c} |-> cell.size]
   IN IF Cardinality(stock[c]) < cell.size THEN NoSketch(cell, counts, "depth")
      ELSE Sketch(cell, Taken(stock, counts), counts) : c \in DOMAIN stock}

(* Every split of a contract between a filler and another collection. *)
Splits(cell, stock) ==
  UNION {{counts \in [{c, d} -> 1..cell.size] :
            /\ c # d /\ counts[c] + counts[d] = cell.size
            /\ counts[c] <= Cardinality(stock[c]) /\ counts[d] <= Cardinality(stock[d])}
         : c \in Components(cell, stock), d \in Fillers(cell, stock)}

Mixed(cell, stock) ==
  {Sketch(cell, Taken(stock, counts), counts) : counts \in Splits(cell, stock)}

(* A quality the outputs lack is a rule the collection falls to. *)
Unsupported(cell) ==
  {NoSketch(cell, [d \in {c} |-> cell.size], "rules") : c \in {e \in Eligibles(cell) : ~Supported(cell, e)}}

(* haircuts is what each quality's estimates run under; a rarity that the  *)
(* rules have no contract for is not swept. *)
SweepProspects(rule, asks, at, haircuts) ==
  UNION {LET cell == [rarity |-> r, size |-> rule.counts[r], quality |-> q, wear |-> w,
                      asks |-> asks, at |-> at, haircut |-> haircuts[q]]
             stock == Stock(cell)
         IN Pure(cell, stock) \cup Mixed(cell, stock) \cup Unsupported(cell)
         : r \in DOMAIN rule.counts, q \in DOMAIN haircuts, w \in Wears}

(* A lead's greatest spend, in all and per unit, at a target return, 1 +   *)
(* ROI as a ratio. *)
EntryTargetCost(lead, target) == RoundDown(lead.value * target[2], target[1])
EntryTargetUnitCost(lead, target) == RoundDown(EntryTargetCost(lead, target), lead.size)
=============================================================================
