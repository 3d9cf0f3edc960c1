------------------------------ MODULE Discovery ------------------------------
(***************************************************************************)
(* The search for leads and the loop that keeps it honest (the first half  *)
(* of run_confirmation_batch, pipeline/confirm_batch.py): a batch loads    *)
(* the pinned snapshot, sweeps the catalogue under the haircuts fitted to  *)
(* the record (Calibration), has what the sweep shows confirmed, and the   *)
(* record grows.  Quotes and the moment change at will between two sweeps. *)
(***************************************************************************)
EXTENDS Calibration, Sweep, Depth

CONSTANTS Catalogues,  \* what a sweep can meet: the quotes and the moment
          Listings,    \* sets of listings a depth gate can be shown
          Purse,       \* the currency and balance a contract is paid in
          Floors       \* returns asked of a lead, 1 + ROI as ratios

(* Asks and quantities are whole; the sale fee of the calibration is what  *)
(* the schedule charges on its listed price.                               *)
IsCatalogue(catalogue) ==
  /\ \A n \in DOMAIN catalogue.asks : catalogue.asks[n].price \in Nat /\ catalogue.asks[n].units \in Nat
  /\ FeeKnown(Schedule, Reference, "SALE", 100, catalogue.at) =>
       Fee(Schedule, Reference, "SALE", 100, catalogue.at) = SaleFee

(* A listing is told by its id. *)
AreListings(listings) ==
  /\ IsFiniteSet(listings)
  /\ \A l \in listings : l.id \in Nat /\ l.cost \in Nat
  /\ \A k, l \in listings : k.id = l.id => k = l

ASSUME DiscoveryAssumption ==
  /\ IsSchedule(Schedule)
  /\ \A catalogue \in Catalogues : IsCatalogue(catalogue)
  /\ \A listings \in Listings : AreListings(listings)
  /\ Floors \subseteq (Nat \ {0}) \X (Nat \ {0})

VARIABLES quotes,  \* the catalogue of the last sweep, until a batch has used it
          board    \* its sketches
discoveryVars == <<market, rows, shown, payload, registry, quotes, board>>

(* Mutant: what was fitted is not handed to the sweep. *)
HaircutsConfigured == [q \in Quality |-> Default]

Haircuts == [q \in Quality |-> Applied(q)]

NoQuotes == [at |-> 0, asks |-> [n \in {} |-> n]]

DiscoveryInit == /\ LoopInit
                 /\ payload \in Payloads /\ registry = Import(payload)
                 /\ quotes = NoQuotes /\ board = {}

(* A registry with errors, or a moment no one ruleset governs, ends the    *)
(* batch before the sweep. *)
SweepAgain ==
  /\ RequireValid
  /\ \E catalogue \in Catalogues : \E rule \in Resolve(catalogue.at) :
       /\ quotes' = catalogue
       /\ board' = SweepProspects(rule, catalogue.asks, catalogue.at, Haircuts)
  /\ UNCHANGED <<market, rows, shown, payload, registry>>

(* The batch forgets the quotes, confirms, and records at the end. *)
SweptBatch == /\ board # {} /\ Batch
              /\ board' = {} /\ quotes' = NoQuotes
              /\ UNCHANGED <<payload, registry>>

Drift == MarketMoves /\ UNCHANGED <<payload, registry, quotes, board>>

DiscoveryNext == SweepAgain \/ SweptBatch \/ Drift

DiscoverySpec == DiscoveryInit /\ [][DiscoveryNext]_discoveryVars

-----------------------------------------------------------------------------
Fates == {"depth", "rules", "unpriced", "cost", "lead"}
Leads == {s \in board : s.fate = "lead"}

DiscoveryTypeOK ==
  /\ LoopTypeOK
  /\ payload \in Payloads /\ DOMAIN registry = {"skins", "roster", "extraordinary"}
  /\ \A s \in board : /\ s.quality \in Quality /\ s.wear \in Wears /\ s.fate \in Fates
                      /\ s.rarity \in Rarities \ {Extraordinary}
                      /\ s.cost \in Nat /\ s.value \in Nat

(* What an import leaves out it says: a snapshot without faulty entries    *)
(* becomes a registry in which the pool of every collection holds each     *)
(* entry that states the collection and the next rarity, once, so the odds *)
(* of a contract are those the snapshot states; and the registry's own     *)
(* checks never fail on what was imported (bymykel.py:15-20).              *)
ImportIsFaithful ==
  /\ RequireValid
  /\ Faulty(payload) = {} =>
       \A e \in payload : \A c \in e.collections, r \in e.rarity :
         /\ <<e.id, c>> \in OutputPool(c, r - 1) \/ r = 1
         /\ Cardinality(SkinsAt(c, r)) = Cardinality({f \in payload : c \in f.collections /\ r \in f.rarity})

(* A venue names its rows; the registry says what they are.  Where the     *)
(* entries of one name state different paints, the row of an item resolves *)
(* to the item's own skin or, when the item is in several collections or   *)
(* was left out of the import, to none: never to its namesake              *)
(* (csfloat.py:161-168, "a refusal to guess").                             *)
IdentityIsNeverGuessed ==
  \A e \in payload : \A r \in e.rarity, q \in e.qualities :
    LET namesakes == {f \in payload : f.name = e.name /\ f.id # e.id}
        own == {s \in Skins : s[1] = e.id}
    IN e.paint # {} /\ (\A f \in namesakes : f.paint \notin {{}, e.paint}) =>
         Identify([name |-> e.name, paint |-> e.paint, rarity |-> r, quality |-> q])
           = IF Cardinality(own) = 1 THEN own ELSE {}

SameSketch(s, t) ==
  s.rarity = t.rarity /\ s.quality = t.quality /\ s.wear = t.wear /\ s.counts = t.counts

(* The sweep and the calibration speak one dialect (calibration.py:46-48): *)
(* a lead runs under the haircut fitted to its quality, and one whose only *)
(* output asks 100 is estimated at exactly what the loop inverts when it   *)
(* fits the next haircut to that lead's confirmation.                      *)
SweepSpeaksCalibration ==
  \A s \in Leads :
    LET outputs == UNION {OutputPool(c, s.rarity) : c \in DOMAIN s.counts}
        total == TotalFloat(s.units)
        Asks(y) == {quotes.asks[n].price : n \in DOMAIN quotes.asks
                                             \cap {Name(y, s.quality, OutputWear(total, s.size, FloatRange(y)))}}
    IN /\ s.haircut = Applied(s.quality)
       /\ Cardinality(outputs) = 1 /\ (\A y \in outputs : Asks(y) = {100})
            => s.value = Estimate(Applied(s.quality))

-----------------------------------------------------------------------------
(* The cells of the sweep under the rulesets in force at its moment. *)
Cells ==
  UNION {{[rarity |-> r, size |-> rule.counts[r], quality |-> q, wear |-> w,
           asks |-> quotes.asks, at |-> quotes.at, haircut |-> 0] : r \in DOMAIN rule.counts, q \in Quality, w \in Wears}
         : rule \in {rs \in RuleSets : Covers(rs, quotes.at)}}

(* Every way to buy a contract's inputs from collections K. *)
Ways(cell, K) ==
  {way \in kSubset(cell.size, UNION {Offers(cell, c) : c \in K}) :
     \A c \in K : \E u \in way : u.skin[2] = c}

Bill(way) == SumOver(way, [u \in way |-> u.price])
CountsOf(way, K) == [c \in K |-> Cardinality({u \in way : u.skin[2] = c})]

(* The sweep looks at every contract the rules and the quotes allow, from  *)
(* one collection or from two of which one is a filler, however thin each  *)
(* of them is alone; it prices each at the least such a contract costs,    *)
(* and what it prices could really be bought.  (Units of a paint that is   *)
(* in both collections are counted once for each.)                         *)
CheapestIsSketched ==
  board # {} =>
    /\ \A s \in board : \E cell \in Cells : s.rarity = cell.rarity /\ s.size = cell.size
    /\ \A cell \in Cells :
         LET fillers == Fillers(cell, Stock(cell)) IN
         \A K \in {{c, d} : c \in Considered(cell), d \in Considered(cell)} :
           Cardinality(K) = 1 \/ K \cap fillers # {} =>
             LET ways == Ways(cell, K)
                 found == {s \in board : /\ s.rarity = cell.rarity /\ s.quality = cell.quality
                                         /\ s.wear = cell.wear /\ DOMAIN s.counts = K}
             IN /\ \A way \in ways : \E s \in found :
                     /\ s.counts = CountsOf(way, K) /\ s.fate # "depth"
                     /\ s.fate \in {"lead", "cost"} => s.cost <= Bill(way)
                /\ \A s \in found : s.fate \in {"lead", "cost"} =>
                     \E way \in ways : CountsOf(way, K) = s.counts /\ Bill(way) = s.cost

(* No news is no good news: a sweep that finds quotes gone that are none    *)
(* of its contracts' inputs, and all else the same, shows no lead it did   *)
(* not show before, and none at a higher value.  One exception is the      *)
(* code's: a sketch that a fee unknown at some quote kept from being a     *)
(* lead becomes one when that quote goes.                                  *)
NoNewsIsNoGoodNews ==
  [][LET gone == DOMAIN quotes.asks \ DOMAIN quotes'.asks IN
     board # {} /\ board' # {} /\ quotes'.at = quotes.at
       /\ DOMAIN quotes'.asks \subseteq DOMAIN quotes.asks
       /\ (\A n \in DOMAIN quotes'.asks : quotes'.asks[n] = quotes.asks[n])
     => \A s \in board' :
          /\ s.fate = "lead"
          /\ \A n \in gone : \A i \in Skins : registry.skins[i].name = n[1] => registry.skins[i].rarity # s.rarity
          => \E t \in board :
               /\ SameSketch(s, t)
               /\ \/ t.fate = "rules"
                  \/ t.fate = "lead" /\ s.value <= t.value /\ s.cost = t.cost]_discoveryVars

(* A lead of one skin whose input is deep at the unit price its entry      *)
(* target allows keeps the return asked of it when a contract's worth of   *)
(* listings is bought for real; and the gate passes exactly when there is  *)
(* such a purchase within the price.                                       *)
DeepLeadsClear ==
  \A lead \in Leads, listings \in Listings, floor \in Floors, skin \in Skins :
    (\A c \in DOMAIN lead.units : \A u \in lead.units[c] : u.skin = skin) =>
      LET slot == [skin |-> skin, quality |-> lead.quality, purse |-> Purse,
                   low |-> {BandLow[lead.wear]}, high |-> {BandHigh[lead.wear]}]
          qualifying == QualifyingListings(listings, slot)
          unit == EntryTargetUnitCost(lead, floor)
          evidence == AssessInputDepth(qualifying, lead.size, unit)
          purchases == kSubset(lead.size, qualifying)
      IN /\ evidence.passed <=> \E T \in purchases : Spent(T) <= lead.size * unit
         /\ evidence.passed => floor[1] * Spent(Cheapest(qualifying, lead.size)) <= floor[2] * lead.value

(* Items are who the snapshot says they are, and an ambiguous one is none. *)
ItemsAreIdentified == ImportIsFaithful /\ IdentityIsNeverGuessed

(* The haircut a sweep runs under is what the record says, on the safe     *)
(* side.                                                                   *)
HaircutsFollowTheRecord ==
  EstimatesTrackEvidence /\ HaircutIsConservative /\ SweepSpeaksCalibration

(* A lead is the best of what is on sale and can really be bought.         *)
LeadsAreBuyable == CheapestIsSketched /\ DeepLeadsClear

(* Only news moves an estimate: evidence past the sample floor a haircut,  *)
(* and a quote that goes never a lead upwards.                             *)
OnlyNewsMoves == AnecdotesSteerNothing /\ NoNewsIsNoGoodNews

(* What registry.py:46 says of an error: it "blocks promotion; the         *)
(* registry cannot back a purchase decision".  So no batch sweeps a        *)
(* snapshot whose import reported one.                                     *)
ErrorsBlockPromotion == board # {} => Faulty(payload) = {}
=============================================================================
