------------------------------ MODULE LiveScan ------------------------------
(***************************************************************************)
(* run_live_scan (pipeline/live_scan.py): one read-only scan of a venue    *)
(* that can fail at every request.  Listings are fetched, their outputs'   *)
(* prices asked for, every shape of contract is solved under its float     *)
(* budgets, and what passes the discovery gate is requeried listing by     *)
(* listing.  The scan builds a registry of its own; one contract size, one *)
(* rarity and one quality.                                                 *)
(***************************************************************************)
EXTENDS CSFloat, BundleOptimizer

CONSTANTS InputCount,      \* how many inputs the contract takes
          Home,            \* the collection of each input skin
          InputRange,      \* the float range of each input skin
          Pool,            \* the outputs of each collection
          OutputRange,     \* the float range of each output
          MaxDistinct,     \* CompositionConstraints.max_distinct_collections
          MinPerCollection,\* CompositionConstraints.min_inputs_per_collection
          MaxBudgets,      \* ScanConfig.max_budgets_per_composition
          MaxCandidates,   \* ScanConfig.max_candidates
          PointLimits,     \* values of BundleOptimizer.max_frontier_points
          MaxWanted,       \* _MAX_WANTED_NAMES
          NamesPerRequest, \* skinport's _NAMES_PER_REQUEST
          AskNameLimit,    \* _EXIT_ASK_NAME_LIMIT
          ListingLimit,    \* listing_limit of a broad scan
          PerNameLimit,    \* per_name_limit of a targeted one
          TargetLists      \* the names a scan can be aimed at; none is a broad scan

(* A usable listing has a price and a float in its skin's range. *)
IsItem(row) ==
  row.id \in Nat /\ row.cost \in Nat /\ row.float \in Nat /\ InRange(InputRange[row.skin], row.float)

ASSUME ScanAssumption ==
  /\ {InputCount, MaxBudgets, MaxDistinct, MinPerCollection} \subseteq Nat \ {0}
  /\ PointLimits \subseteq Nat \ {0} /\ {MaxWanted, ListingLimit, PerNameLimit} \subseteq Nat
  /\ TargetLists \subseteq Seq(STRING)
  /\ \A row \in Offer : row.skin \in DOMAIN Home /\ (row.fit = "good" => IsItem(row))
  /\ \A skin \in DOMAIN Home : Home[skin] \in DOMAIN Pool /\ InputRange[skin] \in Ranges
  /\ DOMAIN Pool \subseteq Nat /\ IsFiniteSet(DOMAIN Pool)
  /\ \A c \in DOMAIN Pool : IsFiniteSet(Pool[c]) /\ \A y \in Pool[c] : OutputRange[y] \in Ranges

VARIABLE scan
vars == <<call, market, fetch, scan>>

NoScan == [pc |-> "start", client |-> "none", limit |-> 0, targets |-> << >>, listings |-> << >>,
           wanted |-> 0, priced |-> {}, requests |-> 0, evidence |-> {}, reference |-> "none",
           comp |-> 1, budget |-> 1, solved |-> {}, held |-> {}, cards |-> {},
           bundle |-> Nothing, verified |-> << >>, alive |-> {}]

Init == /\ market \in Markets /\ call = Idle /\ fetch = NoFetch /\ scan = NoScan

-----------------------------------------------------------------------------
(* Fetching.  The names of a targeted scan are asked for one by one. *)

(* RetryPolicy refuses a setting of no attempts, once the client is open.  *)
Start ==
  /\ scan.pc = "start"
  /\ \E targets \in TargetLists, limit \in PointLimits :
       /\ scan' = [scan EXCEPT !.pc = IF MaxAttempts = 0 THEN "escaped" ELSE "fetch",
                               !.client = "open", !.limit = limit, !.targets = targets]
       /\ fetch' = IF targets = << >> THEN Begun("all", ListingLimit)
                   ELSE Begun(targets[1], PerNameLimit)
  /\ UNCHANGED <<call, market>>

Fetching == scan.pc = "fetch" /\ FetchNext /\ UNCHANGED scan

(* An answer whose content is an exception of another kind (a float that   *)
(* is no number, a field a domain type refuses): nobody closes the client. *)
Escapes ==
  /\ scan.pc \in {"fetch", "sales", "asks", "quotes"} /\ call.pc = "answered"
  /\ call' = Idle /\ scan' = [scan EXCEPT !.pc = "escaped"]
  /\ UNCHANGED <<market, fetch>>

(* Mutant: a refusal leaves the client open. *)
RefusedOpen == [scan EXCEPT !.pc = "refused"]

Refused == [scan EXCEPT !.pc = "refused", !.client = "closed"]

NextName ==
  /\ scan.pc = "fetch" /\ fetch.pc = "ok" /\ Len(scan.targets) > 1
  /\ scan' = [scan EXCEPT !.targets = Tail(@), !.listings = @ \o fetch.rows]
  /\ fetch' = Begun(scan.targets[2], PerNameLimit)
  /\ UNCHANGED <<call, market>>

FetchRefused ==
  /\ scan.pc = "fetch" /\ fetch.pc = "refused"
  /\ scan' = Refused
  /\ UNCHANGED <<call, market, fetch>>

-----------------------------------------------------------------------------
(* The names to price, by the liquidity of their collections. *)
Count(rows, c) == Cardinality({k \in DOMAIN rows : Home[rows[k].skin] = c})
ByLiquidity(rows) ==
  InOrder({Home[rows[k].skin] : k \in DOMAIN rows},
               LAMBDA c, d : \/ Count(rows, c) > Count(rows, d)
                             \/ Count(rows, c) = Count(rows, d) /\ c <= d)

Names(c) == UNION {{<<y, w>> : w \in Reachable(OutputRange[y])} : y \in Pool[c]}

(* Mutant: a collection is priced if the budget was not yet used up. *)
FitsWhileAny(names, c) == Cardinality(names) < MaxWanted

FitsBudget(names, c) == Cardinality(names) + Cardinality(Names(c)) <= MaxWanted

(* A name that two collections share is asked for once. *)
Wanted(rows) ==
  LET order == ByLiquidity(rows)
      w[n \in 0..Len(order)] ==
        IF n = 0 THEN [names |-> {}, priced |-> {}]
        ELSE IF Names(order[n]) = {} \/ ~FitsBudget(w[n - 1].names, order[n]) THEN w[n - 1]
        ELSE [names |-> w[n - 1].names \cup Names(order[n]),
              priced |-> w[n - 1].priced \cup {order[n]}]
  IN w[Len(order)]

Fetched ==
  /\ scan.pc = "fetch" /\ fetch.pc = "ok" /\ Len(scan.targets) <= 1
  /\ LET rows == scan.listings \o fetch.rows
     IN scan' = [scan EXCEPT !.pc = "sales", !.listings = rows, !.wanted = Cardinality(Wanted(rows).names),
                             !.priced = Wanted(rows).priced]
  /\ fetch' = NoFetch /\ UNCHANGED <<call, market>>

AskPrices(pc, limit) ==
  /\ scan.pc = pc /\ call.pc = "idle" /\ scan.requests < limit
  /\ call' = Started
  /\ UNCHANGED <<market, fetch, scan>>

SalesRequests == -((-scan.wanted) \div NamesPerRequest)

(* Completed sales, batch by batch; a refusal ends the scan. *)
AskSales == AskPrices("sales", SalesRequests)

TakeSales ==
  /\ scan.pc = "sales" /\ call.pc = "answered"
  /\ call' = Idle
  /\ scan' = [scan EXCEPT !.requests = @ + 1]
  /\ UNCHANGED <<market, fetch>>

SalesRefused ==
  /\ scan.pc = "sales" /\ call.pc \in {"answered", "failed"}
  /\ call' = Idle /\ scan' = Refused
  /\ UNCHANGED <<market, fetch>>

(* What the sales say is evidence for some of the collections asked about. *)
SalesDone ==
  /\ scan.pc = "sales" /\ call.pc = "idle" /\ scan.requests = SalesRequests
  /\ \E evidence \in SUBSET scan.priced :
       scan' = [scan EXCEPT !.evidence = evidence, !.requests = 0,
                            !.pc = IF scan.targets = << >> THEN "loop" ELSE "asks"]
  /\ UNCHANGED <<call, market, fetch>>

(* A targeted scan asks for a few outputs' standing offers: the first      *)
(* refusal stops the asking and no more.  Then the reference prices of the *)
(* inputs, which no refusal can hurt. *)
AskExits == AskPrices("asks", IF scan.wanted < AskNameLimit THEN scan.wanted ELSE AskNameLimit)

TakeExits ==
  /\ scan.pc = "asks" /\ call.pc \in {"answered", "failed"}
  /\ call' = Idle
  /\ \E readable \in BOOLEAN :
       scan' = IF call.pc = "answered" /\ readable THEN [scan EXCEPT !.requests = @ + 1]
               ELSE [scan EXCEPT !.requests = AskNameLimit]
  /\ UNCHANGED <<market, fetch>>

ExitsDone ==
  /\ scan.pc = "asks" /\ call.pc = "idle"
  /\ scan.requests >= AskNameLimit \/ scan.requests >= scan.wanted
  /\ call' = Started
  /\ scan' = [scan EXCEPT !.pc = "quotes", !.requests = 0]
  /\ UNCHANGED <<market, fetch>>

TakeQuotes ==
  /\ scan.pc = "quotes" /\ call.pc \in {"answered", "failed"}
  /\ call' = Idle
  /\ \E reference \in {"quoted", "unavailable"} :
       /\ reference = "quoted" => call.pc = "answered"
       /\ scan' = [scan EXCEPT !.pc = "loop", !.reference = reference]
  /\ UNCHANGED <<market, fetch>>

-----------------------------------------------------------------------------
(* Searching.  What the scan works with is every usable listing, under its *)
(* collection and its registry's normalised float. *)
FloatOf(row) == Normalized(row.float, InputRange[row.skin])
Item(k) == LET row == scan.listings[k] IN [id |-> row.id, nth |-> k, cost |-> row.cost, z |-> FloatOf(row)]

Items == [c \in DOMAIN Pool |->
            {Item(k) : k \in {i \in DOMAIN scan.listings : /\ scan.listings[i].fit = "good"
                                                         /\ Home[scan.listings[i].skin] = c}}]

Shapes == InOrder(Compositions([c \in DOMAIN Pool |-> Cardinality(Items[c])], InputCount,
                                    MaxDistinct, MinPerCollection), ShapeOrder)

Outputs(counts) == UNION {Pool[c] : c \in DOMAIN counts}

(* Mutant: the tightest budgets are kept. *)
TightestBudgets(counts) ==
  LET ranges == {OutputRange[y] : y \in Outputs(counts)}
      budgets == IF ranges = {} THEN << >> ELSE InOrder(Budgets(ranges), LAMBDA y, z : y < z)
  IN SubSeq(budgets, 1, IF Len(budgets) < MaxBudgets THEN Len(budgets) ELSE MaxBudgets)

(* The loosest budgets are kept; without an output there are none. *)
BudgetsFor(counts) ==
  LET ranges == {OutputRange[y] : y \in Outputs(counts)}
      budgets == IF ranges = {} THEN << >> ELSE InOrder(Budgets(ranges), LAMBDA y, z : y < z)
  IN SubSeq(budgets, IF Len(budgets) > MaxBudgets THEN Len(budgets) - MaxBudgets + 1 ELSE 1, Len(budgets))

Shape == Shapes[scan.comp]
Offered(bundle) == {bundle.chosen[k] : k \in DOMAIN bundle.chosen}
Buildable(counts) == Defined(counts, Pool)
Built == {Offered(b) : b \in {s \in scan.solved : Buildable(s.counts)}}

SearchDone == \/ scan.comp > Len(Shapes)
              \/ scan.budget = 1 /\ Cardinality(Built) >= MaxCandidates

Passed == IF scan.budget < Len(BudgetsFor(Shape)) THEN [scan EXCEPT !.budget = @ + 1]
          ELSE [scan EXCEPT !.comp = @ + 1, !.budget = 1]

Solution == IF BudgetsFor(Shape) = << >> THEN {}
            ELSE Solve(Shape, Items, BudgetsFor(Shape)[scan.budget], scan.limit)

Searching == scan.pc = "loop" /\ ~SearchDone

Remembered(b) == [Passed EXCEPT !.solved = @ \cup
  {[counts |-> Shape, average |-> BudgetsFor(Shape)[scan.budget],
    chosen |-> b.chosen, total |-> b.total, cost |-> b.cost]}]

(* Nothing fits, no contract can be built, or the bundle was met before. *)
Skip ==
  /\ Searching /\ Solution = {}
  /\ scan' = Passed
  /\ UNCHANGED <<call, market, fetch>>

SkipKnown ==
  /\ Searching
  /\ \E b \in Solution : /\ ~Buildable(Shape) \/ Offered(b) \in Built
                         /\ scan' = Remembered(b)
  /\ UNCHANGED <<call, market, fetch>>

(* One offer in two slots is an exception; the client is closed all the same. *)
RaiseOnRepeat ==
  /\ Searching
  /\ \E b \in Solution :
       /\ Buildable(Shape) /\ Cardinality(Offered(b)) < InputCount
       /\ scan' = [Remembered(b) EXCEPT !.pc = "raised", !.client = "closed"]
  /\ UNCHANGED <<call, market, fetch>>

(* A new bundle: rejected by the discovery gate, which any output without  *)
(* evidence sees to, or claimed and requeried.                             *)
Judge ==
  /\ Searching
  /\ \E b \in Solution, passes \in BOOLEAN :
       /\ Buildable(Shape) /\ Offered(b) \notin Built /\ Cardinality(Offered(b)) = InputCount
       /\ passes => DOMAIN Shape \subseteq scan.evidence
       /\ scan' = IF passes THEN [Remembered(b) EXCEPT !.pc = "verify", !.bundle = b,
                                                       !.verified = << >>, !.alive = {}]
                  ELSE Remembered(b)
  /\ UNCHANGED <<call, market, fetch>>

-----------------------------------------------------------------------------
(* Requerying, then the final gate. *)
Asking == scan.bundle.chosen[Len(scan.verified) + 1]

AskListing ==
  /\ scan.pc = "verify" /\ call.pc = "idle"
  /\ Len(scan.verified) + 1 \in DOMAIN scan.bundle.chosen
  /\ call' = Started
  /\ UNCHANGED <<market, fetch, scan>>

(* The venue finds the listing as it was, finds it changed, or no longer   *)
(* for sale, which its parser refuses to read. *)
TakeListing ==
  /\ scan.pc = "verify" /\ call.pc = "answered"
  /\ call' = Idle
  /\ \E found \in {"same", "changed", "unreadable"} :
       scan' = [scan EXCEPT !.verified = Append(@, VerdictOfAnswer(found)),
                            !.alive = IF found = "same" THEN @ \cup {Asking} ELSE @]
  /\ UNCHANGED <<market, fetch>>

ListingFailed ==
  /\ scan.pc = "verify" /\ call.pc = "failed"
  /\ call' = Idle
  /\ scan' = [scan EXCEPT !.verified = Append(@, VerdictOfFailure(call.error))]
  /\ UNCHANGED <<market, fetch>>

(* The same exception during the search, which closes the client. *)
RaiseOnAnswer ==
  /\ scan.pc = "verify" /\ call.pc = "answered"
  /\ call' = Idle /\ scan' = [scan EXCEPT !.pc = "raised", !.client = "closed"]
  /\ UNCHANGED <<market, fetch>>

(* Mutant: only what was answered is looked at. *)
ConfirmedIfAnswered == \A k \in DOMAIN scan.verified : scan.verified[k] \notin {"changed", "unknown"}

Confirmed == \A k \in DOMAIN scan.verified : scan.verified[k] = "same"

(* The final gate can find other reasons.  A bundle that is not approved   *)
(* gives back what it holds; one that could not be claimed holds nothing. *)
Decide ==
  /\ scan.pc = "verify" /\ call.pc = "idle"
  /\ DOMAIN scan.verified = DOMAIN scan.bundle.chosen
  /\ \E approved \in BOOLEAN :
       /\ approved => Confirmed /\ Offered(scan.bundle) \cap scan.held = {}
       /\ scan' = [scan EXCEPT !.pc = "loop", !.bundle = Nothing, !.verified = << >>, !.alive = {},
                    !.held = IF approved THEN @ \cup Offered(scan.bundle) ELSE @,
                    !.cards = IF approved
                              THEN @ \cup {[offers |-> Offered(scan.bundle), alive |-> scan.alive]}
                              ELSE @]
  /\ UNCHANGED <<call, market, fetch>>

(* The client is closed, the report rendered and persisted, which can      *)
(* raise. *)
Finish ==
  /\ scan.pc = "loop" /\ SearchDone
  /\ \E end \in {"recorded", "raised"} : scan' = [scan EXCEPT !.pc = end, !.client = "closed"]
  /\ UNCHANGED <<call, market, fetch>>

Waiting == RestNext /\ UNCHANGED <<market, fetch, scan>>

Next == \/ Start \/ Fetching \/ Escapes \/ NextName \/ FetchRefused \/ Fetched
        \/ AskSales \/ TakeSales \/ SalesRefused \/ SalesDone
        \/ AskExits \/ TakeExits \/ ExitsDone \/ TakeQuotes
        \/ Skip \/ SkipKnown \/ RaiseOnRepeat \/ Judge
        \/ AskListing \/ TakeListing \/ ListingFailed \/ RaiseOnAnswer \/ Decide \/ Finish
        \/ Waiting

(* Every attempt is answered, refused or times out, every wait ends, and   *)
(* the coroutine goes on with what its request brought.                    *)
Resume == \/ Fetching \/ TakeSales \/ SalesRefused \/ TakeExits \/ TakeQuotes
          \/ TakeListing \/ ListingFailed \/ Escapes \/ RaiseOnAnswer

Spec == Init /\ [][Next]_vars /\ WF_vars(Waiting) /\ WF_vars(Resume)

-----------------------------------------------------------------------------
(* A typed refusal while gathering, an exception while searching or after, *)
(* a report; and an exception that escaped while gathering.                *)
Closing == {"refused", "raised", "recorded"}
Terminal == Closing \cup {"escaped"}

(* What a scan really had to choose from: distinct usable offers. *)
Usable == {row \in {scan.listings[k] : k \in DOMAIN scan.listings} : row.fit = "good"}
Repeated == \E j, k \in DOMAIN scan.listings : j # k /\ scan.listings[j].id = scan.listings[k].id
Row(id) == CHOOSE row \in Usable : row.id = id
Selections == kSubset(InputCount, Usable)
Total(S) == SumOver(S, [row \in S |-> FloatOf(row)])
Cost(S) == SumOver(S, [row \in S |-> row.cost])
ShapeOf(S) == [c \in {Home[row.skin] : row \in S} |-> Cardinality({row \in S : Home[row.skin] = c})]

(* A shape the constraints allow, not one the candidate limit left out. *)
Tried(counts) == /\ Cardinality(DOMAIN counts) <= MaxDistinct
                 /\ \A c \in DOMAIN counts : counts[c] >= MinPerCollection
                 /\ ~\E k \in DOMAIN Shapes : Shapes[k] = counts /\ k >= scan.comp

LiveTypeOK ==
  /\ CallTypeOK
  /\ fetch.pc \in {"idle", "fetching", "ok", "refused"} /\ fetch.status \in Statuses \cup {"none"}
  /\ scan.pc \in {"start", "fetch", "sales", "asks", "quotes", "loop", "verify"} \cup Terminal
  /\ scan.evidence \subseteq scan.priced
  /\ DOMAIN scan.verified \subseteq DOMAIN scan.bundle.chosen
  /\ scan.pc \in Terminal => call = Idle

(* A solution is exact: as many real, different offers of each collection  *)
(* as its shape says, at their own floats and costs, and within the budget *)
(* it was solved for.  Only an offer the venue served twice can stand in a *)
(* bundle twice.                                                           *)
BundlesAreExact ==
  scan.pc \in {"loop", "verify", "recorded", "raised"} =>
    \A s \in scan.solved :
      LET rows == {Row(id) : id \in Offered(s)}
      IN /\ Len(s.chosen) = InputCount /\ s.total <= s.average * InputCount
         /\ Offered(s) \subseteq {row.id : row \in Usable}
         /\ Cardinality(rows) < InputCount => Repeated
         /\ Cardinality(rows) = InputCount =>
              ShapeOf(rows) = s.counts /\ Total(rows) = s.total /\ Cost(rows) = s.cost

(* Solving just below the wear boundaries misses nothing: whatever bundle  *)
(* one could buy from what was fetched, in a shape that was looked at, one *)
(* was found that costs no more and whose every output is in as good a     *)
(* band, provided neither the frontier nor the budgets were cut short and  *)
(* the bundle does not lie within EPSILON below a boundary, where the code *)
(* does not look (boundaries.py:26-29).                                    *)
BestBundleFound ==
  scan.pc = "recorded" /\ ~Repeated /\ scan.limit >= Cardinality(Selections) =>
    \A S \in Selections :
      LET counts == ShapeOf(S)
          outputs == Outputs(counts)
          ranges == {OutputRange[y] : y \in outputs}
      IN /\ Tried(counts) /\ outputs # {}
         /\ Len(BudgetsFor(counts)) = Cardinality(Budgets(ranges))
         /\ \A z \in Breakpoints(ranges) :
              Total(S) < z * InputCount => Total(S) <= (z - EPSILON) * InputCount
         => \E s \in scan.solved :
              /\ s.counts = counts /\ s.cost <= Cost(S)
              /\ \A y \in outputs : OutputWear(s.total, InputCount, OutputRange[y])
                                   <= OutputWear(Total(S), InputCount, OutputRange[y])

(* However short the frontier and the budgets are cut, a shape with enough *)
(* listings is never taken for one that cannot be filled: its loosest      *)
(* budget is solved, and so is every budget some selection fits.           *)
FeasibleIsFound ==
  scan.pc = "recorded" =>
    \A S \in Selections :
      LET counts == ShapeOf(S)
      IN Tried(counts) /\ BudgetsFor(counts) # << >> =>
           /\ BudgetsFor(counts)[Len(BudgetsFor(counts))] = Whole
           /\ \A k \in DOMAIN BudgetsFor(counts) :
                Total(S) <= BudgetsFor(counts)[k] * InputCount =>
                  \E s \in scan.solved : s.counts = counts /\ s.average = BudgetsFor(counts)[k]

(* Every input of a card was found at the venue, as it was listed, after   *)
(* its bundle had been chosen: no outage, limit or unreadable answer       *)
(* stands for a confirmation.  Cards share no offer.                       *)
CardsAreLive ==
  /\ \A card \in scan.cards : card.alive = card.offers
  /\ \A a, b \in scan.cards : a # b => a.offers \cap b.offers = {}

(* What the request budget leaves out is left out whole and by need: a     *)
(* collection is priced with all its outputs' names or not at all, the     *)
(* names fit, and one that was passed over would not have fitted.          *)
PricesWithinBudget ==
  scan.pc \notin {"start", "fetch", "refused", "escaped"} =>
    /\ scan.wanted = Cardinality(UNION {Names(c) : c \in scan.priced})
    /\ scan.wanted <= MaxWanted
    /\ \A c \in {Home[row.skin] : row \in {scan.listings[k] : k \in DOMAIN scan.listings}} \ scan.priced :
         scan.wanted + Cardinality(Names(c)) > MaxWanted \/ Names(c) = {}

(* The connection is closed by every refusal, and by whatever ends a scan  *)
(* that has begun to search; never before that, while requests can follow. *)
ClientIsClosed == scan.client = "closed" <=> scan.pc \in Closing

(* The bundle behind a card is exact and the best there was, and none that *)
(* could be filled is missed.                                              *)
BundlesAreBest == BundlesAreExact /\ BestBundleFound /\ FeasibleIsFound

(* A report says what the venue said: silence is not an empty market, and  *)
(* a card is not an assumption.                                            *)
ReportIsHonest == QuietIsNotBroken /\ CardsAreLive

(* The requests of a scan are accounted for: how long each is patient, how *)
(* many names are asked for, and which ends give the connection back.      *)
RequestsAreAccounted == PatienceIsBounded /\ PricesWithinBudget /\ ClientIsClosed

(* No request holds the scan for ever, whatever the venue answers, states  *)
(* or withholds, and whichever part of the scan it was made for.           *)
RequestsSettle == (call.pc # "idle") ~> (call.pc = "idle")
=============================================================================
