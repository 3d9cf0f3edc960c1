# Verification of the CS2 trade-up procurement agent

TLA+ models of the program under `src/tradeup`, the TLC configurations that
check them on small instances, and TLAPS proofs of the properties that matter
most for every instance.

The program scans skin markets, enumerates trade-up contracts, solves for the
cheapest bundle of listings per contract, values it, gates it, reserves it,
requeries every listing, gates it again and ends in an operator card or, where
an adapter may buy, in an order. Around that core a scheduled batch sweeps a
catalogue for leads, confirms them by live scans, calibrates the sweep's
estimates against what it finds, watches the operator's standing buy orders and
keeps everything in a database with an append-only ledger.

Contents: [inventory](#inventory) · [modules](#modules) ·
[runs](#what-the-runs-check) · [fairness](#fairness-and-deadlock) ·
[proofs](#what-is-proved) · [disagreements](#where-the-code-and-its-documents-disagree) ·
[plan](#plan) · [left out](#not-modelled)

## Inventory

Paths are below `src/tradeup`. *M* modelled, *P* in part, *–* left out.

| Component | State | Operations | Hard behaviour | |
|---|---|---|---|---|
| Reservation registry `execution/reservations.py`, `domain/execution.py` | one dictionary listing → reservation (state, candidate, expiry) | claim a bundle, move one claim, release a candidate's claims, mark expired ones | expiry by time while an order is out; transitions that look at no holder | M |
| Auto-buyer `purchasing/auto_buyer.py` | frozen settings and spend; per call the intents, position and results | the gate ladder, re-verify all, then submit and reconcile one by one | coroutines interleave at every await; refusals and exceptions in the middle of a bundle | M |
| Scan pipeline `pipeline/scan.py` | per scan: seen selections, candidates, decisions; across scans: the registry | ingest, enumerate, solve, build, gate, reserve, requery, gate, card | adapters that refuse or raise; identifiers of two venues that collide; cap and deduplication | P |
| Confirm batch `pipeline/confirm_batch.py` | the table of recorded confirmations | sweep, rotate, confirm with one retry, record, review orders, execute hits, alert | starvation; one transaction at the end; a window of recent rows | P |
| Calibration `discovery/calibration.py` | none of its own; reads the recorded pairs | fit a haircut per quality | a feedback loop whose evidence was measured under earlier fits | M |
| Standing-order watch `discovery/order_watch.py` | none | collect ceilings, judge each order | keys two leads share; currencies | M |
| Durable store `persistence/*` | the tables, sessions | upsert, snapshot, append, insert, reserve, release; commit, rollback | overlapping processes, stale reads before writes, death between statements | M |
| Policy gates `execution/policy.py` | none | discovery gate, final gate, card gate | fourteen reasons, thresholds, fields venues leave unsaid, answers filed by id | M |
| Valuation `valuation/*` | none | exit prices, economics, partial fills, settlement rail, entry targets, sticker prices | rounding against the buyer, evidence that is stale or missing, bisection, gaps in a fee schedule | M |
| Venue HTTP client `adapters/http.py` | none across calls | attempts, back-off, `Retry-After`, close | retries that multiply, waits without a cap | M |
| Optimiser `optimizer/*` | none | dominance, frontier per collection, merge, truncation, solve | truncation that drops an optimum, budgets and their order | M |
| Live scan `pipeline/live_scan.py` | one client and one registry per scan | fetch, price, solve every shape, gate, requery | a venue failing between any two requests; a request budget; partial evidence | M |
| Discovery `discovery/{sweep,prospects,depth,boundaries}.py` | none | sketch pools, choose components, split, price, estimate | estimates built from estimates; float boundaries | M |
| Item metadata `metadata/*`, `domain/rules.py` | the pinned snapshot and its registry | import, look up, validate, pick the ruleset of a date | entries the import drops, identities that do not resolve, windows of dates | M |
| Venue adapters `adapters/{csfloat,skinport,base,…}.py` | none | page, filter, verify, batch prices | pages that shift between requests, "gone" against "unavailable" | P |
| Domain values `domain/{money,fees,items,mathematics}.py` | none | rounding, fees, wear, probabilities | rounding directions, grids | P |
| Fee rules of the venues | constants | | | – |
| Ledger and inventory `domain/{ledger,inventory}.py` | events; item state | derived ids, realised profit, transitions | nothing outside the tests drives them | – |
| Reporting, CLI, demo; configuration and clock | none | formatting, wiring | | – |

**How they interact.** A scan owns a `ReservationRegistry` (each live scan and
each demo run builds its own) and an `AutoBuyer` shares one with whoever
constructed it. The pipeline calls adapters through awaited capability calls
whose answers are a value or a typed refusal; an exception is a bug of the
adapter and is caught nowhere. Adapters reach their venue through one
`RestClient` each. The batch loads the pinned metadata, sweeps the catalogue
under the haircuts fitted to the record, runs live scans aimed at its leads one
after another, writes one transaction, then calls the order watch, the buyer
(one hit at a time, `asyncio.run`) and the alert. Calibration reads what the
batch wrote and steers the next sweep. The database is the only state two
processes share.

**What makes each correct.**

- *Registry*: a listing has one holder; it changes hands only by being free in
  between; a purchase is not taken away while its claim lasts.
- *Buyer*: nothing is ordered before everything is re-verified; orders stay
  within the budget; no listing is ordered twice; what a call reports is what
  happened, and what it leaves claimed is what it reports; it ends.
- *Scan*: bundles recommended together share no listing and are held; each was
  requeried; a rejected one holds nothing; every candidate is decided once.
- *Gates and valuation*: no figure flatters the contract; a card exists only for
  a bundle every listing of which was found unchanged and claimed; an entry
  target is the greatest spend that clears, and buying at it does clear.
- *Client, adapters, live scan*: attempts are bounded, and so are waits unless
  the venue states a longer one; a refusal closes the client, and so does
  whatever ends a scan that has begun to search; a market nobody could read is not reported as a
  market without deals; what reaches a card was seen on the market.
- *Optimiser*: a solution is made of offered listings, fits its budget, and no
  cheaper one exists (where the frontier was not truncated); a feasible problem
  gets a solution.
- *Discovery and metadata*: an item is what its name and numbers say or is not
  identified at all; a lead is a contract the rules allow, made of what the
  catalogue offers, whose estimate is no better than its parts; the haircut
  follows the evidence and moves only on news.
- *Batch*: leads in a batch are distinct, not seen within the window, and all
  reached in time; what is executed is what was recorded as a hit.
- *Order watch*: exact evidence beats the estimate; each order gets a verdict.
- *Store*: a session is all or nothing, up to columns of its first row that it
  takes to be written already; a listing has one active claim; an
  event once written never changes.

The hazards behind these, each at its line, are in `PROJECT.json`.

**Deployment facts the models follow.** Hits are executed sequentially with one
buyer and the moment of the batch's record; without an injected buyer the batch
builds one with no adapters and an empty registry, so that execution is blocked
by policy. `expire_stale` is called by tests only. No running path supplies the
day's spend or a rarity filter, both of which the interfaces allow and the
models include. Reservation rows in the database are written by tests only.
Claims and candidates both last ten minutes. The depth gate, the sticker cap
and the proportional overhead of an entry target are called by tests only; the
settlement rail is planned by the demo.

## Modules

```
registry and buyer      Leases ◄─refines─ Reservations ─┐
                           ▲                            ├─ ReservationBook
                           └──refines──── AutoBuyer ────┤
scan                                    ScanPipeline ───┘

appraisal               Money ─ Fees ─ ExitPrices ┐
                          │     PartialFill ──────┴─ Evaluation ─ RiskPolicy ┐
                          ├──── Settlement ──────────────────────────────────┤
                          ├──── EntryTarget ─────────────────────────────────┼─ Appraisal ┐
                          └──── StickerPrices ───────────────────────────────┘            ├─ OrderReview
                                                                 OrderWatch ──────────────┘
live scan               RestClient ─ CSFloat ────────┐
                        Floats ──── BundleOptimizer ─┴─ LiveScan

discovery               Registry, Floats, Fees ─ Sweep ┐
                                    Calibration, Depth ┴─ Discovery
batch                   ConfirmBatch
store                   AtomicStore ◄─refines─ DurableStore ─ Tables
```

A line to the right reads "is extended by".

**Leases** is what a reservation promises and nothing of how: one lessee per
listing, and a lease passes to another only through nobody.

**ReservationBook** is the registry's dictionary as a value, with one operator
per method (`Claimed`, `Moved`, `ReleaseOf`, `Expiry`) and per query (`Holder`,
`Conflicts`). A missing dictionary entry is an `UNCLAIMED` one. **Reservations**
owns a book and lets clients call every method in every order, with the moment
they pass moving forward.

**AutoBuyer** is `execute_candidate`. The code between two awaits is one action:
`Execute` is the gate ladder up to the first `verify_listing`; `VerifyReply`,
`SubmitAccepted`/`SubmitRefused` and the three `Reconcile…` actions are the
venue's answers with all the code runs on them, the head of the loop (`Order`)
included; `Interrupt` is an exception at an await. `filled`, `limbo`, `spent`
and `broken` are history the engine never reads: what venues filled, which
orders ended in the unknown, what that cost, which candidates had a call end in
an exception. `ManualReconciliation` is the human the module's docstring calls
for. Calls of two tasks share one book and interleave as the event loop lets
them. The batch that ships runs hits one after another; the coroutine API allows
more, and both are in the runs.

Assumptions about venues (no adapter in the repository buys): a refused
submission placed no order, which is how the code reads it, and a listing that
was sold takes no second order.

**ScanPipeline** is `ScanPipeline.run` from the loop over compositions on.
Enumeration, solving and valuation come as the *plan* of a scan, a sequence of
compositions each with the bundles solved for its float budgets, and as a free
choice of what the economic gates say; every step after that is an action. The
answers of a requery are filed under the listing's id without its venue, as in
the code, and the model lets ids of two venues collide.

**The appraisal group** fills in that free choice. `Money` has the directed
roundings, `Fees` the schedules, `ExitPrices` what one output is worth (the best
of the quick venue and the patient one, age, sample size and confidence
included), `PartialFill` the chance that the purchases of a bundle break off
half-way and what that costs, `Evaluation` the economics of a candidate,
`RiskPolicy` the three gates as the set of reasons each refuses for,
`Settlement` the rail from a sale to the bank, `StickerPrices` the highest
sticker price whose total stays under a cap, `EntryTarget` the bisection. Ratios
are exact pairs of integers, rounded where the code rounds. **Appraisal** runs
them in the code's order for one lead after another: value, evaluate, discovery
gate, requery, final gate, card gate, entry-target search. Each loop iteration
of the bisection is a step. **OrderWatch** is the review of standing orders:
first the ceilings confirmed in this batch, keyed by collection, quality and
wear (not rarity, as in the code), then each order against them or the sweep.
**OrderReview** composes the two: the entry target an appraisal ends with
becomes the ceiling the review reads.

**The live-scan group.** `RestClient` is one `get`: attempts, waits (capped,
jittered by a quarter either way, or what `Retry-After` says) and the refusal it
ends in. `CSFloat` pages listings with it while offers come and go between two
pages, so that the next one repeats a row or misses one, filters rows and
verifies single listings. An offer keeps its price during a fetch: a row that is
repeated is not repriced. `Floats` is wear
arithmetic on a grid on which the rationals of the code are exact.
`BundleOptimizer` is dominance, frontier, merge, truncation and the solver. A
frontier is the set of its points: the lists of the code are sorted by (float,
cost) with ties in the order points were made, and that order is `Precedes`, the
last item of a point or its left part (`rank`) telling ties apart. **LiveScan** is `run_live_scan`: fetch (broad, or per name), ask the reference
venue for output prices within its request budget, solve every shape under every
float budget, gate, requery one by one, close the client, and report. Every
request goes through the client and may fail at each attempt. Its ends are
`refused`, `recorded`, `raised` (an exception once the search has begun, whose
`finally` closes the client) and `escaped`: while the scan gathers, only typed
refusals close the client, and an exception of any other kind leaves
(`Escapes`, when the content of an answer raises; `Start`, when the retry policy
refuses to be built for no attempts at all, which the configuration accepts).

**The discovery group.** `Registry` is the import of the pinned snapshot with its
issues, the lookups and the structural checks, and the dated rulesets. `Sweep`
makes sketches of a catalogue: cells, purchasable components, pure and mixed
splits, outputs and their prices, the estimate with the haircut. `Depth` is the
depth gate. `Calibration` fits a haircut per quality to the recorded pairs.
**Discovery** closes the loop the batch opens: load, sweep under the fitted
haircuts, confirm what the sweep shows at what the market returns, record; the
catalogue and the moment change at will in between.

**ConfirmBatch** is one batch per period. `Sweep` is the part up to the choice
of leads, `Confirm…` one lead with its retry, `Record` the transaction, then the
order review, the executions and the alert. Of the table the next batch reads
only which leads have a row inside the window, so the state across batches is
the age of each lead's last row.

**Tables** gives each repository method as a statement and its effect. A row is
a function on columns. An upsert of a row that is there writes the columns it
assigned another value than it had loaded, by the row's id and without a version
check (`Changed`, `Merged`); the columns in `Stamps` hold instants, which SQLite
returns without their zone and which therefore always differ from what is
assigned. The load of a session that holds the lock is of the very row it
overwrites, so there the outcome is the whole new row. A block upserts a row once
(a second load would be answered from the session's memory), as all blocks of
the program do.
**DurableStore** runs scripts of statements through overlapping sessions: a call
that selects first is two steps with other sessions in between, the first write
takes the one write lock, constraints refuse what came in since the select, and
a session can raise or die anywhere. **AtomicStore** is the promise of
`session()`: a script happens as one step or not at all. The code keeps it with
one limit, which the abstract store names: an upsert that loaded its row before
its session held the lock may write only what differs from a row of the `past`
(`Outdated`), and only if nothing was written before it in the script. Columns
it had loaded with the value it observes then stay as another session has left
them in between. `past`, the rows each commit has left, is history the code does
not keep.

What DurableStore takes from SQLite in WAL mode: one write lock per database,
held to the end of the session; a select before the first write sees committed
data and holds nothing. (pysqlite opens its transaction at the first write.)
Loss of a committed transaction by power failure, which `synchronous=NORMAL`
permits, is not modelled.

`MC…` modules give the constants values; `…Proofs` modules hold theorems. The
mutants named in comments (`Mutant: …`) are faulty variants of a definition,
used to see that a property notices the fault.

## What the runs check

| Run | Instance | Shows |
|---|---|---|
| `reservations` | 2 listings, 3 candidates, ttl 2, 4 ticks | every sequence of calls: the registry implements `Leases` (`KeepsLeases`) and a live purchase stays (`PurchaseIsKept`) |
| `buyer` | 4 listings, 3 candidates of which two overlap, 2 concurrent calls, several settings, one venue without adapter, everything within one ttl | `CallWithinBudget`; `ClaimsFollowCalls` (a bundle is held while it is bought, the book is what the results say); `OneOrderPerListing`; each call ends (`CallsEnd`) |
| `buyer_long` | 2 overlapping candidates, one executed twice, ttl 1, so that claims lapse during calls | what survives expiry: `OutcomesAreTruthful` (nothing ordered unchecked, results tell the truth), `SoftClaimsAreOwned`, `KeepsLeases` |
| `buyer_unreconciled` | one call at a time, time past the ttl | **violated**: `UnreconciledStaysClaimed` |
| `buyer_daily_spend` | one buyer, two candidates | **violated**: `DayWithinBudget` |
| `scan` | 4 listings of two venues with a shared id, 5 overlapping, repeated or ill-defined bundles, cap 2, ttl 1 | `DecisionsAreBacked` (approved bundles disjoint, held, requeried; rejected ones hold nothing), `DecisionsAreComplete` (each candidate once, within the cap and one composition), `ScansEnd` |
| `batch` | 4 leads × 2 variants, 3 boards, top 2, window 1, missed periods, a lead that raises | `LeadsRotate` (distinct leads, nothing seen in the window before what was not), `ExecutionFollowsRecord`, `RotationReachesAll` |
| `store` | 2 interchangeable processes, rows of two columns of which one is an instant, 10 scripts (two scans sharing a candidate, three ingestions of one listing at two prices and three instants, claims, a release, colliding ledger writers) | `OneActiveClaim`, `LedgerIsAppendOnly`, `StoreIsAtomic` (a script is one step, but for the columns an upsert took to be written) |
| `appraisal` | 4 candidates over 2 keys and 2 rarities, 2 fee schedules (one with gaps), 3 conversion quotes, per listing the venue's answers, 2 leads per batch, order lists, boards | `NothingOverstated` (exits, expectation, reserve, rail), `CardIsSound` (worst loss and evidence behind a card), `CapIsExact`, `TargetsAreSafe` (target, return and sticker agree), `VerdictsRestOnEvidence`, `OrdersGetVerdicts` |
| `live_scan` | contracts of 3 inputs over 3 collections, 4 markets (one with unusable rows, one unreadable, one empty), pages of 3 that shift between requests, 3 attempts, frontiers of 1 or 20 points, 7 names in requests of 4, at most 6 budgets per shape | `RequestsAreAccounted` (waits, names, which ends close the client), `ReportIsHonest` (silence is not an outage, cards are live and disjoint), `BundlesAreBest` (exact, optimal, feasible found), `RequestsSettle` |
| `discovery` | 2 qualities, 2 snapshots, 2 rulesets, 5 catalogues (one before any ruleset), 3 sets of listings, histories of 3 pairs with a floor of 2 | `ItemsAreIdentified`, `HaircutsFollowTheRecord`, `LeadsAreBuyable`, `OnlyNewsMoves` |
| `metadata_errors` | the same | **violated**: `ErrorsBlockPromotion` |

Each passing run also checks its module's type invariant.

**Why the bounds suffice.** Conflicts over a listing involve two parties; three
candidates add the one that comes after a release. Two ttls of clock reach: held,
lapsed, claimed anew, lapsed again. Two tasks are the interleaving pair; a
bundle of two has a first, a last, a bought and an unbought listing, and `buyer`
and `buyer_long` split the question by whether time outruns the claim, because
`ClaimsFollowCalls` is about the first case only: past the ttl the code does not
promise it, and `buyer_unreconciled` shows so. The plans of a scan include the
cap reached between and within compositions. Four leads, two per batch and a
window of one make the board exactly as large as a window can cover, the edge at
which an off-by-one loses a lead. Two processes are one overlap; each script
contains at least one statement that can be overtaken. Two columns are enough
for a row to mix two sessions, and three ingestions for the row to have been
there before: one to store it, one to reprice it, one to observe the old price
again. In `appraisal` the
figures lie on both sides of the gates' limits, a fee rule ends at a price, and
the bisection meets headrooms on either side of a step of its overhead. In
`live_scan` three inputs over three collections are the smallest contract with
pure, mixed and infeasible shapes; a frontier of one point is truncated at every
level, one of twenty never; three attempts have a first, a middle and a last;
seven names are more than one request and can be fewer than the wants. In `discovery` three pairs make
an odd and an even middle on either side of the sample floor, and the two
snapshots differ in the entries an import refuses.

Named bounds are constants: `MaxNow` (clock), `CallBound` (executions per
candidate; `MaxCallsOfA` sets it for one), `MaxRows` (history), `MaxAppraised`
(leads of a batch that are appraised), `Window + 1` as the largest age. All other
limits are the code's own.

Times of the HTTP client are eighths of a second, floats hundredths and
normalised floats thousandths: grids on which what the code computes with exact
rationals is exact here as well.

## Fairness and deadlock

- `AutoBuyer`: `WF` of each call's `Reply`. Adapters answer: the HTTP client has
  a timeout and a bounded number of attempts. Nothing makes anyone start a call,
  and `Interrupt` is never obliged.
- `ScanPipeline`: `WF(Step)`. One event loop runs a scan whose adapters answer.
- `ConfirmBatch`: `WF(Sweep \/ Work)`. A scheduler runs the batch every eight
  hours (`tools/run_confirm_batch.ps1`). `RotationReachesAll` holds of behaviours
  in which batches are from some point on neither missed nor lost to an exception,
  and for boards of at most `Top * (Window + 1)` leads; with the deployed three
  leads per batch and 24 hours that is twelve. Beyond it the code promises
  nothing: the best-ranked leads come back before the tail was reached.
- `OrderReview`: `WF(Review)`, a sequential function that runs once the leads are
  confirmed; `OrdersGetVerdicts` therefore asks that confirmations come to an
  end (`[]<>(stage = "idle")`), of which `live_scan` shows its part.
- `LiveScan`: `WF` of the request under way (`Waiting`: the transport answers or
  times out, a sleep ends) and of the coroutine that waits for it (`Resume`).
- `Reservations`, `DurableStore`, `Discovery`: no fairness; no liveness is claimed.

`CHECK_DEADLOCK FALSE` stands where the system may stop: the buyer's calls are
bounded, the store's scripts are all committed, a review ends in its verdicts, a
live scan returns or raises.

## What is proved

TLAPS checks these for every value of the constants: sets of listings and
candidates, bundles, prices, plans, settings, schedules, quotes, ladders of
sources, markets, boards, orders, processes and scripts, and every bound on
clock, calls and caps.

| Module | Theorem | |
|---|---|---|
| `ReservationsProofs` | `TypeCorrect`, `RegistryKeepsLeases`, `PurchaseKept` | the registry is well typed, implements `Leases`, keeps purchases |
| `AutoBuyerProofs` | `TypeCorrect`, `BudgetKept`, `BuyerKeepsLeases` | the buyer is well typed, each call keeps the budget, and the engine implements `Leases` |
| | `OutcomesTruthful`, `SoftClaimsOwned` | a call orders only what it re-checked and reports what happened; no soft claim is left without an owner |
| | `ClaimsFollow`, `OrderedOnce` | within one ttl and with each candidate executed at most once: a call in flight holds its whole bundle, the book says what the results say, no listing is ordered twice |
| `ScanPipelineProofs` | `TypeCorrect`, `DecisionsBacked`, `DecisionsComplete` | approved bundles are disjoint, held and requeried; each candidate is decided once, within the cap |
| `BatchProofs` | `TypeCorrect`, `LeadsRotateAlways`, `ExecutionFollows` | leads are distinct and rotate; what is executed are the recorded hits, in order, after the record |
| | `DiscoveryTypeCorrect`, `ItemsIdentified` | the catalogue the batch sweeps is that of its snapshot; an ambiguous item resolves to none |
| | `HaircutsFollow` | when more than half of a reliable history measured today's market the next estimate is that; fewer than half of a history came in below what its haircut estimates; a lead runs under the fitted haircut |
| | `LeadsBuyable` | every contract the rules allow is sketched at its least cost, and an entry target found deep enough keeps its return |
| | `NewsMoves` | below the sample floor nothing moves a haircut, and a quote that goes improves no lead |
| `LiveScanProofs` | `LiveTypes`, `RequestsAccounted`, `ReportHonest` | waits and names are within their limits, and the client is closed by exactly the scans that end with a refusal, a report or an exception after gathering; silence is not an outage; cards are live and disjoint |
| | `BundlesBest` | every solution is exact; with nothing cut short none one could buy is cheaper in as good bands; whatever fits a budget has a solution, however short frontiers are cut |
| `DurableStoreProofs` | `TypeCorrect`, `AtMostOneActiveClaim`, `EventsAreKept` | two sessions never both hold a listing; committed events never change |
| | `StoreRefines` | overlapping, failing and dying sessions implement `AtomicStore`: a script is one step, except that the first row it writes may keep columns it took to be written already |
| `OrderReviewProofs` | `TypeCorrect`, `CapExact` | the bisection returns the greatest spend that clears |
| | `AppraisalTypes`, `AppraisedCapExact`, `VerdictsRest` | every amount of an appraisal is a whole number of minor units; every appraised cap is exact; no order stands above what was measured for its lead or costs the lead more than its cap |
| | `NothingIsOverstated` (of `ExitsWithinAsks`, `NothingPromised`, `ReserveCovers`, `RiskiestFirst`, `RailPays`) | no exit above an ask, no expectation above its outcomes, a reserve above the expected orphaning, no better order of purchases at one price, a rail that pays itself |
| | `CardSound` | behind an operator card, wherever the purchases break off and whichever outcome comes, the loss is within the limits |
| | `TargetsSafe` (of `EntryAgrees`, `CheaperClear`, `StickerExact`) | target and gate agree, cheaper bundles clear too, the sticker price is the greatest that fits |

*Assumptions* are the named `ASSUME`s of the modules; TLC evaluates each on the
instance of a run. `Nobody` is not a candidate, the ttl is positive, a bundle is
a nonempty sequence of different listings (the candidate's constructor refuses
others), `CostFrom` is the running sum of prices (a recursion over data, so it is
a constant with its defining equation), `NotSupplied` is not a number, `None` is
no process or script, `Stamps` are columns, scripts are sequences of statements
that upsert a row once, a scan's plan
consists of nonempty sequences (`PlanAssumption`), a batch's boards are sequences
of prospects. Of the data of an appraisal they say what the value objects of
`domain/` check or what follows from their units: amounts are whole minor units,
prices and ages are not negative, ratios have positive denominators, shares of
outcomes are positive, survival lies between its floor and its base, what an
orphan still brings is at most its price, a fee rule charges a nonnegative ratio
and fixed part, a final floor lies above -100 % (`IsCandidate`, `IsSchedule`,
`IsQuote` and the `…Assumption`s that cite them). Of discovery they say what a
payload and a catalogue are (`IsEntry`, `StatedOnce`, `IsCatalogue`,
`AreListings`) and what `ProspectPolicy` checks of itself: the pool of fillers is
not empty and the share of unpriced outputs is at most one. Of a live scan, that the
number of attempts is a natural number, zero included, that a venue has an offer
once (`PageAssumption`) and that a usable row has an identity, a cost and a float in its skin's range (`IsItem`: `scan.py:243-264` drops the
others). Nothing is assumed of a sum, an
optimum or an order: that a bundle's cost is whole, that the best exit is one of
the ladder's and that the purchases have one riskiest-first order are lemmas.

Induction over data is done in first-order form. The library's induction
theorems take an operator and cannot be instantiated, but the well-foundedness
of `<` on the naturals can be cited; from it the lemmas `Induction` (a set with 0
closed under successor has every number) and `PickInduction` (a set of finite
sets closed under adding an element has all of them) follow, and a statement is
proved by forming the set of what satisfies it. Recursive functions in a `LET`
are unfolded once per use from their `CHOOSE`.

The lemmas about naturals, finite sums, orders and folds that several proofs
need are in `FoldProofs`; it has no theorem of its own. `BatchProofs` treats the
batch and the discovery loop that feeds it.

*Leases.* `ReservationsProofs`, and `AutoBuyerProofs` for the actions of the
buyer, show of each book operator what it does to the holders: `Claimed` after an empty conflict set is an `Acquire`, everything else
only frees (an operator that keeps every entry's candidate and expiry and makes
no inactive entry active can only turn a holder into nobody). The passing of
time is such a change too. Each action of the registry and of the buyer is then
one of the two, over `TypeOK`.

*Budget.* `CallWithinBudget` alone is not inductive: it says nothing of what is
still to be ordered. The strengthening relates a call's outlay to its position:
spend before the day, plus outlay, plus `CostFrom` of what lies ahead is within
the ceiling (`Fits`), where what lies ahead starts at the position that awaits
submission or after the one that awaits reconciliation (`Ahead`). The gate
establishes it with the whole bundle, an accepted order moves a price from
ahead to outlay, all other steps only end the call.

*Outcomes.* That a finished call's results are true needs to be known of a call
under way: `Told` says of each position before the current one that its result
is on file and matches what the venue did, and of the current one what is still
open. `SoftClaimsAreOwned` is not inductive because it speaks of calls that
returned and not of which call will come to a listing; the strengthening (`Owns`,
`SoftInv`) names, for every soft claim, the call that still has it ahead.

*Claims and orders.* `ClaimsFollow` and `OrderedOnce` hold under `Undisturbed`:
no ttl has passed since the start, and no candidate was executed twice. Neither
half can be dropped: past the ttl the code gives a claim away whatever its state,
and executing a candidate again overwrites its own entries with soft ones
(`buyer_unreconciled` and the list below). The constants of `buyer` make it hold
in every state, so that the run checks the bare properties. `ClaimInv` gives each
position of a bundle under way the state its progress calls for (`Due`), says
which entries are filled or in limbo for good, and that no two calls in flight
are of one candidate. `Undisturbed` once lost stays lost, hence what is proved is
the invariant `Undisturbed => ClaimInv`.

*Scan.* An approved bundle is held because it was claimed when nobody held any of
its listings, and what is filed in a report was claimed by that candidate and
stays so within the scan's one moment; the candidate under way is in no report
yet (`HoldInv`). Disjointness follows: one listing has one holder. The cap is
read where a composition begins, so the place inside the composition bounds by
how much the count can pass it (`CountInv`).

*Batch.* The leads are what a selection keeps of a sequence. Lemmas say what
any such selection returns (an increasing list of positions, each of which was
wanted, none of which was left out before the limit), and `LeadsRotate` follows:
the positions are those of the freshest sketch per lead in rank order, the
unseen ones first. `BatchInv` adds what the executions rest on: the outcomes are
those of a prefix of the leads (`OutcomesFollow`), from the review on the record
is all of them (`RecordIsComplete`), and what was executed is a prefix of the
hits (`ExecutedAreHits`).

*Live scan.* `LiveInv` follows the coroutine through its requests: which purpose
the call under way has at each place (`CallsHavePurpose`), that attempts, waits
and their bounds agree inside a call (`CallInv`), that a fetch which ends without
a row was served none (`FetchInv`), that the names asked for were taken from
the largest wants down while the budget lasted (`PricesWithinBudget`), that
the client is closed by the scans whose end is in `Closing` and by no other
(`ClientIsClosed`), and that as long as
every verdict is a confirmation the listings seen alive are those asked about
(`VerifiedSoFar`). A card is issued only then, and its offers were free of those
held for earlier ones (`CardsAreHeld`).

*The best bundle.* `BundlesBest` needs one invariant of the scan and then only the
operators. `FoundInv`: rows are offers of the venue, and what is solved is
exactly, for every shape and budget the search has passed, what `Solve` returns
for them (`IsSearch`). The rest is what `Solve` promises (`IsSolution`):

- a listing that as many others beat as there are places can be exchanged for one
  of them, so dropping it costs nothing (`PrunedSuffices`, by a choice of least
  float and cost);
- item by item, the frontier has only real selections of what was offered so far
  (`SoundFor`), and for every selection within the budget the sizes that can
  still be completed have a point of no more float and, unless the limit cut
  them, no more cost (`CompleteFor`, `Widened`). Points of one size differ in
  float, so there are never more of them than selections, and a limit at or
  above the number of choices cuts nothing; below it, truncation keeps the least
  float of each size (`TruncatedLeast`), which is why a shape that fits is
  never reported as unfillable;
- folding collections multiplies choices (`Splits`, `Merged`), so one count of
  them bounds every frontier on the way, and that count is at most the number of
  selections one could buy when no offer came twice (`FewChoices`).

Shapes and budgets are listed completely (`CompositionsAre`, `ShapesListed`,
`NumbersAscend`). A selection's tightest budget is below every wear boundary the
selection is below (`Tightest`), so what fits it is in as good bands
(`TightSuffices`). Two facts came out of the proof. The budgets lie `EPSILON` below
the boundaries (`boundaries.py:26-29`), so a bundle whose average is nearer to one
than that fits no budget of its band: the optimum is claimed of all other bundles.
And exactness needs that a venue has an offer once (`PageAssumption`): pages may
repeat a row, but two different offers do not share an identity.

*Store.* What another session read may be stale; what the lock holder sees is
not. The invariant says that the holder's own view extends what is committed:
its rows have one active claim per listing, its ledger contains the committed
one unchanged, and nobody else commits a change, because a commit without the
lock writes back what it reads. Hence a constraint checked against the holder's
view is a constraint on the committed tables.

*Store, refined.* `StoreRefines` maps the committed tables and the set of scripts
done to those of `AtomicStore`. `RefineInv` says of an open session what its
statements so far amount to: with the lock, its view is what the first `pos - 1`
statements make of the committed tables (`Leaves`); without it they changed
nothing, and would change nothing of the tables as they are by now (`Neutral`: a
snapshot that a selection found is still there, since none is ever removed, and
an upsert without columns has nothing to write). An upsert whose columns were
narrowed loaded a row of the `past`, and what stands before it in its script
wrote nothing; that is what `Outdated` asks of the abstract step, and it stays
true because a row once left by a commit stays in `past`. Each script runs in one
session. A commit is then the atomic step of its whole script;
everything else, a failure or a death included, leaves the mapped state alone.

*Discovery.* None of its properties is inductive alone, because each reads
something computed in an earlier step. `DiscoveryInv` says where it comes from:
the registry is the import of the payload (`RegistryInv`), each history is a
finite bag of pairs the loop recorded (`EvidenceInv`), and a board is the sweep
of the catalogue still in `quotes`, under the registry and haircuts of now
(`BoardInv`; a step that changes either clears the board). The rest is about the
operators.

- `ItemsIdentified`: a skin is an entry and one of its collections, and what a row
  identifies is filtered by name, paint, rarity and quality; with the namesakes'
  paints stated and different, only the item's own skins remain.
- `HaircutsFollow`: more than half of a history implies its conservative median or
  less, and no lesser haircut has as many (`MedianIs`); an estimate that was what
  its own haircut makes it implies the haircut that would have hit the
  confirmation (`ImpliedIs`). What half of the pairs say, and what less than half
  can, follow by counting a bag in two parts.
- `LeadsBuyable`: the cheapest `n` of a set are a set of `n` whose greatest is
  exceeded by all others, so no set of `n` costs less (`CheapestIs`). A sketch
  is such a choice per collection; conversely each way to buy a contract has its
  counts on the board, and costs no less. Thinness of one collection only drops
  the counts that collection cannot serve.
- `NewsMoves`: an output's price does not depend on quotes of other names; losing
  one loses a term of a sum of nonnegative terms, and the divisor stays. The
  cheapest inputs are the same because no input's quote is gone.

*Entry targets.* The bisection keeps a lower bound that clears and an upper one
that does not (`Bracketed`); clearing is monotone in the spend because rounding
up is (`FailsUpwards`), so the unit after the answer fails and with it everything
above (`Settled`).

*Verdicts.* `OrderReviewProofs` follows an appraisal stage by stage (`DealInv`:
what is known of the deal; `SearchInv`: the search under way is this deal's), so
that the ceiling filed for a lead, the cap divided by the number of inputs and
rounded down, times the inputs is within the cap. The review keeps, per key, the
lowest of the ceilings it has read (`CeilingsBound`), and confirmations are over
before it begins (`ConfirmedFirst`); an order at or below that is within every
cap. `EntryAgrees` rearranges the return of a bundle into the inequality the
search bisects.

*Appraisal.* `DealInv` makes every figure the one computed from what came
before, so that the rest is about the operators. Types: sums over finite sets of
whole numbers are whole, by the definition of the fold and induction on the set.
`CardSound` reads the gates' reasons backwards: a reason that is absent is a
bound that holds, the greatest exposure bounds each place the purchases can break
off, the worst outcome each outcome. `CheaperClear` uses that the reserve and the
charges of the rail grow with the spend.

- `ReserveCovers`: each part is rounded up, so the reserve is at least the exact
  expectation. The probabilities of failing at each purchase and of completing
  telescope to one, so the expectation is within the worst single failure and the
  reserve exceeds that by at most a unit per purchase.
- `RiskiestFirst`: at one price the loss grows with the position, so the expected
  loss can be summed by parts into the chances of getting as far as each
  position, and these are products of survivals. The product of the first k
  survivals is least when they are the k lowest (`LeastProduct`), which is what
  sorting by risk gives. No permutation is enumerated.
- `RailPays`: `RailInv` keeps that a rail in use was planned for this deal. Each
  of the four roundings goes against the buyer, and the ceiling of the rate pays
  the drag over the planned contracts. The lower bound on the drag needs the fees
  of the way back not to exceed the capital: beyond that the conversion starts
  from a negative amount, for which the volatility haircut of
  `settlement.py:210-212` is a gain, and the drag can fall short of its own fees.
  `RailPaysItself` states this as its hypothesis, and all schedules of the run
  meet it; the other half, that the contracts repay the drag, needs no hypothesis.
- `StickerExact`: between two tiers one rule covers the price, there the cost with
  fees rises with the sticker, so the halving finds the last one that fits; a
  sticker in a gap, or above a segment none of whose prices fits, is excluded
  segment by segment. `AskInv` keeps that an answer is the search's for a schedule.

*Only model-checked*:

- everything temporal under fairness (`CallsEnd`, `ScansEnd`, `RotationReachesAll`,
  `OrdersGetVerdicts`, `RequestsSettle`), which the prover does not reach;
- the three properties a run refutes.

## Where the code and its documents disagree

Shown by a run:

1. `reservations.py:75` — the ttl frees a claim whatever its state, so an order
   whose reconciliation was refused becomes claimable again after ten minutes;
   `auto_buyer.py:26-28` says it stays claimed until a human reconciles it
   (`buyer_unreconciled`).
2. `auto_buyer.py:146` — the spend is the figure the buyer was built with, and
   its own purchases do not advance it; `config.py:53` speaks of a hard daily
   ceiling (`buyer_daily_spend`). A batch with two hits on one buyer is the case.
3. `confirm_batch.py:290`, `live_scan.py:429-430` — the entry points keep the
   registry of an import and drop its issues, and `require_valid()` checks only
   what an imported registry cannot fail; `registry.py:48` says an ERROR "blocks
   promotion. The registry cannot back a purchase decision" (`metadata_errors`).

Visible in the models without a run of their own (a raised scan is a step of
`ScanPipeline`, a raised batch one of `ConfirmBatch`, a mixed row one of
`AtomicStore`, an escaped exception an end of `LiveScan`):

- `repositories.py:103` (candidates: 188): an upsert writes the columns that
  differ from a row loaded before the lock. One ingestion observes a listing at
  the price on record, another commits a dearer price, the first then writes its
  instant and not its price: the row has the instant of one observation and the
  price of the other; `models.py:125` says "An exact listing as observed". The
  ingestions of `store` reach this, and `Outdated` is what permits it.
- `live_scan.py:245`: the client is opened before the retry policy is built,
  which raises for `max_attempts = 0` (`http.py:238`) although `config.py:164`
  accepts `http_max_retries = 0`. This exception, like any but a typed refusal
  while the scan gathers, leaves before the client reaches the caller, so that
  nobody closes it; `live_scan.py:238` says "The caller owns the http client".
  `ClientIsClosed` states exactly which ends close the client; the run has the
  exceptions on an answer, the theorem also the setting of no attempts.
- `contracts.py:226`: a bundle with one asset twice raises out of the scan;
  `docs/security-boundaries.md:98-101` counts duplicates among the reasons that
  reject a candidate.
- `confirm_batch.py:221`: only `LiveScanError` becomes `FAILED`; another
  exception loses the batch unrecorded, and the next one meets the same lead
  first; `confirm_batch.py:3-6` promises a row whatever the outcome.

Noticed while modelling, by component:

- *Scan and registry*: the cap on candidates is read between compositions only,
  so it is overshot (`scan.py:443`; `DecisionsAreComplete` bounds by how much);
  executing a candidate again overwrites its own `PURCHASED` claims with soft
  ones (`reservations.py:108`); reservation rows in the database never expire,
  and only tests write them (`repositories.py:384`).
- *Buyer*: a typed refusal of a submission is read as "no order placed"
  (`auto_buyer.py:276`), which a venue has to guarantee.
- *Gates*: `BELOW_FINAL_ROI` (`policy.py:205`) never decides, because line 145
  applies the discovery bar again and configuration keeps that at or above the
  final one, although the documents call discovery "looser"; the batch's
  `entry_met` uses the final floor, the gate the discovery bar; `policy.py:213`
  compares the magnitude of the worst case, so a sure profit above the limit is
  refused as if it were a loss; the final gate ignores a candidate's expiry
  (`policy.py:125`); fields a venue leaves out count as unchanged (`base.py:88`);
  answers are filed by listing id without the venue; the card gate drops the
  balance check, and `evaluate_final` is called through it only.
- *Valuation*: a conversion whose receipts are negative, that is fees of the way
  back above the capital, turns the volatility haircut into an improvement
  (`settlement.py:210-212`), and the loss then understates the fees; the order "riskiest
  first" is the cheapest only for purchases of one price (`partial_fill.py:139`);
  `confirm_batch.py`'s order lines promise a target under overheads that were
  held at the observed spend.
- *Batch*: the rarity filter is applied after leads are chosen, so leads of other
  rarities can use up every batch (`confirm_batch.py:330`); the alert's text says
  nothing was bought even when a buyer bought (`confirm_batch.py:724`).
- *Calibration and orders*: a haircut fitted to a crash hides the leads that
  would correct it (`calibration.py:166`); orders are matched without their
  rarity (`order_watch.py:94`); one order in a foreign currency whose lead was
  confirmed aborts the review (`order_watch.py:122`).
- *Live scan*: the scan's one fixed moment lets quote-age gates see age zero; jitter
  exceeds `max_delay` by a quarter; cursor pages are not deduplicated, so an
  offer served twice can end the scan with an exception (`contracts.py:226`);
  CSFloat's comment "404 means gone" is applied to every outage and yields
  UNKNOWN (`csfloat.py:462`); a truncated frontier keeps the lowest floats, so it
  can lose the cheapest bundle but no feasible one (`bundle.py:154`); a bundle
  less than 10^-9 below a wear boundary is not looked for, although
  `boundaries.py:64-65` says one "that squeezes under a wear boundary is found".
- *Discovery and metadata*: that a profitable mix needs a cheap side
  (`prospects.py:70-72`) is a heuristic that prunes mixes of two expensive sides;
  an ask one unit higher can lower an output's net by one unit when both
  roundings step; the CLI's `prospects` runs under the configured haircut, not
  the fitted one, and never calls `require_valid`; units of a shared paint count
  once per collection of a mix; which collections are fillers depends on the
  quotes of every collection, so a quote that goes can let in a mix that was not
  looked at; an output whose fee is unknown ends a sketch (`rules`), and when
  that very quote goes the sketch becomes a lead, priced without it
  (`prospects.py`; `NoNewsIsNoGoodNews` excepts both); an item in two collections is refused by the
  identity resolution; a row that states a paint may resolve to a namesake whose
  metadata states none; `NO_COLLECTION` is a warning although `bymykel.py:18`
  says such entries are skipped with an ERROR.

### Hazards covered in part

`PROJECT.json` names, per hazard, the properties that would notice it going
wrong. For these they notice less than the whole, because the code does not
guard against the rest:

- A candidate executed twice overwrites its own purchase (`reservations.py:108`):
  permitted by `PurchaseIsKept`, which is about other candidates. Covered is that
  the second call owns its soft claims and re-checks what it orders.
- A scan that raises (`contracts.py:226`) counts as ended for `ScansEnd` and has
  no report for `DecisionsAreComplete` to speak of.
- The tail of a board larger than the window covers, leads behind a rarity filter
  (`confirm_batch.py:330`) and batches lost to an exception
  (`confirm_batch.py:420`) are outside the hypotheses of `RotationReachesAll`; of
  a lost batch `ExecutionFollowsRecord` shows that it executes nothing.
- An order in a foreign currency (`order_watch.py:122`) is outside the hypothesis
  of `OrdersGetVerdicts`; the key two rarities share (`order_watch.py:94`) is
  covered for leads confirmed in the batch and not for the sweep's estimates.
- Overheads held at the observed spend (`entry_targets.py:306`) are covered for
  bundles bought at or below it (`CheaperBundlesClear`), not for a purchase at a
  cap above it.
- A sure profit refused by its magnitude (`policy.py:213`) and fields a venue
  leaves out (`base.py:88`) are allowed by `CardIsSound`: the first loses no
  money, the second is never a contradiction.
- A `Retry-After` is slept out as stated (`http.py:311`): `PatienceIsBounded`
  limits how often, and `RequestsSettle` needs only that it ends.
- A stale upsert (`repositories.py:90`) may keep columns another session has
  written since, which `StoreIsAtomic` allows; an exception while a scan gathers
  (`live_scan.py:240`) leaves the client open, which `ClientIsClosed` states.
- A fitted haircut that silences a quality (`calibration.py:166`) has no property:
  nothing in the code opens it again.

## Plan

Done: the registry and the buyer (the part that spends money); the scan; the
batch with calibration and the order watch; the store; gates and valuation
(`Appraisal`), composed with the order watch (`OrderReview`); the client, one
venue, the optimiser and the live scan over them; metadata, the sweep and its
calibration loop (`Discovery`). Proofs for the registry, the buyer, the scan, the
batch, discovery, the live scan with its optimiser, the store with its
refinement, the appraisal and the order review: every property of a passing run
that is not a liveness property is a theorem.

Open, in this order:

1. Executions of a batch through the buyer: the day's spend, exceptions of an
   execution, and expiry between record and execution, as a composition of
   `ConfirmBatch` and `AutoBuyer`.
2. Live scans of two processes, each with a registry of its own, over the store.
3. The scan with `Appraisal` in the place of its free choice of gate answers.

## Not modelled

- *Ledger and inventory*: nothing under `src` outside the tests builds a ledger
  or moves an item. The docstring's "every transition produces a ledger event"
  has no counterpart in `transition_to`, and `trade_lock_until` is not consulted;
  a model would describe a protocol no code runs. The one path by which an event
  is stored is a script of `DurableStore`.
- *Venue adapters other than CSFloat and Skinport's batching of names*: parsers
  of payloads; `dmarket.py` has no caller outside its tests.
- *Fee rules of the venues*: a table of constants; the schedules of the runs are
  small ones of the same shape, with and without gaps.
- *Reporting, operator cards, CLI, demo data, configuration loading, the clock,
  migrations*: formatting, wiring and I/O without a decision of the kind checked
  here. Settings enter the models as constants.
- Inside modelled parts: ratios that are only shown (profit per capital day,
  probability of profit, the medians of the calibration report), content hashes,
  the validation of value objects (the types of the data here), the ranking of
  prospects (the boards of `ConfirmBatch` are any order), the wear point of an
  input (fixed at one half in the code), and checks that cannot fire because of
  how their inputs are built (`has_skin` on pools made of registry skins, the
  one-directional membership check after an import).
