------------------------------ MODULE AutoBuyer ------------------------------
(***************************************************************************)
(* The gated auto-buy engine (purchasing/auto_buyer.py) over a shared      *)
(* reservation book.  execute_candidate is a coroutine: what it does       *)
(* between two awaits is one step here, and the venue's answer to each     *)
(* awaited call (verify_listing, create_purchase_intent,                   *)
(* reconcile_execution) is an action, so that calls sharing a book         *)
(* interleave exactly where the event loop lets them.  A call may also end *)
(* in an exception at any await: an adapter raises, the task is cancelled. *)
(*                                                                         *)
(* Whether a venue really moved money is kept in history variables that    *)
(* the engine never reads.                                                 *)
(***************************************************************************)
EXTENDS ReservationBook, Sequences

CONSTANTS Tasks,        \* execute_candidate calls that can be in flight together
          Bundle,       \* the listings of each candidate, in purchase order
          Price,        \* the price each listing was quoted at, minor units
          CostFrom,     \* CostFrom[c][i]: ceiling of c's inputs i..Len
          Adapted,      \* listings on a venue with a configured adapter
          SettingsSet,  \* the configurations considered
          NotSupplied,  \* no daily-spend figure was supplied
          MaxNow,       \* bound on the clock, for TLC
          MayRaise,     \* whether a call can end in an exception at an await
          CallBound     \* bound on the calls of each candidate, for TLC

Size(c) == Len(Bundle[c])
ListingsFrom(c, i) == {Bundle[c][j] : j \in i..Size(c)}

ASSUME BundleAssumption ==
  /\ Bundle \in [Candidate -> Seq(Listing)]
  /\ \A c \in Candidate :
       /\ Size(c) > 0
       /\ \A i, j \in 1..Size(c) : i # j => Bundle[c][i] # Bundle[c][j]

(* CostFrom is the running sum the code takes with money_sum. *)
ASSUME PriceAssumption ==
  /\ Price \in [Listing -> Nat]
  /\ \A c \in Candidate :
       /\ CostFrom[c] \in [1..Size(c) + 1 -> Nat]
       /\ CostFrom[c][Size(c) + 1] = 0
       /\ \A i \in 1..Size(c) :
            CostFrom[c][i] = Price[Bundle[c][i]] + CostFrom[c][i + 1]

(* Settings refuses a spend budget without the execution switch. *)
Settings == {s \in [live: BOOLEAN, spentToday: Nat \cup {NotSupplied}, maxDailySpend: Nat] :
               s.maxDailySpend > 0 => s.live}

ASSUME SettingsAssumption == /\ NotSupplied \notin Nat
                             /\ SettingsSet \subseteq Settings

-----------------------------------------------------------------------------
ExecutionStatus == {"NOT_ATTEMPTED", "BLOCKED_BY_POLICY", "AWAITING_OPERATOR",
                    "SUCCEEDED", "FAILED", "LISTING_GONE", "PRICE_CHANGED"}

(* Mutant: the adapter's own status is reported. *)
RefusalStatusRaw ==
  [r \in {"OPERATOR_ACTION_REQUIRED", "UNSUPPORTED", "POLICY_BLOCKED",
          "SUPPORTED_EXECUTION_DISABLED", "AUTHENTICATION_REQUIRED",
          "RATE_LIMITED", "TEMPORARILY_UNAVAILABLE"} |-> r]

(* The refusals an adapter can type, and how a refused submission is reported. *)
RefusalStatus ==
  [r \in {"OPERATOR_ACTION_REQUIRED", "UNSUPPORTED", "POLICY_BLOCKED",
          "SUPPORTED_EXECUTION_DISABLED", "AUTHENTICATION_REQUIRED",
          "RATE_LIMITED", "TEMPORARILY_UNAVAILABLE"} |->
     CASE r = "OPERATOR_ACTION_REQUIRED" -> "AWAITING_OPERATOR"
       [] r \in {"UNSUPPORTED", "POLICY_BLOCKED", "SUPPORTED_EXECUTION_DISABLED"}
            -> "BLOCKED_BY_POLICY"
       [] OTHER -> "FAILED"]

ListingStatus == {"ACTIVE", "SOLD", "WITHDRAWN", "PRICE_CHANGED", "UNKNOWN"}

(* What verify_listing can answer: a refusal, or a status and a price. *)
Verification == [ok: BOOLEAN, status: ListingStatus, repriced: BOOLEAN]

(* Every listing passes its re-check or names the reason the bundle aborts. *)
Verdict(v) ==
  CASE ~v.ok -> "FAILED"
    [] v.ok /\ v.status \notin {"ACTIVE", "PRICE_CHANGED"} -> "LISTING_GONE"
    [] v.ok /\ (v.status = "PRICE_CHANGED" \/ (v.status = "ACTIVE" /\ v.repriced))
         -> "PRICE_CHANGED"
    [] OTHER -> "PROCEED"

-----------------------------------------------------------------------------
VARIABLES book,         \* ReservationRegistry._by_listing
          now,          \* the moment the next caller passes in
          settings,     \* the buyer's frozen settings and spent_today
          task,         \* the calls: where each awaits, and its results
          calls,        \* how often each candidate was executed (a bound)
          filled,       \* history: listings venues reported bought
          limbo,        \* history: who ordered what without learning the outcome
          spent,        \* history: money moved by reported purchases
          broken        \* history: candidates with a call ended by an exception
history == <<filled, limbo, spent, broken>>
vars == <<book, now, settings, task, calls, history>>

(* bought, unsure, checked and outlay are history too: the positions this  *)
(* call bought, ordered without learning the outcome and found fit, and    *)
(* the price of the orders venues accepted from it.                        *)
NoCall == [pc |-> "idle", cand |-> Nobody, pos |-> 0, results |-> << >>,
           bought |-> {}, unsure |-> {}, checked |-> {}, outlay |-> 0]

Awaiting(t) == task[t].pc \in {"verify", "submit", "reconcile"}
Item(t) == Bundle[task[t].cand][task[t].pos]

Init == /\ book = EmptyBook
        /\ now = 0
        /\ settings \in SettingsSet
        /\ task = [t \in Tasks |-> NoCall]
        /\ calls = [c \in Candidate |-> 0]
        /\ filled = {} /\ limbo = {} /\ spent = 0 /\ broken = {}

-----------------------------------------------------------------------------
(* One status for every intent, one failing intent, and the intents after  *)
(* a failure mid-bundle.                                                   *)
AllResults(c, status) == [i \in 1..Size(c) |-> status]
AbortResults(c, pos, status) ==
  [i \in 1..Size(c) |-> IF i = pos THEN status ELSE "NOT_ATTEMPTED"]
(* Mutant: the loop stops at the failure. *)
PaddedNot(c, results) == results

Padded(c, results) ==
  [i \in 1..Size(c) |-> IF i <= Len(results) THEN results[i] ELSE "NOT_ATTEMPTED"]

(* Mutant: only the order under way is released. *)
ReleasePendingOnly(b, S) ==
  Moved(b, {l \in S : b[l].state = "PURCHASE_PENDING"}, "RELEASED")

(* _release over S: by listing, whoever holds it; purchased ones stay. *)
ReleaseUnbought(b, S) ==
  Moved(b, {l \in S : IsActive(b[l]) /\ b[l].state # "PURCHASED"}, "RELEASED")

(* Mutant: what was spent today is not counted. *)
BlockedWithoutSpent(c) ==
  \/ ~settings.live
  \/ settings.spentToday = NotSupplied
  \/ CostFrom[c][1] > settings.maxDailySpend
  \/ ~(ListingsFrom(c, 1) \subseteq Adapted)

(* The policy rungs that need no venue. *)
BlockedByPolicy(c) ==
  \/ ~settings.live
  \/ settings.spentToday = NotSupplied
  \/ /\ settings.spentToday # NotSupplied
     /\ settings.spentToday + CostFrom[c][1] > settings.maxDailySpend
  \/ ~(ListingsFrom(c, 1) \subseteq Adapted)

(* execute_candidate up to its first await: the gate ladder and the claim. *)
Execute(t, c) ==
  /\ ~Awaiting(t)
  /\ calls[c] < CallBound[c]
  /\ calls' = [calls EXCEPT ![c] = @ + 1]
  /\ \/ /\ BlockedByPolicy(c)
        /\ task' = [task EXCEPT ![t] = [NoCall EXCEPT
                      !.pc = "returned", !.cand = c,
                      !.results = AllResults(c, "BLOCKED_BY_POLICY")]]
        /\ UNCHANGED book
     \/ /\ ~BlockedByPolicy(c)
        /\ Conflicts(book, c, ListingsFrom(c, 1), now) # {}
        /\ task' = [task EXCEPT ![t] = [NoCall EXCEPT
                      !.pc = "returned", !.cand = c,
                      !.results = AllResults(c, "NOT_ATTEMPTED")]]
        /\ UNCHANGED book
     \/ /\ ~BlockedByPolicy(c)
        /\ Conflicts(book, c, ListingsFrom(c, 1), now) = {}
        /\ book' = Claimed(book, c, ListingsFrom(c, 1), now)
        /\ task' = [task EXCEPT ![t] = [NoCall EXCEPT
                      !.pc = "verify", !.cand = c, !.pos = 1]]
  /\ UNCHANGED <<now, settings, history>>

(* The head of the buying loop, on book b and call record r: intent i goes *)
(* PURCHASE_PENDING and is submitted.  transition raises when the claim is *)
(* no longer SOFT_RESERVED.                                                *)
Order(t, b, r, i) ==
  \/ /\ i > Size(r.cand)
     /\ book' = b
     /\ task' = [task EXCEPT ![t] = [r EXCEPT !.pc = "returned"]]
     /\ UNCHANGED broken
  \/ /\ i <= Size(r.cand)
     /\ CanTransition(b[Bundle[r.cand][i]], "PURCHASE_PENDING")
     /\ book' = Moved(b, {Bundle[r.cand][i]}, "PURCHASE_PENDING")
     /\ task' = [task EXCEPT ![t] = [r EXCEPT !.pc = "submit", !.pos = i]]
     /\ UNCHANGED broken
  \/ /\ i <= Size(r.cand)
     /\ ~CanTransition(b[Bundle[r.cand][i]], "PURCHASE_PENDING")
     /\ book' = b
     /\ task' = [task EXCEPT ![t] = [r EXCEPT !.pc = "illegal"]]
     /\ broken' = broken \cup {r.cand}

(* Mutant: one fit listing is enough. *)
OneChecked(c, i) == TRUE

(* i is the last position _reverify has to check. *)
AllChecked(c, i) == i = Size(c)

(* verify_listing answers.  The first unfit listing ends the call with     *)
(* nothing bought and the candidate's claims released; after the last fit  *)
(* one the first intent is submitted.                                      *)
VerifyReply(t) ==
  LET c == task[t].cand
      i == task[t].pos
      r == [task[t] EXCEPT !.checked = @ \cup {i}]
  IN /\ task[t].pc = "verify"
     /\ \E v \in Verification :
          \/ /\ Verdict(v) # "PROCEED"
             /\ book' = ReleaseOf(book, c)
             /\ task' = [task EXCEPT ![t].pc = "returned",
                                     ![t].results = AbortResults(c, i, Verdict(v))]
             /\ UNCHANGED broken
          \/ /\ Verdict(v) = "PROCEED"
             /\ ~AllChecked(c, i)
             /\ task' = [task EXCEPT ![t] = [r EXCEPT !.pos = i + 1]]
             /\ UNCHANGED <<book, broken>>
          \/ /\ Verdict(v) = "PROCEED"
             /\ AllChecked(c, i)
             /\ Order(t, book, r, 1)
     /\ UNCHANGED <<now, settings, calls, filled, limbo, spent>>

(* Mutants: the rest of the bundle is kept; the bundle is claimed afresh   *)
(* and re-checked from the start.                                          *)
SubmitRefusedKeepsRest(t) ==
  /\ task[t].pc = "submit"
  /\ task' = [task EXCEPT ![t].pc = "returned",
                          ![t].results = Padded(task[t].cand, Append(@, "FAILED"))]
  /\ book' = ReleaseUnbought(book, {Item(t)})
  /\ UNCHANGED <<now, settings, calls, history>>
SubmitRefusedRetries(t) ==
  /\ task[t].pc = "submit"
  /\ task' = [task EXCEPT ![t].pc = "verify", ![t].pos = 1]
  /\ book' = Claimed(book, task[t].cand, ListingsFrom(task[t].cand, 1), now)
  /\ UNCHANGED <<now, settings, calls, history>>

(* create_purchase_intent is refused: the listing and the rest of the      *)
(* bundle are released.  A typed refusal means no order was placed.        *)
SubmitRefused(t) ==
  /\ task[t].pc = "submit"
  /\ \E refusal \in DOMAIN RefusalStatus :
       task' = [task EXCEPT ![t].pc = "returned",
                            ![t].results = Padded(task[t].cand,
                                             Append(@, RefusalStatus[refusal]))]
  /\ book' = ReleaseUnbought(book, ListingsFrom(task[t].cand, task[t].pos))
  /\ UNCHANGED <<now, settings, calls, history>>

(* The venue accepts the order; a listing already sold takes no other. *)
SubmitAccepted(t) ==
  /\ task[t].pc = "submit"
  /\ Item(t) \notin filled
  /\ task' = [task EXCEPT ![t].pc = "reconcile", ![t].outlay = @ + Price[Item(t)]]
  /\ UNCHANGED <<book, now, settings, calls, history>>

(* Mutant: an order nobody could reconcile goes with the rest. *)
RestWithOrder(c, i) == ListingsFrom(c, i)

(* What an unreconciled order at position i gives back. *)
Rest(c, i) == ListingsFrom(c, i + 1)

(* reconcile_execution is refused: money may have moved, so this listing   *)
(* stays PURCHASE_PENDING; the rest of the bundle is released.             *)
ReconcileRefused(t) ==
  LET c == task[t].cand
      i == task[t].pos
  IN /\ task[t].pc = "reconcile"
     /\ task' = [task EXCEPT ![t].pc = "returned", ![t].unsure = @ \cup {i},
                             ![t].results = Padded(c, Append(@, "FAILED"))]
     /\ book' = ReleaseUnbought(book, Rest(c, i))
     /\ limbo' = limbo \cup {<<task[t].cand, Item(t)>>}
     /\ UNCHANGED <<now, settings, calls, filled, spent, broken>>

(* The venue reports the purchase: PURCHASED, and on to the next intent.   *)
ReconcileSucceeded(t) ==
  LET i == task[t].pos
      r == [task[t] EXCEPT !.bought = @ \cup {i}, !.results = Append(@, "SUCCEEDED")]
  IN /\ task[t].pc = "reconcile"
     /\ filled' = filled \cup {Item(t)}
     /\ spent' = spent + Price[Item(t)]
     /\ \/ /\ CanTransition(book[Item(t)], "PURCHASED")
           /\ Order(t, Moved(book, {Item(t)}, "PURCHASED"), r, i + 1)
        \/ /\ ~CanTransition(book[Item(t)], "PURCHASED")
           /\ task' = [task EXCEPT ![t] = [r EXCEPT !.pc = "illegal"]]
           /\ broken' = broken \cup {task[t].cand}
           /\ UNCHANGED book
     /\ UNCHANGED <<now, settings, calls, limbo>>

(* The venue reports that the order came to nothing. *)
ReconcileFailed(t) ==
  /\ task[t].pc = "reconcile"
  /\ \E status \in ExecutionStatus \ {"SUCCEEDED"} :
       task' = [task EXCEPT ![t].pc = "returned",
                            ![t].results = Padded(task[t].cand, Append(@, status))]
  /\ book' = ReleaseUnbought(book, ListingsFrom(task[t].cand, task[t].pos))
  /\ UNCHANGED <<now, settings, calls, history>>

(* An exception at an await.  Nothing unwinds the claims; an order under   *)
(* way may or may not have reached the venue.                              *)
Interrupt(t) ==
  /\ MayRaise
  /\ Awaiting(t)
  /\ \E placed \in (CASE task[t].pc = "verify" -> {FALSE}
                      [] task[t].pc = "submit" -> BOOLEAN
                      [] task[t].pc = "reconcile" -> {TRUE}) :
       /\ limbo' = IF placed THEN limbo \cup {<<task[t].cand, Item(t)>>}
                              ELSE limbo
       /\ task' = [task EXCEPT ![t].pc = "raised",
                     ![t].unsure = IF placed THEN @ \cup {task[t].pos} ELSE @]
  /\ broken' = broken \cup {task[t].cand}
  /\ UNCHANGED <<book, now, settings, calls, filled, spent>>

(* A human settles an order whose outcome was never learnt. *)
ManualReconciliation(l) ==
  /\ <<book[l].cand, l>> \in limbo
  /\ book[l].state = "PURCHASE_PENDING"
  /\ limbo' = limbo \ {<<book[l].cand, l>>}
  /\ \/ /\ book' = Moved(book, {l}, "PURCHASED")
        /\ filled' = filled \cup {l}
        /\ spent' = spent + Price[l]
     \/ /\ book' = Moved(book, {l}, "RELEASED")
        /\ UNCHANGED <<filled, spent>>
  /\ UNCHANGED <<now, settings, task, calls, broken>>

(* The callers' clock moves on. *)
Tick == /\ now < MaxNow
        /\ now' = now + 1
        /\ UNCHANGED <<book, settings, task, calls, history>>

Reply(t) == \/ VerifyReply(t)
            \/ SubmitRefused(t) \/ SubmitAccepted(t)
            \/ ReconcileRefused(t) \/ ReconcileSucceeded(t) \/ ReconcileFailed(t)

Next == \/ \E t \in Tasks :
             \/ \E c \in Candidate : Execute(t, c)
             \/ Reply(t)
             \/ Interrupt(t)
        \/ \E l \in Listing : ManualReconciliation(l)
        \/ Tick

(* Adapters answer every awaited call: their HTTP client has a timeout and *)
(* a bounded number of attempts.                                           *)
Fairness == \A t \in Tasks : WF_vars(Reply(t))

Spec == Init /\ [][Next]_vars /\ Fairness

-----------------------------------------------------------------------------
Pc == {"idle", "verify", "submit", "reconcile", "returned", "raised", "illegal"}
Positions == Nat

Call == [pc: Pc, cand: Candidate \cup {Nobody}, pos: Nat,
         results: Seq(ExecutionStatus),
         bought: SUBSET Positions, unsure: SUBSET Positions,
         checked: SUBSET Positions, outlay: Nat]

(* Type correctness; a call that awaits has a candidate and a position in  *)
(* its bundle.                                                             *)
TypeOK == /\ book \in Book
          /\ now \in Nat
          /\ settings \in Settings
          /\ task \in [Tasks -> Call]
          /\ \A t \in Tasks :
               Awaiting(t) => /\ task[t].cand \in Candidate
                              /\ task[t].pos \in 1..Size(task[t].cand)
          /\ calls \in [Candidate -> Nat]
          /\ filled \subseteq Listing
          /\ limbo \subseteq Candidate \X Listing
          /\ spent \in Nat
          /\ broken \subseteq Candidate

(* Venues never accept orders from one call beyond what the gate ladder    *)
(* left of the day's budget, whatever is re-priced, refused or raised      *)
(* between the check and the last order.                                   *)
CallWithinBudget ==
  \A t \in Tasks :
    task[t].outlay > 0 =>
      /\ settings.live
      /\ settings.spentToday # NotSupplied
      /\ settings.spentToday + task[t].outlay <= settings.maxDailySpend

(* No order leaves before every listing of the bundle passed its re-check  *)
(* in the same call: gone or repriced means nothing is bought at all.      *)
NothingOrderedUnchecked ==
  \A t \in Tasks :
    task[t].pc = "submit" \/ task[t].bought \cup task[t].unsure # {} =>
      task[t].checked = 1..Size(task[t].cand)

(* What a call returns is what happened: one result per intent, SUCCEEDED  *)
(* exactly for the purchases, which are a prefix of the bundle; an order   *)
(* of unknown outcome is the next one, reported FAILED; everything after   *)
(* it was not attempted.                                                   *)
Truthful(r) ==
  /\ Len(r.results) = Size(r.cand)
  /\ \E k \in 0..Size(r.cand) :
       /\ r.bought = 1..k
       /\ \A i \in 1..Size(r.cand) : r.results[i] = "SUCCEEDED" <=> i <= k
       /\ \A i \in r.unsure : i = k + 1 /\ r.results[i] = "FAILED"
       /\ k > 0 => \A i \in k + 2..Size(r.cand) : r.results[i] = "NOT_ATTEMPTED"

ResultsTellTheTruth == \A t \in Tasks : task[t].pc = "returned" => Truthful(task[t])

(* What a call did and what it says agree: it ordered only what passed the *)
(* re-check and reports what became of it.                                 *)
OutcomesAreTruthful == NothingOrderedUnchecked /\ ResultsTellTheTruth

(* A soft claim is never left behind by a call that returned: its          *)
(* candidate has a call in flight, or one that ended in an exception.      *)
SoftClaimsAreOwned ==
  \A l \in Listing :
    book[l].state = "SOFT_RESERVED" =>
      \/ book[l].cand \in broken
      \/ \E t \in Tasks : Awaiting(t) /\ task[t].cand = book[l].cand

(* While a call is in flight its bundle stays claimed, each listing in the *)
(* state its progress calls for: bought behind, pending at, soft ahead.    *)
BundleHeldInFlight ==
  \A t \in Tasks :
    Awaiting(t) =>
      \A i \in 1..Size(task[t].cand) :
        LET l == Bundle[task[t].cand][i]
        IN /\ Holder(book, l, now) = task[t].cand
           /\ book[l].state =
                IF task[t].pc = "verify" \/ i > task[t].pos THEN "SOFT_RESERVED"
                ELSE IF i = task[t].pos THEN "PURCHASE_PENDING" ELSE "PURCHASED"

(* What the book says after a call returned agrees with what it reported:  *)
(* purchases are PURCHASED, the order nobody could reconcile is still      *)
(* PURCHASE_PENDING, and the candidate holds nothing else.                 *)
BookMatchesOutcome ==
  \A t \in Tasks :
    task[t].pc = "returned" =>
      \A i \in 1..Size(task[t].cand) :
        LET l == Bundle[task[t].cand][i]
            mine == book[l].cand = task[t].cand
        IN /\ i \in task[t].bought => mine /\ book[l].state = "PURCHASED"
           /\ i \in task[t].unsure /\ <<task[t].cand, l>> \in limbo
                => mine /\ book[l].state = "PURCHASE_PENDING"
           /\ i \notin task[t].bought \cup task[t].unsure
                => ~(mine /\ IsActive(book[l]))

(* The claims of a bundle follow its call while it is in flight and agree  *)
(* with its results once it returned.                                      *)
ClaimsFollowCalls == BundleHeldInFlight /\ BookMatchesOutcome

(* A listing is ordered once: no two calls have it at a venue together,    *)
(* and none has it while an earlier order awaits a human or is filled.     *)
OneOrderPerListing ==
  \A t \in Tasks :
    task[t].pc \in {"submit", "reconcile"} =>
      /\ Item(t) \notin filled
      /\ \A c \in Candidate : <<c, Item(t)>> \notin limbo
      /\ \A u \in Tasks \ {t} :
           task[u].pc \in {"submit", "reconcile"} => Item(u) # Item(t)

holding == [l \in Listing |-> Holder(book, l, now)]
L == INSTANCE Leases WITH lease <- holding

(* The engine's mixture of claims, transitions by listing, releases and    *)
(* abandoned claims still never passes a listing from one candidate to     *)
(* another without it being free in between.                               *)
KeepsLeases == L!Spec

(* A call that was started ends: adapters answer, and there is only so     *)
(* much of a bundle to check and buy.                                      *)
CallsEnd == \A t \in Tasks : Awaiting(t) ~> ~Awaiting(t)

-----------------------------------------------------------------------------
(* The module's own claim (auto_buyer.py:26-28): a listing whose order     *)
(* could not be reconciled stays claimed until a human reconciles it.      *)
UnreconciledStaysClaimed ==
  \A order \in limbo : Holder(book, order[2], now) = order[1]

(* The claim of config.py:53, "Hard daily spend ceiling", and of            *)
(* auto_buyer.py:10-12: what the engine bought today, with what was spent  *)
(* before it, stays within max_daily_spend.                                *)
DayWithinBudget ==
  spent > 0 => settings.spentToday + spent <= settings.maxDailySpend
=============================================================================
