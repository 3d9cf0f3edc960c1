-------------------------- MODULE AutoBuyerProofs ---------------------------
(***************************************************************************)
(* What the buying engine keeps whatever the bundles, prices and settings, *)
(* however many calls share the book, however often each candidate is      *)
(* executed and however far time moves: its types, the budget, the leases, *)
(* the truth of its reports and the owners of soft claims; and, within one *)
(* ttl, the claims of every bundle and one order per listing.              *)
(***************************************************************************)
EXTENDS AutoBuyer, TLAPS

-----------------------------------------------------------------------------
(* What the operations on a book of reservations preserve. *)

(* Claiming, moving claims and the state rules all yield well-formed books. *)
LEMMA ClaimedIsBook ==
  ASSUME NEW b \in Book, NEW c \in Candidate, NEW S \in SUBSET Listing, NEW t \in Nat
  PROVE  Claimed(b, c, S, t) \in Book
  BY BookAssumption DEF Claimed, Book, Reservation, ReservationState

LEMMA MovedIsBook ==
  ASSUME NEW b \in Book, NEW S, NEW target \in ReservationState
  PROVE  Moved(b, S, target) \in Book
  BY DEF Moved, Book, Reservation

(* A legal target is a state, is never UNCLAIMED or SOFT_RESERVED, and is   *)
(* not reached from UNCLAIMED or from PURCHASED.                            *)
LEMMA LegalTargets ==
  ASSUME NEW r \in Reservation, NEW target, CanTransition(r, target)
  PROVE  /\ target \in ReservationState \ {"UNCLAIMED", "SOFT_RESERVED"}
         /\ r.state \in {"SOFT_RESERVED", "PURCHASE_PENDING"}
  <1>1. r.state \in ReservationState \ {"UNCLAIMED"} /\ target \in Transitions[r.state]
    BY DEF CanTransition, Reservation
  <1>2. CASE r.state = "SOFT_RESERVED"
    BY <1>1, <1>2 DEF Transitions, ReservationState
  <1>3. CASE r.state = "PURCHASE_PENDING"
    BY <1>1, <1>3 DEF Transitions, ReservationState
  <1>4. CASE r.state \notin {"SOFT_RESERVED", "PURCHASE_PENDING"}
    BY <1>1, <1>4 DEF Transitions, ReservationState
  <1>5. QED
    BY <1>2, <1>3, <1>4

(* A fresh claim holds what it claims and nothing else changes hands.       *)
LEMMA ClaimHolders ==
  ASSUME NEW b \in Book, NEW c \in Candidate, NEW S \in SUBSET Listing, NEW t \in Nat
  PROVE  \A l \in Listing :
           Holder(Claimed(b, c, S, t), l, t) = IF l \in S THEN c ELSE Holder(b, l, t)
  BY BookAssumption DEF Claimed, Holder, IsActive, ActiveStates, IsExpired, Book, Reservation

(* Moving live claims of S to any state leaves them with their holder or    *)
(* frees them, and leaves every other listing with its holder.              *)
LEMMA MovedHolders ==
  ASSUME NEW b \in Book, NEW S, NEW target, NEW t \in Nat,
         \A l \in S \cap Listing : IsActive(b[l])
  PROVE  \A l \in Listing :
           Holder(Moved(b, S, target), l, t) \in {Holder(b, l, t), Nobody}
  BY DEF Moved, Holder, IsActive, IsExpired, Book, Reservation

(* The passing of time only frees listings.                                 *)
LEMMA TimeFrees ==
  ASSUME NEW b \in Book, NEW t \in Nat
  PROVE  \A l \in Listing : Holder(b, l, t + 1) \in {Holder(b, l, t), Nobody}
  BY DEF Holder, IsExpired, Book, Reservation

(* A bundle's positions index listings, and results built from statuses are *)
(* sequences of statuses.                                                   *)
LEMMA BundleListings ==
  ASSUME NEW c \in Candidate
  PROVE  /\ Size(c) \in Nat \ {0}
         /\ \A i \in 1..Size(c) : Bundle[c][i] \in Listing
         /\ \A i \in Nat \ {0} : ListingsFrom(c, i) \in SUBSET Listing
  BY BundleAssumption DEF Size, ListingsFrom

LEMMA ResultsAreStatuses ==
  ASSUME NEW c \in Candidate, NEW s \in ExecutionStatus, NEW i
  PROVE  /\ AllResults(c, s) \in Seq(ExecutionStatus)
         /\ AbortResults(c, i, s) \in Seq(ExecutionStatus)
         /\ \A rs \in Seq(ExecutionStatus) :
              /\ Append(rs, s) \in Seq(ExecutionStatus)
              /\ Padded(c, Append(rs, s)) \in Seq(ExecutionStatus)
  <1>1. Size(c) \in Nat
    BY BundleListings
  <1>2. \A rs \in Seq(ExecutionStatus) : Append(rs, s) \in Seq(ExecutionStatus)
    OBVIOUS
  <1>3. "NOT_ATTEMPTED" \in ExecutionStatus
    BY DEF ExecutionStatus
  <1>4. /\ AllResults(c, s) \in [1..Size(c) -> ExecutionStatus]
        /\ AbortResults(c, i, s) \in [1..Size(c) -> ExecutionStatus]
    BY <1>3 DEF AllResults, AbortResults
  <1>5. ASSUME NEW q \in Seq(ExecutionStatus)
        PROVE  Padded(c, q) \in [1..Size(c) -> ExecutionStatus]
    BY <1>1, <1>3, <1>5 DEF Padded
  <1>6. [1..Size(c) -> ExecutionStatus] \subseteq Seq(ExecutionStatus)
    BY <1>1
  <1>7. QED
    BY <1>2, <1>4, <1>5, <1>6

LEMMA ReleasesAreBooks ==
  ASSUME NEW b \in Book, NEW S, NEW c
  PROVE  ReleaseUnbought(b, S) \in Book /\ ReleaseOf(b, c) \in Book
  BY MovedIsBook DEF ReleaseUnbought, ReleaseOf, ReservationState

LEMMA VerdictIsStatus ==
  \A v \in Verification : Verdict(v) # "PROCEED" => Verdict(v) \in ExecutionStatus
  BY DEF Verdict, ExecutionStatus, Verification, ListingStatus

LEMMA RefusalIsStatus ==
  \A r \in DOMAIN RefusalStatus : RefusalStatus[r] \in ExecutionStatus
  BY DEF RefusalStatus, ExecutionStatus

-----------------------------------------------------------------------------
(* The part of TypeOK the calls and the book make up.                       *)
CallsOK == /\ book \in Book
           /\ task \in [Tasks -> Call]
           /\ \A t \in Tasks :
                Awaiting(t) => /\ task[t].cand \in Candidate
                               /\ task[t].pos \in 1..Size(task[t].cand)
           /\ broken \subseteq Candidate

(* Replacing one call record by a well-formed one keeps the calls sound.    *)
LEMMA OneCallChanges ==
  ASSUME TypeOK, NEW t \in Tasks, NEW r \in Call,
         r.pc \in {"verify", "submit", "reconcile"}
           => r.cand \in Candidate /\ r.pos \in 1..Size(r.cand),
         task' = [task EXCEPT ![t] = r], book' \in Book, broken' \subseteq Candidate
  PROVE  CallsOK'
  BY DEF TypeOK, CallsOK, Awaiting

LEMMA OrderKeepsCalls ==
  ASSUME TypeOK, NEW t \in Tasks, NEW b \in Book, NEW r \in Call, NEW i \in Nat \ {0},
         r.cand \in Candidate, Order(t, b, r, i)
  PROVE  CallsOK'
  <1> USE DEF Call, Pc
  <1>1. CASE i > Size(r.cand)
    <2>1. /\ task' = [task EXCEPT ![t] = [r EXCEPT !.pc = "returned"]]
          /\ book' = b /\ broken' = broken
      BY <1>1, BundleListings DEF Order
    <2>2. QED
      BY <2>1, OneCallChanges DEF TypeOK
  <1>2. CASE i <= Size(r.cand) /\ CanTransition(b[Bundle[r.cand][i]], "PURCHASE_PENDING")
    <2>1. /\ task' = [task EXCEPT ![t] = [r EXCEPT !.pc = "submit", !.pos = i]]
          /\ book' = Moved(b, {Bundle[r.cand][i]}, "PURCHASE_PENDING") /\ broken' = broken
      BY <1>2, BundleListings DEF Order
    <2>2. book' \in Book
      BY <2>1, MovedIsBook DEF ReservationState
    <2>3. i \in 1..Size(r.cand)
      BY <1>2, BundleListings
    <2>4. QED
      BY <2>1, <2>2, <2>3, OneCallChanges DEF TypeOK
  <1>3. CASE i <= Size(r.cand) /\ ~CanTransition(b[Bundle[r.cand][i]], "PURCHASE_PENDING")
    <2>1. /\ task' = [task EXCEPT ![t] = [r EXCEPT !.pc = "illegal"]]
          /\ book' = b /\ broken' = broken \cup {r.cand}
      BY <1>3, BundleListings DEF Order
    <2>2. QED
      BY <2>1, OneCallChanges DEF TypeOK
  <1>4. QED
    BY <1>1, <1>2, <1>3, BundleListings

(* An awaiting call, spelled out. *)
LEMMA AwaitingCall ==
  ASSUME TypeOK, NEW t \in Tasks, Awaiting(t)
  PROVE  /\ task[t] \in Call
         /\ task[t].cand \in Candidate
         /\ task[t].pos \in 1..Size(task[t].cand)
         /\ Item(t) \in Listing
         /\ Price[Item(t)] \in Nat
  BY BundleListings, PriceAssumption DEF TypeOK, Item

-----------------------------------------------------------------------------
LEMMA ExecuteKeepsTypes ==
  ASSUME TypeOK, NEW t \in Tasks, NEW c \in Candidate, Execute(t, c)
  PROVE  TypeOK'
  <1> USE DEF Call, Pc, NoCall
  <1>1. calls' \in [Candidate -> Nat]
    BY DEF Execute, TypeOK
  <1>2. CallsOK'
    <2>1. ASSUME NEW s \in ExecutionStatus,
                 task' = [task EXCEPT ![t] = [NoCall EXCEPT
                            !.pc = "returned", !.cand = c, !.results = AllResults(c, s)]],
                 book' = book
          PROVE  CallsOK'
      <3>1. AllResults(c, s) \in Seq(ExecutionStatus)
        BY ResultsAreStatuses
      <3>2. broken' = broken
        BY DEF Execute, history
      <3>3. QED
        BY <2>1, <3>1, <3>2, OneCallChanges DEF TypeOK
    <2>2. ASSUME book' = Claimed(book, c, ListingsFrom(c, 1), now),
                 task' = [task EXCEPT ![t] = [NoCall EXCEPT
                            !.pc = "verify", !.cand = c, !.pos = 1]]
          PROVE  CallsOK'
      <3>1. book' \in Book /\ broken' = broken
        <4>1. ListingsFrom(c, 1) \in SUBSET Listing
          BY BundleListings
        <4>2. book' \in Book
          BY <2>2, <4>1, ClaimedIsBook DEF TypeOK
        <4>3. QED
          BY <4>2 DEF Execute, history
      <3>2. 1 \in 1..Size(c)
        BY BundleListings
      <3>3. [NoCall EXCEPT !.pc = "verify", !.cand = c, !.pos = 1] \in Call
        <4>1. << >> \in Seq(ExecutionStatus)
          OBVIOUS
        <4>2. QED
          BY <4>1
      <3>4. QED
        BY <2>2, <3>1, <3>2, <3>3, OneCallChanges DEF TypeOK
    <2>3. QED
      BY <2>1, <2>2 DEF Execute, ExecutionStatus
  <1>3. QED
    BY <1>1, <1>2 DEF TypeOK, CallsOK, Execute, history

LEMMA VerifyKeepsTypes ==
  ASSUME TypeOK, NEW t \in Tasks, VerifyReply(t)
  PROVE  TypeOK'
  <1> USE DEF Call, Pc
  <1> DEFINE c == task[t].cand
             i == task[t].pos
             r == [task[t] EXCEPT !.checked = @ \cup {i}]
  <1>1. Awaiting(t)
    BY DEF VerifyReply, Awaiting
  <1>2. /\ task[t] \in Call /\ c \in Candidate
        /\ i \in 1..Size(c) /\ r \in Call /\ r.cand = c
    BY <1>1, AwaitingCall, BundleListings DEF Positions
  <1>3. PICK v \in Verification :
          \/ /\ Verdict(v) # "PROCEED"
             /\ book' = ReleaseOf(book, c)
             /\ task' = [task EXCEPT ![t].pc = "returned",
                                     ![t].results = AbortResults(c, i, Verdict(v))]
             /\ UNCHANGED broken
          \/ /\ Verdict(v) = "PROCEED"
             /\ i < Size(c)
             /\ task' = [task EXCEPT ![t] = [r EXCEPT !.pos = i + 1]]
             /\ UNCHANGED <<book, broken>>
          \/ /\ Verdict(v) = "PROCEED"
             /\ i = Size(c)
             /\ Order(t, book, r, 1)
    BY <1>2, BundleListings DEF VerifyReply, AllChecked
  <1>4. CASE Verdict(v) # "PROCEED"
    <2>1. AbortResults(c, i, Verdict(v)) \in Seq(ExecutionStatus)
      BY <1>2, <1>4, VerdictIsStatus, ResultsAreStatuses DEF TypeOK
    <2>2. task' = [task EXCEPT ![t] = [task[t] EXCEPT !.pc = "returned",
                                  !.results = AbortResults(c, i, Verdict(v))]]
      BY <1>3, <1>4
    <2>3. book' \in Book /\ broken' = broken
      <3>1. book' = ReleaseOf(book, c) /\ broken' = broken
        BY <1>3, <1>4
      <3>2. QED
        BY <3>1, ReleasesAreBooks DEF TypeOK
    <2>4. CallsOK'
      BY <1>2, <2>1, <2>2, <2>3, OneCallChanges DEF TypeOK
    <2>5. QED
      BY <2>4 DEF TypeOK, CallsOK, VerifyReply
  <1>5. CASE Verdict(v) = "PROCEED" /\ i < Size(c)
    <2>1. task' = [task EXCEPT ![t] = [r EXCEPT !.pos = i + 1]] /\ UNCHANGED <<book, broken>>
      BY <1>3, <1>5, BundleListings, <1>2
    <2>2. i + 1 \in 1..Size(c)
      BY <1>2, <1>5, BundleListings
    <2> HIDE DEF r
    <2>3. /\ [r EXCEPT !.pos = i + 1] \in Call
          /\ [r EXCEPT !.pos = i + 1].cand = c
          /\ [r EXCEPT !.pos = i + 1].pos = i + 1
      <3>1. i + 1 \in Nat
        BY <2>2, BundleListings
      <3>2. QED
        BY <1>2, <3>1
    <2>4. CallsOK'
      BY <1>2, <2>1, <2>2, <2>3, OneCallChanges DEF TypeOK
    <2>5. QED
      BY <2>4 DEF TypeOK, CallsOK, VerifyReply
  <1>6. CASE Verdict(v) = "PROCEED" /\ i = Size(c)
    <2>1. Order(t, book, r, 1)
      BY <1>3, <1>6, <1>2
    <2> HIDE DEF r
    <2>2. book \in Book /\ 1 \in Nat \ {0}
      BY DEF TypeOK
    <2>3. CallsOK'
      BY <1>2, <2>1, <2>2, OrderKeepsCalls
    <2>4. QED
      BY <2>3 DEF TypeOK, CallsOK, VerifyReply
  <1>7. QED
    BY <1>2, <1>4, <1>5, <1>6, BundleListings

LEMMA SubmitKeepsTypes ==
  ASSUME TypeOK, NEW t \in Tasks, SubmitRefused(t) \/ SubmitAccepted(t)
  PROVE  TypeOK'
  <1> USE DEF Call, Pc
  <1>1. Awaiting(t)
    BY DEF SubmitRefused, SubmitAccepted, Awaiting
  <1>2. CASE SubmitRefused(t)
    <2>1. PICK refusal \in DOMAIN RefusalStatus :
            task' = [task EXCEPT ![t] = [task[t] EXCEPT !.pc = "returned",
                       !.results = Padded(task[t].cand, Append(@, RefusalStatus[refusal]))]]
      BY <1>2 DEF SubmitRefused
    <2>2. Padded(task[t].cand, Append(task[t].results, RefusalStatus[refusal]))
            \in Seq(ExecutionStatus)
      BY <1>1, AwaitingCall, RefusalIsStatus, ResultsAreStatuses
    <2>3. book' \in Book /\ broken' = broken
      BY <1>2, ReleasesAreBooks DEF SubmitRefused, TypeOK, history
    <2>4. CallsOK'
      BY <1>1, AwaitingCall, <2>1, <2>2, <2>3, OneCallChanges DEF TypeOK
    <2>5. QED
      BY <1>2, <2>4 DEF TypeOK, CallsOK, SubmitRefused, history
  <1>3. CASE SubmitAccepted(t)
    <2>1. task' = [task EXCEPT ![t] = [task[t] EXCEPT !.pc = "reconcile",
                                             !.outlay = @ + Price[Item(t)]]]
      BY <1>3 DEF SubmitAccepted
    <2> DEFINE r == [task[t] EXCEPT !.pc = "reconcile", !.outlay = @ + Price[Item(t)]]
    <2>2. /\ r \in Call /\ r.cand = task[t].cand /\ r.pos = task[t].pos
      <3>1. task[t] \in Call /\ Price[Item(t)] \in Nat
        BY <1>1, AwaitingCall
      <3>2. task[t].outlay + Price[Item(t)] \in Nat
        BY <3>1
      <3>3. QED
        BY <3>1, <3>2
    <2>3. book' \in Book /\ broken' \subseteq Candidate
      BY <1>3 DEF TypeOK, SubmitAccepted, history
    <2> HIDE DEF r
    <2>4. CallsOK'
      BY <1>1, AwaitingCall, <2>1, <2>2, <2>3, OneCallChanges DEF r
    <2>5. QED
      BY <1>3, <2>4 DEF TypeOK, CallsOK, SubmitAccepted, history
  <1>4. QED
    BY <1>2, <1>3

LEMMA ReconcileKeepsTypes ==
  ASSUME TypeOK, NEW t \in Tasks,
         ReconcileRefused(t) \/ ReconcileSucceeded(t) \/ ReconcileFailed(t)
  PROVE  TypeOK'
  <1> USE DEF Call, Pc, Positions
  <1> DEFINE c == task[t].cand
             i == task[t].pos
  <1>1. Awaiting(t)
    BY DEF ReconcileRefused, ReconcileSucceeded, ReconcileFailed, Awaiting
  <1>2. /\ task[t] \in Call /\ c \in Candidate /\ i \in 1..Size(c)
        /\ Item(t) \in Listing /\ Price[Item(t)] \in Nat
    BY <1>1, AwaitingCall
  <1>3. CASE ReconcileRefused(t)
    <2>1. Padded(c, Append(task[t].results, "FAILED")) \in Seq(ExecutionStatus)
      BY <1>2, ResultsAreStatuses DEF ExecutionStatus
    <2>2. task' = [task EXCEPT ![t] = [task[t] EXCEPT !.pc = "returned",
                     !.unsure = @ \cup {i},
                     !.results = Padded(c, Append(@, "FAILED"))]]
      BY <1>3 DEF ReconcileRefused
    <2>3. book' \in Book /\ broken' = broken
      BY <1>3, ReleasesAreBooks DEF ReconcileRefused, TypeOK
    <2>4. CallsOK'
      BY <1>2, <2>1, <2>2, <2>3, BundleListings, OneCallChanges DEF TypeOK
    <2>5. limbo' \subseteq Candidate \X Listing
      BY <1>2, <1>3 DEF ReconcileRefused, TypeOK
    <2>6. QED
      BY <1>3, <2>4, <2>5 DEF TypeOK, CallsOK, ReconcileRefused
  <1>4. CASE ReconcileSucceeded(t)
    <2> DEFINE r == [task[t] EXCEPT !.bought = @ \cup {i},
                                    !.results = Append(@, "SUCCEEDED")]
    <2>1. r \in Call /\ r.cand = c
      BY <1>2, BundleListings, ResultsAreStatuses DEF ExecutionStatus
    <2>2. CallsOK'
      <3>1. CASE Order(t, Moved(book, {Item(t)}, "PURCHASED"), r, i + 1)
        <4>1. Moved(book, {Item(t)}, "PURCHASED") \in Book
          BY MovedIsBook DEF TypeOK, ReservationState
        <4>2. i + 1 \in Nat \ {0}
          BY <1>2, BundleListings
        <4>3. QED
          BY <1>2, <2>1, <3>1, <4>1, <4>2, OrderKeepsCalls
      <3>2. CASE /\ task' = [task EXCEPT ![t] = [r EXCEPT !.pc = "illegal"]]
                 /\ broken' = broken \cup {c}
                 /\ UNCHANGED book
        BY <1>2, <2>1, <3>2, OneCallChanges DEF TypeOK
      <3>3. QED
        BY <1>4, <3>1, <3>2 DEF ReconcileSucceeded
    <2>3. filled' \subseteq Listing /\ spent' \in Nat
      BY <1>2, <1>4 DEF TypeOK, ReconcileSucceeded
    <2>4. UNCHANGED <<now, settings, calls, limbo>>
      BY <1>4 DEF ReconcileSucceeded
    <2>5. QED
      BY <2>2, <2>3, <2>4 DEF TypeOK, CallsOK
  <1>5. CASE ReconcileFailed(t)
    <2>1. PICK status \in ExecutionStatus :
            task' = [task EXCEPT ![t] = [task[t] EXCEPT !.pc = "returned",
                       !.results = Padded(c, Append(@, status))]]
      BY <1>5 DEF ReconcileFailed
    <2>2. Padded(c, Append(task[t].results, status)) \in Seq(ExecutionStatus)
      BY <1>2, ResultsAreStatuses
    <2>3. book' \in Book /\ broken' = broken
      BY <1>5, ReleasesAreBooks DEF ReconcileFailed, TypeOK, history
    <2>4. CallsOK'
      BY <1>2, <2>1, <2>2, <2>3, OneCallChanges DEF TypeOK
    <2>5. QED
      BY <1>5, <2>4 DEF TypeOK, CallsOK, ReconcileFailed, history
  <1>6. QED
    BY <1>3, <1>4, <1>5

LEMMA InterruptKeepsTypes ==
  ASSUME TypeOK, NEW t \in Tasks, Interrupt(t)
  PROVE  TypeOK'
  <1> USE DEF Call, Pc, Positions
  <1>1. /\ task[t] \in Call /\ task[t].cand \in Candidate
        /\ task[t].pos \in 1..Size(task[t].cand) /\ Item(t) \in Listing
    BY AwaitingCall DEF Interrupt
  <1>2. PICK placed :
          /\ limbo' = IF placed THEN limbo \cup {<<task[t].cand, Item(t)>>} ELSE limbo
          /\ task' = [task EXCEPT ![t] = [task[t] EXCEPT !.pc = "raised",
                        !.unsure = IF placed THEN @ \cup {task[t].pos} ELSE @]]
    BY DEF Interrupt
  <1>3. limbo' \subseteq Candidate \X Listing
    BY <1>1, <1>2 DEF TypeOK
  <1> DEFINE r == [task[t] EXCEPT !.pc = "raised",
                     !.unsure = IF placed THEN @ \cup {task[t].pos} ELSE @]
  <1>4. r \in Call /\ r.pc = "raised"
    BY <1>1, BundleListings
  <1>5. book' \in Book /\ broken' \subseteq Candidate
    BY <1>1 DEF Interrupt, TypeOK
  <1> HIDE DEF r
  <1>6. CallsOK'
    BY <1>2, <1>4, <1>5, OneCallChanges DEF r
  <1>7. QED
    BY <1>3, <1>6 DEF TypeOK, CallsOK, Interrupt

(* TypeOK holds initially and is preserved by every action.                 *)
THEOREM TypeCorrect == Spec => []TypeOK
  <1>1. Init => TypeOK
    BY BookAssumption, SettingsAssumption
    DEF Init, TypeOK, EmptyBook, NoReservation, Book, Reservation, ReservationState,
        NoCall, Call, Pc, Awaiting
  <1>2. TypeOK /\ [Next]_vars => TypeOK'
    <2> SUFFICES ASSUME TypeOK, [Next]_vars PROVE TypeOK'
      OBVIOUS
    <2>1. ASSUME NEW t \in Tasks, NEW c \in Candidate, Execute(t, c) PROVE TypeOK'
      BY <2>1, ExecuteKeepsTypes
    <2>2. ASSUME NEW t \in Tasks, Reply(t) PROVE TypeOK'
      BY <2>2, VerifyKeepsTypes, SubmitKeepsTypes, ReconcileKeepsTypes DEF Reply
    <2>3. ASSUME NEW t \in Tasks, Interrupt(t) PROVE TypeOK'
      BY <2>3, InterruptKeepsTypes
    <2>4. ASSUME NEW l \in Listing, ManualReconciliation(l) PROVE TypeOK'
      <3>1. book' \in Book
        BY <2>4, MovedIsBook DEF ManualReconciliation, TypeOK, ReservationState
      <3>2. QED
        BY <2>4, <3>1, PriceAssumption DEF ManualReconciliation, TypeOK, Awaiting
    <2>5. CASE Tick
      BY <2>5 DEF Tick, TypeOK, Awaiting, history
    <2>6. CASE UNCHANGED vars
      BY <2>6 DEF vars, history, TypeOK, Awaiting
    <2>7. QED
      BY <2>1, <2>2, <2>3, <2>4, <2>5, <2>6 DEF Next
  <1>3. QED
    BY <1>1, <1>2, PTL DEF Spec

-----------------------------------------------------------------------------
(* What call record r may still order, given where it awaits.               *)
Ahead(r) == CASE r.pc = "verify"    -> CostFrom[r.cand][1]
              [] r.pc = "submit"    -> CostFrom[r.cand][r.pos]
              [] r.pc = "reconcile" -> CostFrom[r.cand][r.pos + 1]
              [] OTHER              -> 0

(* Under settings s, what r ordered and may still order fits the budget.    *)
Fits(s, r) ==
  r.pc \in {"verify", "submit", "reconcile"} \/ r.outlay > 0 =>
    /\ s.live
    /\ s.spentToday # NotSupplied
    /\ s.spentToday + r.outlay + Ahead(r) <= s.maxDailySpend

(* The strengthening of CallWithinBudget: orders not placed yet are counted *)
(* in from the check on.                                                    *)
BudgetInv == \A t \in Tasks : Fits(settings, task[t])

LEMMA Costs ==
  ASSUME NEW c \in Candidate, NEW i \in 1..Size(c)
  PROVE  /\ CostFrom[c][1] \in Nat /\ CostFrom[c][i] \in Nat /\ CostFrom[c][i + 1] \in Nat
         /\ Price[Bundle[c][i]] \in Nat
         /\ CostFrom[c][i] = Price[Bundle[c][i]] + CostFrom[c][i + 1]
  <1>1. Size(c) \in Nat \ {0} /\ Bundle[c][i] \in Listing
    BY BundleListings
  <1>2. 1 \in 1..Size(c) + 1 /\ i \in 1..Size(c) + 1 /\ i + 1 \in 1..Size(c) + 1
    BY <1>1
  <1>3. QED
    BY <1>1, <1>2, PriceAssumption

(* A call that stops awaiting, or moves on without a new order, still fits. *)
LEMMA FitsOnReturn ==
  ASSUME NEW s \in Settings, NEW r \in Call, Fits(s, r),
         r.pc \in {"verify", "submit", "reconcile"},
         r.cand \in Candidate, r.pos \in 1..Size(r.cand),
         NEW q, q.outlay = r.outlay, q.pc \notin {"verify", "submit", "reconcile"}
  PROVE  Fits(s, q)
  <1>1. Ahead(q) = 0
    BY DEF Ahead
  <1>2. Ahead(r) \in Nat
    BY Costs DEF Ahead
  <1>3. s.spentToday # NotSupplied /\ s.spentToday + r.outlay + Ahead(r) <= s.maxDailySpend
    BY DEF Fits
  <1>4. s.spentToday \in Nat /\ r.outlay \in Nat /\ s.maxDailySpend \in Nat
    BY <1>3 DEF Settings, Call
  <1>5. s.spentToday + q.outlay + Ahead(q) <= s.maxDailySpend
    BY <1>1, <1>2, <1>3, <1>4
  <1>6. QED
    BY <1>5 DEF Fits

(* A step that changes one call's record to a fitting one keeps BudgetInv.  *)
LEMMA OneCallKeepsBudget ==
  ASSUME TypeOK, BudgetInv, NEW t \in Tasks, settings' = settings,
         NEW r, task' = [task EXCEPT ![t] = r], Fits(settings, r)
  PROVE  BudgetInv'
  BY DEF BudgetInv, TypeOK

(* Order places nothing yet: it fits when the rest of the bundle does.      *)
LEMMA OrderKeepsBudget ==
  ASSUME TypeOK, BudgetInv, NEW t \in Tasks, settings' = settings,
         NEW b, NEW r \in Call, NEW i \in Nat, Order(t, b, r, i),
         settings.live, settings.spentToday # NotSupplied,
         NEW rest \in Nat, settings.spentToday + r.outlay + rest <= settings.maxDailySpend,
         r.cand \in Candidate, i <= Size(r.cand) => rest = CostFrom[r.cand][i]
  PROVE  BudgetInv'
  <1>1. settings.spentToday \in Nat /\ r.outlay \in Nat /\ settings.maxDailySpend \in Nat
    BY DEF TypeOK, Settings, Call
  <1>2. settings.spentToday + r.outlay + 0 <= settings.maxDailySpend
    BY <1>1
  <1>3. PICK q : /\ task' = [task EXCEPT ![t] = q]
                 /\ q.outlay = r.outlay
                 /\ \/ q.pc \in {"returned", "illegal"}
                    \/ q.pc = "submit" /\ q.cand = r.cand /\ q.pos = i /\ i <= Size(r.cand)
    <2>1. /\ \A p \in {"returned", "illegal"} :
               [r EXCEPT !.pc = p].outlay = r.outlay /\ [r EXCEPT !.pc = p].pc = p
          /\ [r EXCEPT !.pc = "submit", !.pos = i].outlay = r.outlay
          /\ [r EXCEPT !.pc = "submit", !.pos = i].pc = "submit"
          /\ [r EXCEPT !.pc = "submit", !.pos = i].cand = r.cand
          /\ [r EXCEPT !.pc = "submit", !.pos = i].pos = i
      BY DEF Call
    <2>2. QED
      BY <2>1 DEF Order
  <1>4. Ahead(q) = IF q.pc = "submit" THEN rest ELSE 0
    BY <1>3 DEF Ahead
  <1>5. settings.spentToday + q.outlay + Ahead(q) <= settings.maxDailySpend
    BY <1>2, <1>3, <1>4
  <1>6. Fits(settings, q)
    BY <1>5 DEF Fits
  <1>7. QED
    BY <1>3, <1>6, OneCallKeepsBudget

(* An awaiting call with a fitting record, spelled out.                     *)
LEMMA AwaitingFits ==
  ASSUME TypeOK, BudgetInv, NEW t \in Tasks, Awaiting(t)
  PROVE  /\ settings \in Settings /\ Fits(settings, task[t])
         /\ settings.live /\ settings.spentToday # NotSupplied
         /\ settings.spentToday \in Nat /\ settings.maxDailySpend \in Nat
         /\ task[t].outlay \in Nat
         /\ settings.spentToday + task[t].outlay + Ahead(task[t]) <= settings.maxDailySpend
  BY DEF TypeOK, BudgetInv, Fits, Awaiting, Settings, Call

LEMMA VerifyKeepsBudget ==
  ASSUME TypeOK, BudgetInv, NEW t \in Tasks, VerifyReply(t)
  PROVE  BudgetInv'
  <1> DEFINE c == task[t].cand
             i == task[t].pos
             r == [task[t] EXCEPT !.checked = @ \cup {i}]
  <1>1. Awaiting(t) /\ task[t].pc = "verify" /\ settings' = settings
    BY DEF VerifyReply, Awaiting
  <1>2. /\ task[t] \in Call /\ c \in Candidate /\ i \in 1..Size(c) /\ Size(c) \in Nat
        /\ i \in Nat
    BY <1>1, AwaitingCall, BundleListings
  <1>3. /\ settings.live /\ settings.spentToday # NotSupplied /\ Fits(settings, task[t])
        /\ settings \in Settings
        /\ settings.spentToday + task[t].outlay + CostFrom[c][1] <= settings.maxDailySpend
    BY <1>1, AwaitingFits DEF Ahead
  <1>4. /\ r \in Call /\ r.cand = c /\ r.outlay = task[t].outlay /\ r.pc = "verify"
    BY <1>1, <1>2 DEF Call, Positions
  <1>5. CASE task' = [task EXCEPT ![t] = [r EXCEPT !.pos = i + 1]]
    <2> DEFINE q == [r EXCEPT !.pos = i + 1]
    <2>1. q.pc = "verify" /\ q.cand = c /\ q.outlay = task[t].outlay
      BY <1>2, <1>4 DEF Call
    <2> HIDE DEF q
    <2>2. Ahead(q) = CostFrom[c][1]
      BY <2>1 DEF Ahead
    <2>3. Fits(settings, q)
      BY <1>3, <2>1, <2>2 DEF Fits
    <2>4. QED
      BY <1>1, <1>5, <2>3, OneCallKeepsBudget DEF q
  <1>6. CASE \E v : task' = [task EXCEPT ![t].pc = "returned",
                               ![t].results = AbortResults(c, i, Verdict(v))]
    <2>1. PICK v : task' = [task EXCEPT ![t] = [task[t] EXCEPT !.pc = "returned",
                               !.results = AbortResults(c, i, Verdict(v))]]
      BY <1>6
    <2> DEFINE q == [task[t] EXCEPT !.pc = "returned",
                       !.results = AbortResults(c, i, Verdict(v))]
    <2>2. q.pc = "returned" /\ q.outlay = task[t].outlay
      BY <1>2 DEF Call
    <2> HIDE DEF q
    <2>3. Fits(settings, q)
      BY <1>1, <1>2, <1>3, <2>2, FitsOnReturn
    <2>4. QED
      BY <1>1, <2>1, <2>3, OneCallKeepsBudget DEF q
  <1>7. CASE Order(t, book, r, 1)
    <2>1. CostFrom[c][1] \in Nat
      BY <1>2, Costs
    <2> HIDE DEF r
    <2>2. QED
      BY <1>1, <1>2, <1>3, <1>4, <1>7, <2>1, OrderKeepsBudget
  <1>8. QED
    BY <1>5, <1>6, <1>7 DEF VerifyReply

LEMMA SucceededKeepsBudget ==
  ASSUME TypeOK, BudgetInv, NEW t \in Tasks, ReconcileSucceeded(t)
  PROVE  BudgetInv'
  <1> DEFINE c == task[t].cand
             i == task[t].pos
             r == [task[t] EXCEPT !.bought = @ \cup {i}, !.results = Append(@, "SUCCEEDED")]
  <1>1. Awaiting(t) /\ task[t].pc = "reconcile" /\ settings' = settings
    BY DEF ReconcileSucceeded, Awaiting
  <1>2. /\ task[t] \in Call /\ c \in Candidate /\ i \in 1..Size(c) /\ Size(c) \in Nat
        /\ i \in Nat
    BY <1>1, AwaitingCall, BundleListings
  <1>3. /\ settings.live /\ settings.spentToday # NotSupplied /\ Fits(settings, task[t])
        /\ settings \in Settings
        /\ settings.spentToday + task[t].outlay + CostFrom[c][i + 1] <= settings.maxDailySpend
    BY <1>1, AwaitingFits DEF Ahead
  <1>4. /\ r \in Call /\ r.cand = c /\ r.outlay = task[t].outlay
    BY <1>2, ResultsAreStatuses DEF Call, Positions, ExecutionStatus
  <1>5. CASE Order(t, Moved(book, {Item(t)}, "PURCHASED"), r, i + 1)
    <2>1. CostFrom[c][i + 1] \in Nat /\ i + 1 \in Nat
      BY <1>2, Costs
    <2> HIDE DEF r
    <2>2. QED
      BY <1>1, <1>2, <1>3, <1>4, <1>5, <2>1, OrderKeepsBudget
  <1>6. CASE task' = [task EXCEPT ![t] = [r EXCEPT !.pc = "illegal"]]
    <2> DEFINE q == [r EXCEPT !.pc = "illegal"]
    <2>1. q.pc = "illegal" /\ q.outlay = task[t].outlay
      BY <1>4 DEF Call
    <2> HIDE DEF q
    <2>2. Fits(settings, q)
      BY <1>1, <1>2, <1>3, <2>1, FitsOnReturn
    <2>3. QED
      BY <1>1, <1>6, <2>2, OneCallKeepsBudget DEF q
  <1>7. QED
    BY <1>5, <1>6 DEF ReconcileSucceeded

(* The other ways to end a call place no order.                             *)
LEMMA EndingKeepsBudget ==
  ASSUME TypeOK, BudgetInv, NEW t \in Tasks,
         SubmitRefused(t) \/ ReconcileRefused(t) \/ ReconcileFailed(t) \/ Interrupt(t)
  PROVE  BudgetInv'
  <1>1. Awaiting(t) /\ settings' = settings
    BY DEF SubmitRefused, ReconcileRefused, ReconcileFailed, Interrupt, Awaiting, history
  <1>2. /\ task[t] \in Call /\ task[t].cand \in Candidate
        /\ task[t].pos \in 1..Size(task[t].cand) /\ Fits(settings, task[t])
        /\ settings \in Settings
    BY <1>1, AwaitingCall, AwaitingFits
  <1>3. \A q : /\ task' = [task EXCEPT ![t] = q]
               /\ q.pc \in {"returned", "raised"}
               /\ q.outlay = task[t].outlay
               => BudgetInv'
    BY <1>1, <1>2, FitsOnReturn, OneCallKeepsBudget DEF Awaiting
  <1>4. CASE SubmitRefused(t) \/ ReconcileFailed(t)
    <2>1. PICK rs : task' = [task EXCEPT ![t] = [task[t] EXCEPT !.pc = "returned",
                                                               !.results = rs]]
      BY <1>4 DEF SubmitRefused, ReconcileFailed
    <2> DEFINE q == [task[t] EXCEPT !.pc = "returned", !.results = rs]
    <2>2. q.pc = "returned" /\ q.outlay = task[t].outlay
      BY <1>2 DEF Call
    <2> HIDE DEF q
    <2>3. QED
      BY <1>3, <2>1, <2>2 DEF q
  <1>5. CASE ReconcileRefused(t)
    <2> DEFINE q == [task[t] EXCEPT !.pc = "returned",
                       !.unsure = @ \cup {task[t].pos},
                       !.results = Padded(task[t].cand, Append(@, "FAILED"))]
    <2>1. task' = [task EXCEPT ![t] = q]
      BY <1>5 DEF ReconcileRefused
    <2>2. q.pc = "returned" /\ q.outlay = task[t].outlay
      BY <1>2 DEF Call
    <2> HIDE DEF q
    <2>3. QED
      BY <1>3, <2>1, <2>2
  <1>6. CASE Interrupt(t)
    <2>1. PICK placed : task' = [task EXCEPT ![t] = [task[t] EXCEPT !.pc = "raised",
                          !.unsure = IF placed THEN @ \cup {task[t].pos} ELSE @]]
      BY <1>6 DEF Interrupt
    <2> DEFINE q == [task[t] EXCEPT !.pc = "raised",
                       !.unsure = IF placed THEN @ \cup {task[t].pos} ELSE @]
    <2>2. q.pc = "raised" /\ q.outlay = task[t].outlay
      BY <1>2 DEF Call
    <2> HIDE DEF q
    <2>3. QED
      BY <1>3, <2>1, <2>2 DEF q
  <1>7. QED
    BY <1>4, <1>5, <1>6

LEMMA AcceptedKeepsBudget ==
  ASSUME TypeOK, BudgetInv, NEW t \in Tasks, SubmitAccepted(t)
  PROVE  BudgetInv'
  <1> DEFINE c == task[t].cand
             i == task[t].pos
             q == [task[t] EXCEPT !.pc = "reconcile", !.outlay = @ + Price[Item(t)]]
  <1>1. Awaiting(t) /\ task[t].pc = "submit" /\ settings' = settings
        /\ task' = [task EXCEPT ![t] = q]
    BY DEF SubmitAccepted, Awaiting
  <1>2. /\ task[t] \in Call /\ c \in Candidate /\ i \in 1..Size(c)
    BY <1>1, AwaitingCall
  <1>3. /\ settings.live /\ settings.spentToday # NotSupplied
        /\ settings.spentToday \in Nat /\ settings.maxDailySpend \in Nat
        /\ task[t].outlay \in Nat
        /\ settings.spentToday + task[t].outlay + CostFrom[c][i] <= settings.maxDailySpend
    BY <1>1, AwaitingFits DEF Ahead
  <1>4. /\ CostFrom[c][i + 1] \in Nat /\ Price[Item(t)] \in Nat
        /\ CostFrom[c][i] = Price[Item(t)] + CostFrom[c][i + 1]
    BY <1>2, Costs DEF Item
  <1>5. q.pc = "reconcile" /\ q.cand = c /\ q.pos = i
        /\ q.outlay = task[t].outlay + Price[Item(t)]
    BY <1>2 DEF Call
  <1> HIDE DEF q
  <1>6. Ahead(q) = CostFrom[c][i + 1]
    BY <1>5 DEF Ahead
  <1>7. settings.spentToday + q.outlay + Ahead(q) <= settings.maxDailySpend
    BY <1>3, <1>4, <1>5, <1>6
  <1>8. Fits(settings, q)
    BY <1>3, <1>7 DEF Fits
  <1>9. QED
    BY <1>1, <1>8, OneCallKeepsBudget

LEMMA ExecuteKeepsBudget ==
  ASSUME TypeOK, BudgetInv, NEW t \in Tasks, NEW c \in Candidate, Execute(t, c)
  PROVE  BudgetInv'
  <1>1. settings' = settings /\ settings \in Settings
    BY DEF Execute, TypeOK
  <1>2. CASE BlockedByPolicy(c) \/ Conflicts(book, c, ListingsFrom(c, 1), now) # {}
    <2>1. PICK s : task' = [task EXCEPT ![t] = [NoCall EXCEPT
                      !.pc = "returned", !.cand = c, !.results = AllResults(c, s)]]
      BY <1>2 DEF Execute
    <2>2. Fits(settings, [NoCall EXCEPT
                      !.pc = "returned", !.cand = c, !.results = AllResults(c, s)])
      BY DEF Fits, NoCall
    <2>3. QED
      BY <1>1, <2>1, <2>2, OneCallKeepsBudget
  <1>3. CASE ~BlockedByPolicy(c) /\ Conflicts(book, c, ListingsFrom(c, 1), now) = {}
    <2> DEFINE q == [NoCall EXCEPT !.pc = "verify", !.cand = c, !.pos = 1]
    <2>1. task' = [task EXCEPT ![t] = q]
      BY <1>3 DEF Execute
    <2>2. q.pc = "verify" /\ q.cand = c /\ q.outlay = 0
      BY DEF NoCall
    <2> HIDE DEF q
    <2>3. /\ settings.live /\ settings.spentToday # NotSupplied
          /\ ~(settings.spentToday + CostFrom[c][1] > settings.maxDailySpend)
      BY <1>3 DEF BlockedByPolicy
    <2>4. /\ CostFrom[c][1] \in Nat /\ settings.spentToday \in Nat
          /\ settings.maxDailySpend \in Nat
      <3>1. 1 \in 1..Size(c)
        BY BundleListings
      <3>2. QED
        BY <1>1, <2>3, <3>1, Costs DEF Settings
    <2>5. settings.spentToday + q.outlay + Ahead(q) <= settings.maxDailySpend
      BY <2>2, <2>3, <2>4 DEF Ahead
    <2>6. Fits(settings, q)
      BY <2>3, <2>5 DEF Fits
    <2>7. QED
      BY <1>1, <2>1, <2>6, OneCallKeepsBudget
  <1>4. QED
    BY <1>2, <1>3

(* No call orders beyond what the gate ladder left of the day's budget: the *)
(* cost of the bundle was within it at the check, and every accepted order  *)
(* moves its price from what is ahead to the outlay.                        *)
THEOREM BudgetKept == Spec => []CallWithinBudget
  <1>1. Init => BudgetInv
    BY DEF Init, BudgetInv, Fits, NoCall
  <1>2. TypeOK /\ BudgetInv /\ [Next]_vars => BudgetInv'
    <2> SUFFICES ASSUME TypeOK, BudgetInv, [Next]_vars PROVE BudgetInv'
      OBVIOUS
    <2>1. ASSUME NEW t \in Tasks, NEW c \in Candidate, Execute(t, c) PROVE BudgetInv'
      BY <2>1, ExecuteKeepsBudget
    <2>2. ASSUME NEW t \in Tasks, Reply(t) \/ Interrupt(t) PROVE BudgetInv'
      BY <2>2, VerifyKeepsBudget, AcceptedKeepsBudget, SucceededKeepsBudget,
         EndingKeepsBudget DEF Reply
    <2>3. CASE \E l \in Listing : ManualReconciliation(l)
      BY <2>3 DEF ManualReconciliation, BudgetInv
    <2>4. CASE Tick
      BY <2>4 DEF Tick, BudgetInv
    <2>5. CASE UNCHANGED vars
      BY <2>5 DEF vars, BudgetInv
    <2>6. QED
      BY <2>1, <2>2, <2>3, <2>4, <2>5 DEF Next
  <1>3. TypeOK /\ BudgetInv => CallWithinBudget
    <2> SUFFICES ASSUME TypeOK, BudgetInv, NEW t \in Tasks, task[t].outlay > 0
                 PROVE  /\ settings.live /\ settings.spentToday # NotSupplied
                        /\ settings.spentToday + task[t].outlay <= settings.maxDailySpend
      BY DEF CallWithinBudget
    <2>1. /\ settings.live /\ settings.spentToday # NotSupplied
          /\ settings.spentToday + task[t].outlay + Ahead(task[t]) <= settings.maxDailySpend
      BY DEF BudgetInv, Fits
    <2>2. /\ settings.spentToday \in Nat /\ task[t].outlay \in Nat
          /\ settings.maxDailySpend \in Nat
      BY <2>1 DEF TypeOK, Settings, Call
    <2>3. Ahead(task[t]) \in Nat
      <3>1. CASE Awaiting(t)
        BY <3>1, AwaitingCall, Costs DEF Ahead, Awaiting
      <3>2. CASE ~Awaiting(t)
        BY <3>2 DEF Ahead, Awaiting
      <3>3. QED
        BY <3>1, <3>2
    <2>4. QED
      BY <2>1, <2>2, <2>3
  <1>4. QED
    BY <1>1, <1>2, <1>3, TypeCorrect, PTL DEF Spec

-----------------------------------------------------------------------------
LEMMA FreeingIsALeaseStep ==
  ASSUME \A l \in Listing : holding'[l] \in {holding[l], Nobody}
  PROVE  L!Next
  <1> DEFINE S == {l \in Listing : holding'[l] = Nobody}
  <1>1. holding' = [l \in Listing |-> IF l \in S THEN Nobody ELSE holding[l]]
    BY DEF holding
  <1>2. L!End(S)
    BY <1>1 DEF L!End
  <1>3. S \in SUBSET Listing
    OBVIOUS
  <1>4. QED
    BY <1>2, <1>3 DEF L!Next

(* b2 hands no listing of b1 to another candidate. *)
Frees(b1, b2) ==
  \A l \in Listing : Holder(b2, l, now) \in {Holder(b1, l, now), Nobody}

LEMMA FreeingBooks ==
  ASSUME TypeOK, NEW b \in Book, Frees(book, b), book' = b, now' = now
  PROVE  [L!Next]_holding
  BY FreeingIsALeaseStep DEF Frees, holding

LEMMA MoveFrees ==
  ASSUME TypeOK, NEW b \in Book, NEW S, NEW target \in ReservationState,
         \A l \in S \cap Listing : IsActive(b[l])
  PROVE  Moved(b, S, target) \in Book /\ Frees(b, Moved(b, S, target))
  BY MovedIsBook, MovedHolders DEF Frees, TypeOK

(* A legal transition of one listing's claim frees at most that listing.    *)
LEMMA TransitionFrees ==
  ASSUME TypeOK, NEW b \in Book, NEW l \in Listing, NEW target,
         CanTransition(b[l], target)
  PROVE  Moved(b, {l}, target) \in Book /\ Frees(b, Moved(b, {l}, target))
  <1>1. target \in ReservationState /\ IsActive(b[l])
    BY LegalTargets DEF Book, IsActive, ActiveStates
  <1>2. QED
    BY <1>1, MoveFrees

LEMMA OrderFrees ==
  ASSUME TypeOK, NEW t \in Tasks, NEW b \in Book, Frees(book, b),
         NEW r, NEW i \in Nat \ {0}, r.cand \in Candidate, Order(t, b, r, i), now' = now
  PROVE  [L!Next]_holding
  <1>1. CASE book' = b
    BY <1>1, FreeingBooks
  <1>2. CASE /\ i <= Size(r.cand)
             /\ CanTransition(b[Bundle[r.cand][i]], "PURCHASE_PENDING")
             /\ book' = Moved(b, {Bundle[r.cand][i]}, "PURCHASE_PENDING")
    <2>1. Bundle[r.cand][i] \in Listing
      BY <1>2, BundleListings
    <2>2. book' \in Book /\ Frees(b, book')
      BY <1>2, <2>1, TransitionFrees
    <2>3. Frees(book, book')
      BY <2>2 DEF Frees
    <2>4. QED
      BY <2>2, <2>3, FreeingBooks
  <1>3. QED
    BY <1>1, <1>2 DEF Order

LEMMA ReleasesFree ==
  ASSUME TypeOK, NEW S, NEW c
  PROVE  /\ ReleaseUnbought(book, S) \in Book /\ Frees(book, ReleaseUnbought(book, S))
         /\ ReleaseOf(book, c) \in Book /\ Frees(book, ReleaseOf(book, c))
  BY MoveFrees DEF ReleaseUnbought, ReleaseOf, Releasable, TypeOK, ReservationState

(* The engine implements Leases: the one step that gives listings away is   *)
(* the claim after the gate ladder, which found no conflict in the same     *)
(* step; everything else only frees.                                        *)
THEOREM BuyerKeepsLeases == Spec => KeepsLeases
  <1>1. Init => L!Init
    BY BookAssumption
    DEF Init, L!Init, holding, EmptyBook, NoReservation, Holder, IsActive, ActiveStates
  <1>2. TypeOK /\ [Next]_vars => [L!Next]_holding
    <2> SUFFICES ASSUME TypeOK, [Next]_vars PROVE [L!Next]_holding
      OBVIOUS
    <2>1. ASSUME NEW t \in Tasks, NEW c \in Candidate, Execute(t, c)
          PROVE  [L!Next]_holding
      <3>1. CASE book' = book
        BY <2>1, <3>1 DEF Execute, holding
      <3>2. CASE /\ Conflicts(book, c, ListingsFrom(c, 1), now) = {}
                 /\ book' = Claimed(book, c, ListingsFrom(c, 1), now)
        <4> DEFINE S == ListingsFrom(c, 1)
        <4>1. S \in SUBSET Listing
          BY BundleListings
        <4> HIDE DEF S
        <4>2. \A l \in S : holding[l] \in {Nobody, c}
          BY <3>2, <4>1 DEF Conflicts, IsAvailable, holding, S
        <4>3. \A l \in Listing : holding'[l] = IF l \in S THEN c ELSE holding[l]
          <5>1. now \in Nat /\ book \in Book /\ now' = now
            BY <2>1 DEF TypeOK, Execute
          <5>2. book' = Claimed(book, c, S, now)
            BY <3>2 DEF S
          <5>3. QED
            BY <4>1, <5>1, <5>2, ClaimHolders DEF holding
        <4>4. L!Acquire(c, S)
          BY <4>2, <4>3 DEF L!Acquire, holding
        <4>5. QED
          BY <4>1, <4>4 DEF L!Next
      <3>3. QED
        BY <2>1, <3>1, <3>2 DEF Execute
    <2>2. ASSUME NEW t \in Tasks, VerifyReply(t)
          PROVE  [L!Next]_holding
      <3> DEFINE r == [task[t] EXCEPT !.checked = @ \cup {task[t].pos}]
      <3>1. task[t].cand \in Candidate /\ r.cand = task[t].cand /\ now' = now
        BY <2>2, AwaitingCall DEF VerifyReply, Awaiting, Call
      <3>2. Frees(book, book) /\ book \in Book
        BY DEF Frees, TypeOK
      <3>3. CASE book' = ReleaseOf(book, task[t].cand)
        BY <3>1, <3>3, ReleasesFree, FreeingBooks
      <3>4. CASE book' = book
        BY <3>1, <3>2, <3>4, FreeingBooks
      <3>5. CASE Order(t, book, r, 1)
        <4> HIDE DEF r
        <4>1. QED
          BY <3>1, <3>2, <3>5, OrderFrees
      <3>6. QED
        BY <2>2, <3>3, <3>4, <3>5 DEF VerifyReply
    <2>3. ASSUME NEW t \in Tasks,
                 SubmitRefused(t) \/ ReconcileRefused(t) \/ ReconcileFailed(t)
          PROVE  [L!Next]_holding
      <3>1. now' = now /\ \E S : book' = ReleaseUnbought(book, S)
        BY <2>3 DEF SubmitRefused, ReconcileRefused, ReconcileFailed
      <3>2. QED
        BY <3>1, ReleasesFree, FreeingBooks
    <2>4. ASSUME NEW t \in Tasks, ReconcileSucceeded(t)
          PROVE  [L!Next]_holding
      <3> DEFINE r == [task[t] EXCEPT !.bought = @ \cup {task[t].pos},
                                      !.results = Append(@, "SUCCEEDED")]
                 b == Moved(book, {Item(t)}, "PURCHASED")
      <3>1. /\ task[t].cand \in Candidate /\ r.cand = task[t].cand /\ now' = now
            /\ task[t].pos + 1 \in Nat \ {0} /\ Item(t) \in Listing
        BY <2>4, AwaitingCall, BundleListings DEF ReconcileSucceeded, Awaiting, Call
      <3>2. CASE book' = book
        BY <3>1, <3>2 DEF holding
      <3>3. CASE CanTransition(book[Item(t)], "PURCHASED") /\ Order(t, b, r, task[t].pos + 1)
        <4>1. b \in Book /\ Frees(book, b)
          BY <3>1, <3>3, TransitionFrees DEF TypeOK
        <4> HIDE DEF r, b
        <4>2. QED
          BY <3>1, <3>3, <4>1, OrderFrees
      <3>4. QED
        BY <2>4, <3>2, <3>3 DEF ReconcileSucceeded
    <2>5. ASSUME NEW l \in Listing, ManualReconciliation(l)
          PROVE  [L!Next]_holding
      <3>1. /\ now' = now
            /\ \E s \in {"PURCHASED", "RELEASED"} : book' = Moved(book, {l}, s)
            /\ IsActive(book[l])
        BY <2>5 DEF ManualReconciliation, IsActive, ActiveStates
      <3>2. QED
        BY <3>1, MoveFrees, FreeingBooks DEF TypeOK, ReservationState
    <2>6. CASE Tick
      <3>1. \A l \in Listing : holding'[l] \in {holding[l], Nobody}
        BY <2>6, TimeFrees DEF Tick, holding, TypeOK
      <3>2. QED
        BY <3>1, FreeingIsALeaseStep
    <2>7. ASSUME NEW t \in Tasks, SubmitAccepted(t) \/ Interrupt(t)
          PROVE  [L!Next]_holding
      BY <2>7 DEF SubmitAccepted, Interrupt, holding
    <2>8. CASE UNCHANGED vars
      BY <2>8 DEF vars, holding
    <2>9. QED
      BY <2>1, <2>2, <2>3, <2>4, <2>5, <2>6, <2>7, <2>8 DEF Next, Reply
  <1>3. QED
    BY <1>1, <1>2, TypeCorrect, PTL DEF Spec, KeepsLeases, L!Spec

-----------------------------------------------------------------------------
(* What a call has said and done, by where it stands: nothing was bought    *)
(* while it re-checks, the positions behind it were bought while it buys.   *)
Told(r) ==
  /\ r.pc = "submit" \/ r.bought \cup r.unsure # {} => r.checked = 1..Size(r.cand)
  /\ r.pc = "verify" => /\ r.results = << >> /\ r.bought = {} /\ r.unsure = {}
                        /\ r.checked = 1..(r.pos - 1)
  /\ r.pc \in {"submit", "reconcile"} =>
       /\ r.checked = 1..Size(r.cand) /\ r.unsure = {} /\ r.bought = 1..(r.pos - 1)
       /\ Len(r.results) = r.pos - 1
       /\ \A i \in 1..(r.pos - 1) : r.results[i] = "SUCCEEDED"
  /\ r.pc = "returned" => Truthful(r)

TruthInv == \A t \in Tasks : Told(task[t])

-----------------------------------------------------------------------------
LEMMA OneCallKeepsTruth ==
  ASSUME TypeOK, TruthInv, NEW t \in Tasks,
         NEW r, task' = [task EXCEPT ![t] = r], Told(r)
  PROVE  TruthInv'
  BY DEF TruthInv, TypeOK

(* A padded report is one result per intent: what was said, then nothing.   *)
LEMMA PaddedSays ==
  ASSUME NEW c \in Candidate, NEW i \in 1..Size(c), NEW rs \in Seq(ExecutionStatus),
         Len(rs) = i - 1, NEW s \in ExecutionStatus
  PROVE  LET q == Padded(c, Append(rs, s))
         IN /\ Len(q) = Size(c)
            /\ \A j \in 1..Size(c) : q[j] = IF j < i THEN rs[j] ELSE IF j = i THEN s ELSE "NOT_ATTEMPTED"
  <1>1. Size(c) \in Nat /\ i \in Nat
    BY BundleListings
  <1> DEFINE a == Append(rs, s)
  <1>2. Len(a) = i /\ \A j \in 1..i : a[j] = IF j < i THEN rs[j] ELSE s
    BY <1>1
  <1> HIDE DEF a
  <1>3. Padded(c, a) = [j \in 1..Size(c) |-> IF j <= i THEN a[j] ELSE "NOT_ATTEMPTED"]
    BY <1>2 DEF Padded
  <1>4. Len(Padded(c, a)) = Size(c)
    BY <1>1, <1>3
  <1>5. \A j \in 1..Size(c) :
          Padded(c, a)[j] = IF j < i THEN rs[j] ELSE IF j = i THEN s ELSE "NOT_ATTEMPTED"
    BY <1>1, <1>2, <1>3
  <1>6. QED
    BY <1>4, <1>5 DEF a

(* A call that ends at an order reports what it bought, what became of the  *)
(* order, and nothing of the rest.                                          *)
LEMMA EndingTellsTheTruth ==
  ASSUME NEW r \in Call, r.cand \in Candidate, NEW i \in 1..Size(r.cand),
         Len(r.results) = i - 1, \A j \in 1..(i - 1) : r.results[j] = "SUCCEEDED",
         r.bought = 1..(i - 1), r.checked = 1..Size(r.cand),
         NEW s \in ExecutionStatus \ {"SUCCEEDED"},
         NEW q, q.pc = "returned", q.cand = r.cand, q.bought = r.bought, q.checked = r.checked,
         q.results = Padded(r.cand, Append(r.results, s)),
         q.unsure = {} \/ (q.unsure = {i} /\ s = "FAILED")
  PROVE  Told(q)
  <1> DEFINE n == Size(r.cand)
  <1>1. n \in Nat /\ i \in Nat /\ i - 1 \in 0..n
    BY BundleListings
  <1>2. r.results \in Seq(ExecutionStatus)
    BY DEF Call
  <1>3. /\ Len(q.results) = n
        /\ \A j \in 1..n : q.results[j] = IF j < i THEN r.results[j] ELSE IF j = i THEN s ELSE "NOT_ATTEMPTED"
    BY <1>2, PaddedSays
  <1>4. \A j \in 1..n : q.results[j] = "SUCCEEDED" <=> j <= i - 1
    BY <1>1, <1>3
  <1>5. \A j \in q.unsure : j = i - 1 + 1 /\ q.results[j] = "FAILED"
    BY <1>1, <1>3
  <1>6. \A j \in (i - 1) + 2..n : q.results[j] = "NOT_ATTEMPTED"
    BY <1>1, <1>3
  <1>7. Truthful(q)
    BY <1>1, <1>3, <1>4, <1>5, <1>6 DEF Truthful
  <1>8. QED
    BY <1>7 DEF Told

(* The head of the buying loop: with all behind it bought, the next intent  *)
(* is submitted or the call ends.                                           *)
LEMMA OrderKeepsTruth ==
  ASSUME TypeOK, TruthInv, NEW t \in Tasks, NEW b, NEW r \in Call, NEW i \in Nat \ {0},
         r.cand \in Candidate, i <= Size(r.cand) + 1, Order(t, b, r, i),
         Len(r.results) = i - 1, \A j \in 1..(i - 1) : r.results[j] = "SUCCEEDED",
         r.bought = 1..(i - 1), r.checked = 1..Size(r.cand), r.unsure = {}
  PROVE  TruthInv'
  <1>1. Size(r.cand) \in Nat
    BY BundleListings
  <1>2. CASE i > Size(r.cand) /\ task' = [task EXCEPT ![t] = [r EXCEPT !.pc = "returned"]]
    <2> DEFINE q == [r EXCEPT !.pc = "returned"]
    <2>1. /\ q.pc = "returned" /\ q.cand = r.cand /\ q.results = r.results
          /\ q.bought = r.bought /\ q.unsure = {} /\ q.checked = r.checked
      BY DEF Call
    <2>2. i - 1 = Size(r.cand)
      BY <1>1, <1>2
    <2> HIDE DEF q
    <2>3. Truthful(q)
      BY <1>1, <2>1, <2>2 DEF Truthful
    <2>4. Told(q)
      BY <2>1, <2>3 DEF Told
    <2>5. QED
      BY <1>2, <2>4, OneCallKeepsTruth DEF q
  <1>3. CASE task' = [task EXCEPT ![t] = [r EXCEPT !.pc = "submit", !.pos = i]]
    <2> DEFINE q == [r EXCEPT !.pc = "submit", !.pos = i]
    <2>1. /\ q.pc = "submit" /\ q.pos = i /\ q.cand = r.cand /\ q.results = r.results
          /\ q.bought = r.bought /\ q.unsure = {} /\ q.checked = r.checked
      BY DEF Call
    <2> HIDE DEF q
    <2>2. Told(q)
      BY <2>1 DEF Told
    <2>3. QED
      BY <1>3, <2>2, OneCallKeepsTruth DEF q
  <1>4. CASE task' = [task EXCEPT ![t] = [r EXCEPT !.pc = "illegal"]]
    <2> DEFINE q == [r EXCEPT !.pc = "illegal"]
    <2>1. q.pc = "illegal" /\ q.cand = r.cand /\ q.checked = r.checked
      BY DEF Call
    <2> HIDE DEF q
    <2>2. Told(q)
      BY <2>1 DEF Told
    <2>3. QED
      BY <1>4, <2>2, OneCallKeepsTruth DEF q
  <1>5. QED
    BY <1>2, <1>3, <1>4 DEF Order

LEMMA ExecuteKeepsTruth ==
  ASSUME TypeOK, TruthInv, NEW t \in Tasks, NEW c \in Candidate, Execute(t, c)
  PROVE  TruthInv'
  <1>1. Size(c) \in Nat
    BY BundleListings
  <1>2. ASSUME NEW s \in {"BLOCKED_BY_POLICY", "NOT_ATTEMPTED"},
               task' = [task EXCEPT ![t] = [NoCall EXCEPT
                          !.pc = "returned", !.cand = c, !.results = AllResults(c, s)]]
        PROVE  TruthInv'
    <2> DEFINE q == [NoCall EXCEPT !.pc = "returned", !.cand = c, !.results = AllResults(c, s)]
    <2>1. /\ q.pc = "returned" /\ q.cand = c /\ q.results = AllResults(c, s)
          /\ q.bought = {} /\ q.unsure = {}
      BY DEF NoCall
    <2>2. Len(q.results) = Size(c) /\ \A j \in 1..Size(c) : q.results[j] # "SUCCEEDED"
      BY <1>1, <2>1 DEF AllResults
    <2> HIDE DEF q
    <2>3. Truthful(q)
      <3>1. 0 \in 0..Size(c) /\ q.bought = 1..0 /\ \A j \in 1..Size(c) : ~(j <= 0)
        BY <1>1, <2>1
      <3>2. QED
        BY <2>1, <2>2, <3>1 DEF Truthful
    <2>4. Told(q)
      BY <2>1, <2>3 DEF Told
    <2>5. QED
      BY <1>2, <2>4, OneCallKeepsTruth DEF q
  <1>3. CASE task' = [task EXCEPT ![t] = [NoCall EXCEPT !.pc = "verify", !.cand = c, !.pos = 1]]
    <2> DEFINE q == [NoCall EXCEPT !.pc = "verify", !.cand = c, !.pos = 1]
    <2>1. Told(q)
      BY DEF NoCall, Told
    <2>2. QED
      BY <1>3, <2>1, OneCallKeepsTruth
  <1>4. QED
    BY <1>2, <1>3 DEF Execute

LEMMA VerifyKeepsTruth ==
  ASSUME TypeOK, TruthInv, NEW t \in Tasks, VerifyReply(t)
  PROVE  TruthInv'
  <1> DEFINE c == task[t].cand
             i == task[t].pos
             r == [task[t] EXCEPT !.checked = @ \cup {i}]
  <1>1. Awaiting(t) /\ task[t].pc = "verify"
    BY DEF VerifyReply, Awaiting
  <1>2. task[t] \in Call /\ c \in Candidate /\ i \in 1..Size(c) /\ Size(c) \in Nat /\ i \in Nat
    BY <1>1, AwaitingCall, BundleListings
  <1>3. /\ task[t].results = << >> /\ task[t].bought = {} /\ task[t].unsure = {}
        /\ task[t].checked = 1..(i - 1)
    BY <1>1 DEF TruthInv, Told
  <1>4. /\ r \in Call /\ r.pc = "verify" /\ r.cand = c /\ r.results = << >> /\ r.bought = {}
        /\ r.unsure = {} /\ r.checked = 1..i
    <2>1. 1..(i - 1) \cup {i} = 1..i
      BY <1>2
    <2>2. r \in Call
      BY <1>2 DEF Call, Positions
    <2>3. QED
      BY <1>1, <1>2, <1>3, <2>1, <2>2 DEF Call
  <1>5. PICK v \in Verification :
          \/ /\ Verdict(v) # "PROCEED"
             /\ task' = [task EXCEPT ![t] = [task[t] EXCEPT !.pc = "returned",
                                               !.results = AbortResults(c, i, Verdict(v))]]
          \/ /\ i # Size(c)
             /\ task' = [task EXCEPT ![t] = [r EXCEPT !.pos = i + 1]]
          \/ /\ i = Size(c)
             /\ Order(t, book, r, 1)
    BY DEF VerifyReply, AllChecked
  <1>6. CASE /\ Verdict(v) # "PROCEED"
             /\ task' = [task EXCEPT ![t] = [task[t] EXCEPT !.pc = "returned",
                                               !.results = AbortResults(c, i, Verdict(v))]]
    <2> DEFINE q == [task[t] EXCEPT !.pc = "returned", !.results = AbortResults(c, i, Verdict(v))]
    <2>1. /\ q.pc = "returned" /\ q.cand = c /\ q.results = AbortResults(c, i, Verdict(v))
          /\ q.bought = {} /\ q.unsure = {}
      BY <1>2, <1>3 DEF Call
    <2>2. Verdict(v) # "SUCCEEDED"
      BY DEF Verdict
    <2>3. Len(q.results) = Size(c) /\ \A j \in 1..Size(c) : q.results[j] # "SUCCEEDED"
      BY <1>2, <2>1, <2>2 DEF AbortResults
    <2> HIDE DEF q
    <2>4. Truthful(q)
      <3>1. 0 \in 0..Size(c) /\ q.bought = 1..0 /\ \A j \in 1..Size(c) : ~(j <= 0)
        BY <1>2, <2>1
      <3>2. QED
        BY <2>1, <2>3, <3>1 DEF Truthful
    <2>5. Told(q)
      BY <2>1, <2>4 DEF Told
    <2>6. QED
      BY <1>6, <2>5, OneCallKeepsTruth DEF q
  <1>7. CASE task' = [task EXCEPT ![t] = [r EXCEPT !.pos = i + 1]]
    <2> DEFINE q == [r EXCEPT !.pos = i + 1]
    <2>1. /\ q.pc = "verify" /\ q.pos = i + 1 /\ q.results = << >> /\ q.bought = {}
          /\ q.unsure = {} /\ q.checked = 1..i
      <3> HIDE DEF r
      <3>1. QED
        BY <1>4 DEF Call
    <2> HIDE DEF q
    <2>2. q.pos - 1 = i
      BY <1>2, <2>1
    <2>3. Told(q)
      BY <2>1, <2>2 DEF Told
    <2>4. QED
      BY <1>7, <2>3, OneCallKeepsTruth DEF q
  <1>8. CASE i = Size(c) /\ Order(t, book, r, 1)
    <2> HIDE DEF r
    <2>1. /\ Len(r.results) = 1 - 1 /\ r.bought = 1..(1 - 1) /\ 1 <= Size(r.cand) + 1
          /\ \A j \in 1..(1 - 1) : r.results[j] = "SUCCEEDED"
          /\ r.checked = 1..Size(r.cand) /\ r.unsure = {} /\ r.cand \in Candidate
          /\ 1 \in Nat \ {0} /\ r \in Call
      BY <1>2, <1>4, <1>8
    <2>2. QED
      BY <1>8, <2>1, OrderKeepsTruth
  <1>9. QED
    BY <1>5, <1>6, <1>7, <1>8

(* A call that buys, spelled out.                                           *)
LEMMA BuyingCall ==
  ASSUME TypeOK, TruthInv, NEW t \in Tasks, task[t].pc \in {"submit", "reconcile"}
  PROVE  /\ task[t] \in Call /\ task[t].cand \in Candidate /\ task[t].pos \in 1..Size(task[t].cand)
         /\ Size(task[t].cand) \in Nat /\ task[t].pos \in Nat
         /\ task[t].checked = 1..Size(task[t].cand) /\ task[t].unsure = {}
         /\ task[t].bought = 1..(task[t].pos - 1)
         /\ task[t].results \in Seq(ExecutionStatus) /\ Len(task[t].results) = task[t].pos - 1
         /\ \A i \in 1..(task[t].pos - 1) : task[t].results[i] = "SUCCEEDED"
  <1>1. Awaiting(t)
    BY DEF Awaiting
  <1>2. task[t] \in Call /\ task[t].cand \in Candidate /\ task[t].pos \in 1..Size(task[t].cand)
    BY <1>1, AwaitingCall
  <1>3. Told(task[t])
    BY DEF TruthInv
  <1>4. QED
    BY <1>2, <1>3, BundleListings DEF Told, Call

LEMMA BuyingKeepsTruth ==
  ASSUME TypeOK, TruthInv, NEW t \in Tasks,
         SubmitRefused(t) \/ ReconcileRefused(t) \/ ReconcileFailed(t)
  PROVE  TruthInv'
  <1> DEFINE c == task[t].cand
             i == task[t].pos
  <1>1. task[t].pc \in {"submit", "reconcile"}
    BY DEF SubmitRefused, ReconcileRefused, ReconcileFailed
  <1>2. PICK s \in ExecutionStatus \ {"SUCCEEDED"} :
          \/ task' = [task EXCEPT ![t] = [task[t] EXCEPT !.pc = "returned",
                        !.results = Padded(c, Append(@, s))]]
          \/ /\ s = "FAILED"
             /\ task' = [task EXCEPT ![t] = [task[t] EXCEPT !.pc = "returned",
                           !.unsure = @ \cup {i}, !.results = Padded(c, Append(@, s))]]
    <2>1. CASE SubmitRefused(t)
      <3>1. \A r \in DOMAIN RefusalStatus : RefusalStatus[r] \in ExecutionStatus \ {"SUCCEEDED"}
        BY DEF RefusalStatus, ExecutionStatus
      <3>2. PICK r \in DOMAIN RefusalStatus :
              task' = [task EXCEPT ![t] = [task[t] EXCEPT !.pc = "returned",
                         !.results = Padded(c, Append(@, RefusalStatus[r]))]]
        BY <2>1 DEF SubmitRefused
      <3>3. QED
        BY <3>1, <3>2
    <2>2. CASE ReconcileRefused(t)
      <3>1. "FAILED" \in ExecutionStatus \ {"SUCCEEDED"}
        BY DEF ExecutionStatus
      <3>2. QED
        BY <2>2, <3>1 DEF ReconcileRefused
    <2>3. CASE ReconcileFailed(t)
      BY <2>3 DEF ReconcileFailed
    <2>4. QED
      BY <2>1, <2>2, <2>3
  <1>3. PICK q : /\ task' = [task EXCEPT ![t] = q]
                 /\ q.pc = "returned" /\ q.cand = c /\ q.bought = task[t].bought
                 /\ q.checked = task[t].checked
                 /\ q.results = Padded(c, Append(task[t].results, s))
                 /\ \/ q.unsure = task[t].unsure
                    \/ q.unsure = task[t].unsure \cup {i} /\ s = "FAILED"
    <2>1. task[t] \in Call
      BY <1>1, BuyingCall
    <2>2. CASE task' = [task EXCEPT ![t] = [task[t] EXCEPT !.pc = "returned",
                          !.results = Padded(c, Append(@, s))]]
      <3> DEFINE q == [task[t] EXCEPT !.pc = "returned", !.results = Padded(c, Append(@, s))]
      <3>1. /\ q.pc = "returned" /\ q.cand = c /\ q.bought = task[t].bought
            /\ q.checked = task[t].checked /\ q.unsure = task[t].unsure
            /\ q.results = Padded(c, Append(task[t].results, s))
        BY <2>1 DEF Call
      <3>2. QED
        BY <2>2, <3>1
    <2>3. CASE /\ s = "FAILED"
               /\ task' = [task EXCEPT ![t] = [task[t] EXCEPT !.pc = "returned",
                             !.unsure = @ \cup {i}, !.results = Padded(c, Append(@, s))]]
      <3> DEFINE q == [task[t] EXCEPT !.pc = "returned",
                         !.unsure = @ \cup {i}, !.results = Padded(c, Append(@, s))]
      <3>1. /\ q.pc = "returned" /\ q.cand = c /\ q.bought = task[t].bought
            /\ q.checked = task[t].checked /\ q.unsure = task[t].unsure \cup {i}
            /\ q.results = Padded(c, Append(task[t].results, s))
        BY <2>1 DEF Call
      <3>2. QED
        BY <2>3, <3>1
    <2>4. QED
      BY <1>2, <2>2, <2>3
  <1>4. Told(q)
    <2>1. /\ task[t] \in Call /\ c \in Candidate /\ i \in 1..Size(c)
          /\ Len(task[t].results) = i - 1
          /\ \A j \in 1..(i - 1) : task[t].results[j] = "SUCCEEDED"
          /\ task[t].bought = 1..(i - 1) /\ task[t].checked = 1..Size(c) /\ task[t].unsure = {}
      BY <1>1, BuyingCall
    <2>2. q.unsure = {} \/ (q.unsure = {i} /\ s = "FAILED")
      BY <1>3, <2>1
    <2>3. QED
      BY <1>3, <2>1, <2>2, EndingTellsTheTruth
  <1>5. QED
    BY <1>3, <1>4, OneCallKeepsTruth

LEMMA AcceptedKeepsTruth ==
  ASSUME TypeOK, TruthInv, NEW t \in Tasks, SubmitAccepted(t)
  PROVE  TruthInv'
  <1> DEFINE q == [task[t] EXCEPT !.pc = "reconcile", !.outlay = @ + Price[Item(t)]]
  <1>1. task[t].pc = "submit" /\ task' = [task EXCEPT ![t] = q]
    BY DEF SubmitAccepted
  <1>2. /\ q.pc = "reconcile" /\ q.cand = task[t].cand /\ q.pos = task[t].pos
        /\ q.results = task[t].results /\ q.bought = task[t].bought
        /\ q.unsure = task[t].unsure /\ q.checked = task[t].checked
    BY <1>1, BuyingCall DEF Call
  <1> HIDE DEF q
  <1>3. Told(q)
    BY <1>1, <1>2, BuyingCall DEF Told
  <1>4. QED
    BY <1>1, <1>3, OneCallKeepsTruth

LEMMA SucceededKeepsTruth ==
  ASSUME TypeOK, TruthInv, NEW t \in Tasks, ReconcileSucceeded(t)
  PROVE  TruthInv'
  <1> DEFINE c == task[t].cand
             i == task[t].pos
             r == [task[t] EXCEPT !.bought = @ \cup {i}, !.results = Append(@, "SUCCEEDED")]
  <1>1. task[t].pc = "reconcile"
    BY DEF ReconcileSucceeded
  <1>2. /\ task[t] \in Call /\ c \in Candidate /\ i \in 1..Size(c) /\ Size(c) \in Nat /\ i \in Nat
        /\ task[t].checked = 1..Size(c) /\ task[t].unsure = {} /\ task[t].bought = 1..(i - 1)
        /\ task[t].results \in Seq(ExecutionStatus) /\ Len(task[t].results) = i - 1
        /\ \A j \in 1..(i - 1) : task[t].results[j] = "SUCCEEDED"
    BY <1>1, BuyingCall
  <1>3. /\ r \in Call /\ r.cand = c /\ r.checked = 1..Size(c) /\ r.unsure = {}
        /\ r.bought = 1..(i - 1) \cup {i} /\ r.results = Append(task[t].results, "SUCCEEDED")
    BY <1>2, ResultsAreStatuses DEF Call, Positions, ExecutionStatus
  <1> HIDE DEF r
  <1>4. 1..(i - 1) \cup {i} = 1..i /\ i + 1 - 1 = i /\ i + 1 \in Nat \ {0} /\ i + 1 <= Size(c) + 1
    BY <1>2
  <1>5. Len(r.results) = i /\ \A j \in 1..i : r.results[j] = "SUCCEEDED"
    BY <1>2, <1>3
  <1>6. CASE Order(t, Moved(book, {Item(t)}, "PURCHASED"), r, i + 1)
    <2> DEFINE n == i + 1
               b == Moved(book, {Item(t)}, "PURCHASED")
    <2>1. /\ Len(r.results) = n - 1 /\ r.bought = 1..(n - 1)
          /\ n <= Size(r.cand) + 1 /\ n \in Nat \ {0}
          /\ \A j \in 1..(n - 1) : r.results[j] = "SUCCEEDED"
          /\ r.checked = 1..Size(r.cand) /\ r.cand \in Candidate
      BY <1>2, <1>3, <1>4, <1>5
    <2>2. Order(t, b, r, n)
      BY <1>6
    <2> HIDE DEF n, b
    <2>3. QED
      BY <1>3, <2>1, <2>2, OrderKeepsTruth
  <1>7. CASE task' = [task EXCEPT ![t] = [r EXCEPT !.pc = "illegal"]]
    <2> DEFINE q == [r EXCEPT !.pc = "illegal"]
    <2>1. q.pc = "illegal" /\ q.cand = c /\ q.checked = 1..Size(c)
      BY <1>3 DEF Call
    <2> HIDE DEF q
    <2>2. Told(q)
      BY <2>1 DEF Told
    <2>3. QED
      BY <1>7, <2>2, OneCallKeepsTruth DEF q
  <1>8. QED
    BY <1>6, <1>7 DEF ReconcileSucceeded, r

LEMMA InterruptKeepsTruth ==
  ASSUME TypeOK, TruthInv, NEW t \in Tasks, Interrupt(t)
  PROVE  TruthInv'
  <1>1. Awaiting(t) /\ task[t] \in Call /\ Told(task[t])
    BY AwaitingCall DEF Interrupt, TruthInv
  <1>2. PICK placed \in BOOLEAN :
          /\ task[t].pc = "verify" => ~placed
          /\ task' = [task EXCEPT ![t] = [task[t] EXCEPT !.pc = "raised",
                        !.unsure = IF placed THEN @ \cup {task[t].pos} ELSE @]]
    BY <1>1 DEF Interrupt, Awaiting
  <1> DEFINE q == [task[t] EXCEPT !.pc = "raised",
                     !.unsure = IF placed THEN @ \cup {task[t].pos} ELSE @]
  <1>3. /\ q.pc = "raised" /\ q.cand = task[t].cand /\ q.checked = task[t].checked
        /\ q.bought = task[t].bought
        /\ q.unsure = IF placed THEN task[t].unsure \cup {task[t].pos} ELSE task[t].unsure
    BY <1>1 DEF Call
  <1> HIDE DEF q
  <1>4. Told(q)
    BY <1>1, <1>2, <1>3 DEF Told, Awaiting
  <1>5. QED
    BY <1>2, <1>4, OneCallKeepsTruth DEF q

LEMMA TruthInvariant == Spec => []TruthInv
  <1>1. Init => TruthInv
    BY DEF Init, TruthInv, Told, NoCall
  <1>2. TypeOK /\ TruthInv /\ [Next]_vars => TruthInv'
    <2> SUFFICES ASSUME TypeOK, TruthInv, [Next]_vars PROVE TruthInv'
      OBVIOUS
    <2>1. ASSUME NEW t \in Tasks, NEW c \in Candidate, Execute(t, c) PROVE TruthInv'
      BY <2>1, ExecuteKeepsTruth
    <2>2. ASSUME NEW t \in Tasks, Reply(t) \/ Interrupt(t) PROVE TruthInv'
      BY <2>2, VerifyKeepsTruth, BuyingKeepsTruth, AcceptedKeepsTruth, SucceededKeepsTruth,
         InterruptKeepsTruth DEF Reply
    <2>3. CASE \/ \E l \in Listing : ManualReconciliation(l)
               \/ Tick \/ UNCHANGED vars
      BY <2>3 DEF ManualReconciliation, Tick, vars, TruthInv
    <2>4. QED
      BY <2>1, <2>2, <2>3 DEF Next
  <1>3. QED
    BY <1>1, <1>2, TypeCorrect, PTL DEF Spec

(* A call orders only what it re-checked and reports what became of it:     *)
(* whatever venues answer, whatever raises, and however long claims last    *)
(* (purchasing/auto_buyer.py:184-321).                                      *)
THEOREM OutcomesTruthful == Spec => []OutcomesAreTruthful
  <1>1. TruthInv => OutcomesAreTruthful
    BY DEF TruthInv, Told, OutcomesAreTruthful, NothingOrderedUnchecked, ResultsTellTheTruth
  <1>2. QED
    BY <1>1, TruthInvariant, PTL

-----------------------------------------------------------------------------
(* A call owns the soft claims it has still to order: its whole bundle      *)
(* while it re-checks, what lies after its position while it buys.  The     *)
(* property itself is not inductive: it does not say that the call will     *)
(* come to the listing, so that it may end without releasing it.            *)
Owns(r, c, l) ==
  /\ r.pc \in {"verify", "submit", "reconcile"} /\ r.cand = c
  /\ \E j \in 1..Size(c) : Bundle[c][j] = l /\ (r.pc = "verify" \/ j > r.pos)

SoftInv ==
  \A l \in Listing :
    book[l].state = "SOFT_RESERVED" =>
      \/ book[l].cand \in broken
      \/ \E t \in Tasks : Owns(task[t], book[l].cand, l)

(* A step of one call keeps SoftInv if it makes no soft claim and gives up  *)
(* none it owned.                                                           *)
LEMMA OneCallKeepsSoft ==
  ASSUME TypeOK, SoftInv, NEW t \in Tasks, NEW r, task' = [task EXCEPT ![t] = r],
         broken \subseteq broken',
         \A l \in Listing : book'[l].state = "SOFT_RESERVED" =>
           /\ book[l].state = "SOFT_RESERVED" /\ book'[l].cand = book[l].cand
           /\ Owns(task[t], book[l].cand, l) =>
                Owns(r, book[l].cand, l) \/ book[l].cand \in broken'
  PROVE  SoftInv'
  <1> SUFFICES ASSUME NEW l \in Listing, book'[l].state = "SOFT_RESERVED", book'[l].cand \notin broken'
               PROVE  \E u \in Tasks : Owns(task'[u], book'[l].cand, l)
    BY DEF SoftInv, Owns
  <1>1. book[l].state = "SOFT_RESERVED" /\ book'[l].cand = book[l].cand /\ book[l].cand \notin broken
    OBVIOUS
  <1>2. PICK u \in Tasks : Owns(task[u], book[l].cand, l)
    BY <1>1 DEF SoftInv
  <1>3. task'[t] = r /\ \A w \in Tasks \ {t} : task'[w] = task[w]
    BY DEF TypeOK
  <1>4. CASE u = t
    BY <1>1, <1>2, <1>3, <1>4
  <1>5. CASE u # t
    BY <1>1, <1>2, <1>3, <1>5
  <1>6. QED
    BY <1>4, <1>5

(* Moving claims to a state that is not soft makes none soft.               *)
LEMMA MovesMakeNoneSoft ==
  ASSUME NEW b \in Book, NEW S, NEW target, target # "SOFT_RESERVED"
  PROVE  \A l \in Listing :
           Moved(b, S, target)[l].state = "SOFT_RESERVED" =>
             /\ b[l].state = "SOFT_RESERVED" /\ l \notin S
             /\ Moved(b, S, target)[l] = b[l]
  BY DEF Moved, Book, Reservation

LEMMA OrderKeepsSoft ==
  ASSUME TypeOK, SoftInv, NEW t \in Tasks, NEW b \in Book, NEW r \in Call, NEW i \in Nat \ {0},
         r.cand \in Candidate, Order(t, b, r, i), broken \subseteq broken',
         \A l \in Listing : b[l].state = "SOFT_RESERVED" =>
           /\ book[l].state = "SOFT_RESERVED" /\ b[l].cand = book[l].cand
           /\ Owns(task[t], book[l].cand, l) =>
                /\ book[l].cand = r.cand
                /\ \E j \in 1..Size(r.cand) : Bundle[r.cand][j] = l /\ j >= i
  PROVE  SoftInv'
  <1>1. Size(r.cand) \in Nat
    BY BundleListings
  <1>2. CASE /\ i > Size(r.cand) /\ book' = b
             /\ task' = [task EXCEPT ![t] = [r EXCEPT !.pc = "returned"]]
    <2>1. \A j \in 1..Size(r.cand) : ~(j >= i)
      BY <1>1, <1>2
    <2>2. QED
      BY <1>2, <2>1, OneCallKeepsSoft
  <1>3. CASE /\ i <= Size(r.cand) /\ book' = Moved(b, {Bundle[r.cand][i]}, "PURCHASE_PENDING")
             /\ task' = [task EXCEPT ![t] = [r EXCEPT !.pc = "submit", !.pos = i]]
    <2> DEFINE q == [r EXCEPT !.pc = "submit", !.pos = i]
    <2>1. q.pc = "submit" /\ q.cand = r.cand /\ q.pos = i
      BY DEF Call
    <2> HIDE DEF q
    <2>2. ASSUME NEW l \in Listing, book'[l].state = "SOFT_RESERVED"
          PROVE  /\ book[l].state = "SOFT_RESERVED" /\ book'[l].cand = book[l].cand
                 /\ Owns(task[t], book[l].cand, l) => Owns(q, book[l].cand, l)
      <3>1. b[l].state = "SOFT_RESERVED" /\ l # Bundle[r.cand][i] /\ book'[l] = b[l]
        BY <1>3, <2>2, MovesMakeNoneSoft
      <3>2. book[l].state = "SOFT_RESERVED" /\ book'[l].cand = book[l].cand
        BY <3>1
      <3>3. ASSUME Owns(task[t], book[l].cand, l)
            PROVE  Owns(q, book[l].cand, l)
        <4>1. PICK j \in 1..Size(r.cand) : Bundle[r.cand][j] = l /\ j >= i /\ book[l].cand = r.cand
          BY <3>1, <3>3
        <4>2. j > q.pos
          BY <1>1, <2>1, <3>1, <4>1
        <4>3. QED
          BY <2>1, <4>1, <4>2 DEF Owns
      <3>4. QED
        BY <3>2, <3>3
    <2>3. task' = [task EXCEPT ![t] = q]
      BY <1>3 DEF q
    <2>4. \A l \in Listing : book'[l].state = "SOFT_RESERVED" =>
            /\ book[l].state = "SOFT_RESERVED" /\ book'[l].cand = book[l].cand
            /\ Owns(task[t], book[l].cand, l) =>
                 Owns(q, book[l].cand, l) \/ book[l].cand \in broken'
      BY <2>2
    <2>5. QED
      BY <2>3, <2>4, OneCallKeepsSoft
  <1>4. CASE /\ book' = b /\ broken' = broken \cup {r.cand}
             /\ task' = [task EXCEPT ![t] = [r EXCEPT !.pc = "illegal"]]
    <2> DEFINE q == [r EXCEPT !.pc = "illegal"]
    <2>1. \A l \in Listing : book'[l].state = "SOFT_RESERVED" =>
            /\ book[l].state = "SOFT_RESERVED" /\ book'[l].cand = book[l].cand
            /\ Owns(task[t], book[l].cand, l) =>
                 Owns(q, book[l].cand, l) \/ book[l].cand \in broken'
      <3>1. \A l \in Listing : book'[l] = b[l]
        BY <1>4
      <3>2. r.cand \in broken'
        BY <1>4
      <3> HIDE DEF q
      <3>3. QED
        BY <3>1, <3>2
    <2>2. task' = [task EXCEPT ![t] = q]
      BY <1>4
    <2> HIDE DEF q
    <2>3. QED
      BY <2>1, <2>2, OneCallKeepsSoft
  <1>5. QED
    BY <1>1, <1>2, <1>3, <1>4 DEF Order

LEMMA ExecuteKeepsSoft ==
  ASSUME TypeOK, SoftInv, NEW t \in Tasks, NEW c \in Candidate, Execute(t, c)
  PROVE  SoftInv'
  <1>1. \A d, l : ~Owns(task[t], d, l)
    BY DEF Execute, Awaiting, Owns
  <1>2. broken' = broken
    BY DEF Execute, history
  <1>3. CASE book' = book
    <2>1. \E r : task' = [task EXCEPT ![t] = r]
      BY DEF Execute
    <2>2. QED
      BY <1>1, <1>2, <1>3, <2>1, OneCallKeepsSoft
  <1>4. CASE /\ book' = Claimed(book, c, ListingsFrom(c, 1), now)
             /\ task' = [task EXCEPT ![t] = [NoCall EXCEPT !.pc = "verify", !.cand = c, !.pos = 1]]
    <2> DEFINE q == [NoCall EXCEPT !.pc = "verify", !.cand = c, !.pos = 1]
    <2>1. q.pc = "verify" /\ q.cand = c
      BY DEF NoCall
    <2>2. task'[t] = q /\ \A u \in Tasks \ {t} : task'[u] = task[u]
      BY <1>4 DEF TypeOK
    <2> HIDE DEF q
    <2> SUFFICES ASSUME NEW l \in Listing, book'[l].state = "SOFT_RESERVED", book'[l].cand \notin broken'
                 PROVE  \E u \in Tasks : Owns(task'[u], book'[l].cand, l)
      BY DEF SoftInv, Owns
    <2>3. CASE l \in ListingsFrom(c, 1)
      <3>1. book'[l].cand = c
        BY <1>4, <2>3 DEF Claimed
      <3>2. \E j \in 1..Size(c) : Bundle[c][j] = l
        BY <2>3 DEF ListingsFrom
      <3>3. Owns(q, c, l)
        BY <2>1, <3>2 DEF Owns
      <3>4. QED
        BY <2>2, <3>1, <3>3
    <2>4. CASE l \notin ListingsFrom(c, 1)
      <3>1. book'[l] = book[l]
        BY <1>4, <2>4 DEF Claimed
      <3>2. PICK u \in Tasks : Owns(task[u], book[l].cand, l)
        BY <1>2, <3>1 DEF SoftInv
      <3>3. u # t
        BY <1>1, <3>2
      <3>4. QED
        BY <2>2, <3>1, <3>2, <3>3
    <2>5. QED
      BY <2>3, <2>4
  <1>5. QED
    BY <1>3, <1>4 DEF Execute

LEMMA VerifyKeepsSoft ==
  ASSUME TypeOK, SoftInv, NEW t \in Tasks, VerifyReply(t)
  PROVE  SoftInv'
  <1> DEFINE c == task[t].cand
             i == task[t].pos
             r == [task[t] EXCEPT !.checked = @ \cup {i}]
  <1>1. Awaiting(t) /\ task[t].pc = "verify"
    BY DEF VerifyReply, Awaiting
  <1>2. task[t] \in Call /\ c \in Candidate /\ i \in 1..Size(c) /\ Size(c) \in Nat /\ book \in Book
    BY <1>1, AwaitingCall, BundleListings DEF TypeOK
  <1>3. r \in Call /\ r.cand = c /\ r.pc = "verify"
    BY <1>1, <1>2, BundleListings DEF Call, Positions
  <1>4. \A l : Owns(task[t], book[l].cand, l) =>
               /\ book[l].cand = c /\ \E j \in 1..Size(c) : Bundle[c][j] = l /\ j >= 1
    BY <1>1 DEF Owns
  <1>5. CASE /\ book' = ReleaseOf(book, c) /\ broken' = broken
             /\ \E v : task' = [task EXCEPT ![t].pc = "returned",
                                  ![t].results = AbortResults(c, i, Verdict(v))]
    <2>1. PICK q : task' = [task EXCEPT ![t] = q]
      BY <1>5
    <2>2. ASSUME NEW l \in Listing, book'[l].state = "SOFT_RESERVED"
          PROVE  /\ book[l].state = "SOFT_RESERVED" /\ book'[l].cand = book[l].cand
                 /\ ~Owns(task[t], book[l].cand, l)
      <3>1. book[l].state = "SOFT_RESERVED" /\ l \notin Releasable(book, c) /\ book'[l] = book[l]
        BY <1>2, <1>5, <2>2, MovesMakeNoneSoft DEF ReleaseOf
      <3>2. IsActive(book[l]) /\ CanTransition(book[l], "RELEASED")
        BY <3>1 DEF IsActive, ActiveStates, CanTransition, Transitions, ReservationState
      <3>3. book[l].cand # c
        BY <3>1, <3>2 DEF Releasable
      <3>4. QED
        BY <1>4, <3>1, <3>3
    <2>3. \A l \in Listing : book'[l].state = "SOFT_RESERVED" =>
            /\ book[l].state = "SOFT_RESERVED" /\ book'[l].cand = book[l].cand
            /\ Owns(task[t], book[l].cand, l) =>
                 Owns(q, book[l].cand, l) \/ book[l].cand \in broken'
      BY <2>2
    <2>4. QED
      BY <1>5, <2>1, <2>3, OneCallKeepsSoft
  <1>6. CASE /\ task' = [task EXCEPT ![t] = [r EXCEPT !.pos = i + 1]]
             /\ book' = book /\ broken' = broken
    <2> DEFINE q == [r EXCEPT !.pos = i + 1]
    <2>1. q.pc = "verify" /\ q.cand = c
      BY <1>3 DEF Call
    <2> HIDE DEF q
    <2>2. \A l : Owns(task[t], book[l].cand, l) => Owns(q, book[l].cand, l)
      BY <2>1 DEF Owns
    <2>3. QED
      BY <1>6, <2>2, OneCallKeepsSoft DEF q
  <1>7. CASE Order(t, book, r, 1)
    <2>1. broken \subseteq broken'
      BY <1>7 DEF Order
    <2> HIDE DEF r
    <2>2. QED
      BY <1>2, <1>3, <1>4, <1>7, <2>1, OrderKeepsSoft
  <1>8. QED
    BY <1>5, <1>6, <1>7 DEF VerifyReply

LEMMA BuyingKeepsSoft ==
  ASSUME TypeOK, SoftInv, NEW t \in Tasks,
         SubmitRefused(t) \/ ReconcileRefused(t) \/ ReconcileFailed(t)
  PROVE  SoftInv'
  <1> DEFINE c == task[t].cand
             i == task[t].pos
  <1>1. Awaiting(t) /\ task[t].pc \in {"submit", "reconcile"} /\ book \in Book
    BY DEF SubmitRefused, ReconcileRefused, ReconcileFailed, Awaiting, TypeOK
  <1>2. c \in Candidate /\ i \in 1..Size(c) /\ Size(c) \in Nat
    BY <1>1, AwaitingCall, BundleListings
  <1>3. PICK k \in {i, i + 1} : book' = ReleaseUnbought(book, ListingsFrom(c, k))
    BY DEF SubmitRefused, ReconcileRefused, ReconcileFailed, Rest
  <1>4. PICK q : task' = [task EXCEPT ![t] = q] /\ broken' = broken
    BY DEF SubmitRefused, ReconcileRefused, ReconcileFailed, history
  <1>5. ASSUME NEW l \in Listing, book'[l].state = "SOFT_RESERVED"
        PROVE  /\ book[l].state = "SOFT_RESERVED" /\ book'[l].cand = book[l].cand
               /\ ~Owns(task[t], book[l].cand, l)
    <2>1. /\ book[l].state = "SOFT_RESERVED" /\ book'[l] = book[l]
          /\ l \notin {m \in ListingsFrom(c, k) : IsActive(book[m]) /\ book[m].state # "PURCHASED"}
      BY <1>1, <1>3, <1>5, MovesMakeNoneSoft DEF ReleaseUnbought
    <2>2. l \notin ListingsFrom(c, k)
      BY <2>1 DEF IsActive, ActiveStates
    <2>3. \A j \in 1..Size(c) : j > i => Bundle[c][j] # l
      <3>1. \A j \in 1..Size(c) : j > i => j \in k..Size(c)
        BY <1>2
      <3>2. QED
        BY <2>2, <3>1 DEF ListingsFrom
    <2>4. QED
      BY <1>1, <2>1, <2>3 DEF Owns
  <1>6. \A l \in Listing : book'[l].state = "SOFT_RESERVED" =>
          /\ book[l].state = "SOFT_RESERVED" /\ book'[l].cand = book[l].cand
          /\ Owns(task[t], book[l].cand, l) =>
               Owns(q, book[l].cand, l) \/ book[l].cand \in broken'
    BY <1>5
  <1>7. QED
    BY <1>4, <1>6, OneCallKeepsSoft

LEMMA AcceptedKeepsSoft ==
  ASSUME TypeOK, SoftInv, NEW t \in Tasks, SubmitAccepted(t)
  PROVE  SoftInv'
  <1> DEFINE q == [task[t] EXCEPT !.pc = "reconcile", !.outlay = @ + Price[Item(t)]]
  <1>1. /\ task[t].pc = "submit" /\ task' = [task EXCEPT ![t] = q] /\ book' = book /\ broken' = broken
    BY DEF SubmitAccepted, history
  <1>2. q.pc = "reconcile" /\ q.cand = task[t].cand /\ q.pos = task[t].pos
    BY AwaitingCall, <1>1 DEF Call, Awaiting
  <1> HIDE DEF q
  <1>3. \A l \in Listing : Owns(task[t], book[l].cand, l) => Owns(q, book[l].cand, l)
    BY <1>1, <1>2 DEF Owns
  <1>4. QED
    BY <1>1, <1>3, OneCallKeepsSoft

LEMMA SucceededKeepsSoft ==
  ASSUME TypeOK, SoftInv, NEW t \in Tasks, ReconcileSucceeded(t)
  PROVE  SoftInv'
  <1> DEFINE c == task[t].cand
             i == task[t].pos
             r == [task[t] EXCEPT !.bought = @ \cup {i}, !.results = Append(@, "SUCCEEDED")]
             b == Moved(book, {Item(t)}, "PURCHASED")
             n == i + 1
  <1>1. Awaiting(t) /\ task[t].pc = "reconcile" /\ book \in Book
    BY DEF ReconcileSucceeded, Awaiting, TypeOK
  <1>2. task[t] \in Call /\ c \in Candidate /\ i \in 1..Size(c) /\ Size(c) \in Nat /\ i \in Nat
    BY <1>1, AwaitingCall, BundleListings
  <1>3. r \in Call /\ r.cand = c
    BY <1>2, ResultsAreStatuses DEF Call, Positions, ExecutionStatus
  <1>4. CASE Order(t, b, r, n)
    <2>1. broken \subseteq broken'
      BY <1>4 DEF Order
    <2>2. b \in Book
      BY <1>1, MovedIsBook DEF ReservationState
    <2>3. \A l \in Listing : b[l].state = "SOFT_RESERVED" =>
            book[l].state = "SOFT_RESERVED" /\ b[l].cand = book[l].cand
      BY <1>1, MovesMakeNoneSoft
    <2>4. \A l : Owns(task[t], book[l].cand, l) =>
                 /\ book[l].cand = c /\ \E j \in 1..Size(c) : Bundle[c][j] = l /\ j >= n
      BY <1>1, <1>2 DEF Owns
    <2>5. n \in Nat \ {0}
      BY <1>2
    <2> HIDE DEF r, b, n
    <2>6. QED
      BY <1>2, <1>3, <1>4, <2>1, <2>2, <2>3, <2>4, <2>5, OrderKeepsSoft
  <1>5. CASE /\ task' = [task EXCEPT ![t] = [r EXCEPT !.pc = "illegal"]]
             /\ broken' = broken \cup {c} /\ book' = book
    BY <1>5, OneCallKeepsSoft DEF Owns
  <1>6. QED
    BY <1>4, <1>5 DEF ReconcileSucceeded

LEMMA InterruptKeepsSoft ==
  ASSUME TypeOK, SoftInv, NEW t \in Tasks, Interrupt(t)
  PROVE  SoftInv'
  <1>1. \E q : task' = [task EXCEPT ![t] = q]
    BY DEF Interrupt
  <1>2. book' = book /\ broken' = broken \cup {task[t].cand}
    BY DEF Interrupt
  <1>3. \A l \in Listing : Owns(task[t], book[l].cand, l) => book[l].cand \in broken'
    BY <1>2 DEF Owns
  <1>4. QED
    BY <1>1, <1>2, <1>3, OneCallKeepsSoft

(* No call leaves a soft claim behind when it returns: whoever executes the *)
(* same candidate again, and however long ago the claim lapsed              *)
(* (purchasing/auto_buyer.py:257-326).                                      *)
THEOREM SoftClaimsOwned == Spec => []SoftClaimsAreOwned
  <1>1. Init => SoftInv
    BY DEF Init, SoftInv, EmptyBook, NoReservation
  <1>2. TypeOK /\ SoftInv /\ [Next]_vars => SoftInv'
    <2> SUFFICES ASSUME TypeOK, SoftInv, [Next]_vars PROVE SoftInv'
      OBVIOUS
    <2>1. ASSUME NEW t \in Tasks, NEW c \in Candidate, Execute(t, c) PROVE SoftInv'
      BY <2>1, ExecuteKeepsSoft
    <2>2. ASSUME NEW t \in Tasks, Reply(t) \/ Interrupt(t) PROVE SoftInv'
      BY <2>2, VerifyKeepsSoft, BuyingKeepsSoft, AcceptedKeepsSoft, SucceededKeepsSoft,
         InterruptKeepsSoft DEF Reply
    <2>3. ASSUME NEW l \in Listing, ManualReconciliation(l) PROVE SoftInv'
      <3>1. /\ task' = task /\ broken' = broken
            /\ \E s \in {"PURCHASED", "RELEASED"} : book' = Moved(book, {l}, s)
        BY <2>3 DEF ManualReconciliation
      <3>2. \A m \in Listing : book'[m].state = "SOFT_RESERVED" =>
              book[m].state = "SOFT_RESERVED" /\ book'[m] = book[m]
        BY <3>1, MovesMakeNoneSoft DEF TypeOK
      <3>3. QED
        BY <3>1, <3>2 DEF SoftInv
    <2>4. CASE Tick \/ UNCHANGED vars
      BY <2>4 DEF Tick, vars, history, SoftInv
    <2>5. QED
      BY <2>1, <2>2, <2>3, <2>4 DEF Next
  <1>3. SoftInv => SoftClaimsAreOwned
    BY DEF SoftInv, Owns, SoftClaimsAreOwned, Awaiting
  <1>4. QED
    BY <1>1, <1>2, <1>3, TypeCorrect, PTL DEF Spec

-----------------------------------------------------------------------------
(* Claims lapse, and a candidate that is executed again claims its own      *)
(* listings afresh: neither has happened while no ttl has passed and no     *)
(* candidate was executed twice.                                            *)
Undisturbed == now < Ttl /\ \A c \in Candidate : calls[c] <= 1

(* The state the book has for input i while call r is in flight.            *)
Due(r, i) == IF r.pc = "verify" \/ i > r.pos THEN "SOFT_RESERVED"
             ELSE IF i = r.pos THEN "PURCHASE_PENDING" ELSE "PURCHASED"

(* Book b holds what call r needs, and agrees with what r did; lim are the  *)
(* orders nobody knows the outcome of.                                      *)
Kept(b, lim, r) ==
  /\ r.pc \in {"verify", "submit", "reconcile"} =>
       \A i \in 1..Size(r.cand) : /\ b[Bundle[r.cand][i]].cand = r.cand
                                  /\ b[Bundle[r.cand][i]].state = Due(r, i)
  /\ r.pc = "returned" =>
       \A i \in 1..Size(r.cand) :
         LET l == Bundle[r.cand][i]
             mine == b[l].cand = r.cand
         IN /\ i \in r.bought => mine /\ b[l].state = "PURCHASED"
            /\ i \in r.unsure /\ <<r.cand, l>> \in lim => mine /\ b[l].state = "PURCHASE_PENDING"
            /\ i \notin r.bought \cup r.unsure => ~(mine /\ IsActive(b[l]))

(* The strengthening of ClaimsFollowCalls and OneOrderPerListing: whoever   *)
(* the book names was executed and its claim has not lapsed, no two calls   *)
(* are of one candidate, a filled listing stays PURCHASED, and an order     *)
(* nobody could reconcile stays PURCHASE_PENDING for its candidate, which   *)
(* has no call in flight.                                                   *)
EntriesOwned ==
  \A l \in Listing : book[l].state # "UNCLAIMED" =>
    book[l].cand \in Candidate /\ book[l].expires >= Ttl /\ calls[book[l].cand] >= 1

OneCallEach ==
  \A t \in Tasks : task[t].pc # "idle" =>
    /\ task[t].cand \in Candidate /\ calls[task[t].cand] >= 1
    /\ \A u \in Tasks \ {t} : task[u].pc # "idle" => task[u].cand # task[t].cand

CallsKept == \A t \in Tasks : Kept(book, limbo, task[t])

FilledStays == \A l \in filled : book[l].state = "PURCHASED"

LimboStays ==
  \A c \in Candidate, l \in Listing : <<c, l>> \in limbo =>
    /\ book[l].state = "PURCHASE_PENDING" /\ book[l].cand = c
    /\ \A t \in Tasks : Awaiting(t) => task[t].cand # c

ClaimInv == EntriesOwned /\ OneCallEach /\ CallsKept /\ FilledStays /\ LimboStays

(* From book b1 to b2 only what c held, or nobody did, changed hands, to c. *)
OwnStep(b1, b2, c) ==
  \A l \in Listing :
    b2[l] = b1[l] \/ /\ b2[l].cand = c /\ b2[l].expires >= Ttl
                     /\ b1[l].cand = c \/ ~IsActive(b1[l])

LEMMA OwnStepsCompose ==
  ASSUME NEW b1, NEW b2, NEW b3, NEW c, OwnStep(b1, b2, c), OwnStep(b2, b3, c)
  PROVE  OwnStep(b1, b3, c)
  BY DEF OwnStep

LEMMA MovedIsOwn ==
  ASSUME NEW b \in Book, NEW c, NEW S, NEW target,
         \A l \in S \cap Listing : b[l].cand = c /\ b[l].expires >= Ttl
  PROVE  OwnStep(b, Moved(b, S, target), c)
  BY DEF OwnStep, Moved, Book, Reservation

(* One step of a call r of candidate c, which has no other call and no      *)
(* order in limbo, keeps the claims of everyone.                            *)
LEMMA OneCallKeepsClaims ==
  ASSUME TypeOK, TypeOK', ClaimInv, NEW t \in Tasks, NEW c \in Candidate, NEW r,
         task' = [task EXCEPT ![t] = r], r.cand = c, r.pc # "idle",
         \A d \in Candidate : calls'[d] >= calls[d], calls'[c] >= 1,
         \A u \in Tasks \ {t} : task[u].pc # "idle" => task[u].cand # c,
         \A l \in Listing : <<c, l>> \notin limbo,
         OwnStep(book, book', c),
         \A l \in filled' : book'[l].state = "PURCHASED",
         \/ limbo' = limbo
         \/ \E l \in Listing :
              /\ limbo' = limbo \cup {<<c, l>>}
              /\ book'[l].state = "PURCHASE_PENDING" /\ book'[l].cand = c
              /\ r.pc \notin {"verify", "submit", "reconcile"},
         Kept(book', limbo', r)
  PROVE  ClaimInv'
  <1>1. task'[t] = r /\ \A u \in Tasks \ {t} : task'[u] = task[u]
    BY DEF TypeOK
  <1>2. EntriesOwned'
    <2> SUFFICES ASSUME NEW l \in Listing, book'[l].state # "UNCLAIMED"
                 PROVE  /\ book'[l].cand \in Candidate /\ book'[l].expires >= Ttl
                        /\ calls'[book'[l].cand] >= 1
      BY DEF EntriesOwned
    <2>1. CASE book'[l] = book[l]
      <3>1. /\ book[l].cand \in Candidate /\ book[l].expires >= Ttl
            /\ calls[book[l].cand] >= 1
        BY <2>1 DEF ClaimInv, EntriesOwned
      <3>2. calls[book[l].cand] \in Nat /\ calls'[book[l].cand] \in Nat
        BY <3>1 DEF TypeOK
      <3>3. QED
        BY <2>1, <3>1, <3>2
    <2>2. CASE book'[l].cand = c /\ book'[l].expires >= Ttl
      BY <2>2
    <2>3. QED
      BY <2>1, <2>2 DEF OwnStep
  <1>3. OneCallEach'
    <2>1. ASSUME NEW u \in Tasks \ {t}, task[u].pc # "idle"
          PROVE  task[u].cand \in Candidate /\ calls'[task[u].cand] >= 1
      <3>1. task[u].cand \in Candidate /\ calls[task[u].cand] >= 1
        BY <2>1 DEF ClaimInv, OneCallEach
      <3>2. calls[task[u].cand] \in Nat /\ calls'[task[u].cand] \in Nat
        BY <3>1 DEF TypeOK
      <3>3. QED
        BY <3>1, <3>2
    <2>2. ASSUME NEW u \in Tasks, NEW w \in Tasks, u # w, task'[u].pc # "idle", task'[w].pc # "idle"
          PROVE  task'[u].cand # task'[w].cand
      BY <1>1, <2>2 DEF ClaimInv, OneCallEach
    <2>3. QED
      BY <1>1, <2>1, <2>2 DEF OneCallEach
  <1>4. ASSUME NEW d \in Candidate \ {c}, NEW l \in Listing, book[l].cand = d, IsActive(book[l])
        PROVE  book'[l] = book[l]
    BY <1>4 DEF OwnStep
  <1>5. \A d \in Candidate \ {c}, l \in Listing : <<d, l>> \in limbo' <=> <<d, l>> \in limbo
    OBVIOUS
  <1>6. CallsKept'
    <2>1. ASSUME NEW u \in Tasks \ {t}, Kept(book, limbo, task[u])
          PROVE  Kept(book', limbo', task[u])
      <3> DEFINE d == task[u].cand
      <3>1. CASE task[u].pc = "idle"
        BY <3>1 DEF Kept
      <3>2. CASE task[u].pc # "idle"
        <4>1. d \in Candidate \ {c}
          BY <3>2 DEF ClaimInv, OneCallEach
        <4>2. \A i \in 1..Size(d) : Bundle[d][i] \in Listing
          BY <4>1, BundleListings
        <4>3. ASSUME task[u].pc \in {"verify", "submit", "reconcile"}, NEW i \in 1..Size(d)
              PROVE  book'[Bundle[d][i]] = book[Bundle[d][i]]
          <5>1. book[Bundle[d][i]].cand = d /\ IsActive(book[Bundle[d][i]])
            BY <2>1, <4>3 DEF Kept, Due, IsActive, ActiveStates
          <5>2. QED
            BY <1>4, <4>1, <4>2, <5>1
        <4>4. ASSUME task[u].pc = "returned", NEW i \in 1..Size(d), NEW l, l = Bundle[d][i]
              PROVE  /\ i \in task[u].bought => book'[l].cand = d /\ book'[l].state = "PURCHASED"
                     /\ i \in task[u].unsure /\ <<d, l>> \in limbo' =>
                          book'[l].cand = d /\ book'[l].state = "PURCHASE_PENDING"
                     /\ i \notin task[u].bought \cup task[u].unsure =>
                          ~(book'[l].cand = d /\ IsActive(book'[l]))
          <5>1. /\ i \in task[u].bought => book[l].cand = d /\ book[l].state = "PURCHASED"
                /\ i \in task[u].unsure /\ <<d, l>> \in limbo =>
                     book[l].cand = d /\ book[l].state = "PURCHASE_PENDING"
                /\ i \notin task[u].bought \cup task[u].unsure =>
                     ~(book[l].cand = d /\ IsActive(book[l]))
            BY <2>1, <4>4 DEF Kept
          <5>2. l \in Listing /\ (<<d, l>> \in limbo' <=> <<d, l>> \in limbo)
            BY <1>5, <4>1, <4>2, <4>4
          <5>3. book'[l] = book[l] \/ (book'[l].cand = c /\ ~(book[l].cand = d /\ IsActive(book[l])))
            BY <1>4, <4>1, <5>2 DEF OwnStep
          <5>4. book[l].state \in {"PURCHASED", "PURCHASE_PENDING"} => IsActive(book[l])
            BY DEF IsActive, ActiveStates
          <5>5. QED
            BY <4>1, <5>1, <5>2, <5>3, <5>4
        <4>5. QED
          BY <2>1, <4>3, <4>4 DEF Kept
      <3>3. QED
        BY <3>1, <3>2
    <2>2. QED
      BY <1>1, <2>1 DEF ClaimInv, CallsKept
  <1>7. LimboStays'
    <2> SUFFICES ASSUME NEW d \in Candidate, NEW l \in Listing, <<d, l>> \in limbo'
                 PROVE  /\ book'[l].state = "PURCHASE_PENDING" /\ book'[l].cand = d
                        /\ \A u \in Tasks : Awaiting(u)' => task'[u].cand # d
      BY DEF LimboStays
    <2>1. CASE d = c
      <3>1. PICK m \in Listing :
              /\ limbo' = limbo \cup {<<c, m>>}
              /\ book'[m].state = "PURCHASE_PENDING" /\ book'[m].cand = c
              /\ r.pc \notin {"verify", "submit", "reconcile"}
        BY <2>1
      <3>2. m = l
        BY <2>1, <3>1
      <3>3. ASSUME NEW u \in Tasks, Awaiting(u)'
            PROVE  task'[u].cand # d
        BY <1>1, <2>1, <3>1, <3>3 DEF Awaiting
      <3>4. QED
        BY <2>1, <3>1, <3>2, <3>3
    <2>2. CASE d # c
      <3>1. /\ book[l].state = "PURCHASE_PENDING" /\ book[l].cand = d
            /\ \A u \in Tasks : Awaiting(u) => task[u].cand # d
        BY <1>5, <2>2 DEF ClaimInv, LimboStays
      <3>2. book'[l] = book[l]
        BY <1>4, <2>2, <3>1 DEF IsActive, ActiveStates
      <3>3. \A u \in Tasks : Awaiting(u)' => task'[u].cand # d
        BY <1>1, <2>2, <3>1 DEF Awaiting
      <3>4. QED
        BY <3>1, <3>2, <3>3
    <2>3. QED
      BY <2>1, <2>2
  <1>8. QED
    BY <1>2, <1>3, <1>6, <1>7 DEF ClaimInv, FilledStays

LEMMA Distinct ==
  ASSUME NEW c \in Candidate, NEW i \in 1..Size(c), NEW j \in 1..Size(c), i # j
  PROVE  Bundle[c][i] # Bundle[c][j]
  BY BundleAssumption

(* The head of the buying loop: with all behind position i bought and all   *)
(* from it on claimed, the next intent goes pending or the call ends.       *)
LEMMA OrderKept ==
  ASSUME TypeOK, NEW t \in Tasks, NEW b \in Book, NEW r \in Call, NEW i \in Nat \ {0},
         r.cand \in Candidate, i <= Size(r.cand) + 1, Order(t, b, r, i),
         r.bought = 1..(i - 1), r.unsure = {},
         \A j \in 1..Size(r.cand) :
           /\ b[Bundle[r.cand][j]].cand = r.cand /\ b[Bundle[r.cand][j]].expires >= Ttl
           /\ b[Bundle[r.cand][j]].state = IF j < i THEN "PURCHASED" ELSE "SOFT_RESERVED"
  PROVE  \E q : /\ task' = [task EXCEPT ![t] = q] /\ q.cand = r.cand /\ q.pc # "idle"
                /\ OwnStep(b, book', r.cand)
                /\ \A l \in Listing : b[l].state = "PURCHASED" => book'[l] = b[l]
                /\ \A lim : Kept(book', lim, q)
  <1> DEFINE c == r.cand
  <1>1. Size(c) \in Nat /\ \A j \in 1..Size(c) : Bundle[c][j] \in Listing
    BY BundleListings
  <1>2. CASE i > Size(c)
    <2> DEFINE q == [r EXCEPT !.pc = "returned"]
    <2>1. task' = [task EXCEPT ![t] = q] /\ book' = b
      BY <1>1, <1>2 DEF Order
    <2>2. q.cand = c /\ q.pc = "returned" /\ q.bought = 1..Size(c) /\ q.unsure = {}
      BY <1>1, <1>2 DEF Call
    <2> HIDE DEF q
    <2>3. \A j \in 1..Size(c) : b[Bundle[c][j]].cand = c /\ b[Bundle[c][j]].state = "PURCHASED"
      BY <1>1, <1>2
    <2>4. \A lim : Kept(book', lim, q)
      BY <2>1, <2>2, <2>3 DEF Kept
    <2>5. OwnStep(b, book', c)
      BY <2>1 DEF OwnStep
    <2>6. QED
      BY <2>1, <2>2, <2>4, <2>5
  <1>3. CASE i <= Size(c)
    <2> DEFINE q == [r EXCEPT !.pc = "submit", !.pos = i]
               m == Bundle[c][i]
    <2>1. i \in 1..Size(c) /\ m \in Listing
      BY <1>1, <1>3
    <2>2. b[m].state = "SOFT_RESERVED"
      BY <2>1
    <2>3. CanTransition(b[m], "PURCHASE_PENDING")
      BY <2>2 DEF CanTransition, Transitions, ReservationState
    <2>4. task' = [task EXCEPT ![t] = q] /\ book' = Moved(b, {m}, "PURCHASE_PENDING")
      BY <1>1, <1>3, <2>3 DEF Order
    <2>5. q.cand = c /\ q.pc = "submit" /\ q.pos = i
      BY DEF Call
    <2> HIDE DEF q, m
    <2>6. OwnStep(b, book', c)
      <3>1. \A l \in {m} \cap Listing : b[l].cand = c /\ b[l].expires >= Ttl
        BY <2>1 DEF m
      <3>2. QED
        BY <2>4, <3>1, MovedIsOwn
    <2>7. \A l \in Listing : b[l].state = "PURCHASED" => book'[l] = b[l]
      BY <2>2, <2>4 DEF Moved
    <2>8. ASSUME NEW j \in 1..Size(c)
          PROVE  book'[Bundle[c][j]].cand = c /\ book'[Bundle[c][j]].state = Due(q, j)
      <3>1. Bundle[c][j] \in Listing /\ b[Bundle[c][j]] \in Reservation
        BY <1>1 DEF Book
      <3>2. CASE j = i
        BY <2>4, <2>5, <3>1, <3>2 DEF Moved, Due, Reservation, m
      <3>3. CASE j # i
        <4>1. Bundle[c][j] # m
          BY <2>1, <3>3, Distinct DEF m
        <4>2. book'[Bundle[c][j]] = b[Bundle[c][j]]
          BY <2>4, <3>1, <4>1 DEF Moved
        <4>3. Due(q, j) = IF j < i THEN "PURCHASED" ELSE "SOFT_RESERVED"
          BY <1>1, <2>1, <2>5, <3>3 DEF Due
        <4>4. QED
          BY <4>2, <4>3
      <3>4. QED
        BY <3>2, <3>3
    <2>9. \A lim : Kept(book', lim, q)
      BY <2>5, <2>8 DEF Kept
    <2>10. QED
      BY <2>4, <2>5, <2>6, <2>7, <2>9
  <1>4. QED
    BY <1>1, <1>2, <1>3

(* What a call in flight holds, by position.                                *)
LEMMA InFlight ==
  ASSUME TypeOK, TruthInv, ClaimInv, NEW t \in Tasks, Awaiting(t)
  PROVE  LET c == task[t].cand
             i == task[t].pos
         IN /\ task[t] \in Call /\ c \in Candidate /\ Size(c) \in Nat
            /\ i \in 1..Size(c) /\ i \in Nat
            /\ calls[c] >= 1
            /\ \A u \in Tasks \ {t} : task[u].pc # "idle" => task[u].cand # c
            /\ \A l \in Listing : <<c, l>> \notin limbo
            /\ \A j \in 1..Size(c) : /\ Bundle[c][j] \in Listing
                                     /\ book[Bundle[c][j]].cand = c
                                     /\ book[Bundle[c][j]].expires >= Ttl
                                     /\ book[Bundle[c][j]].state = Due(task[t], j)
            /\ task[t].unsure = {}
            /\ task[t].pc = "verify" => task[t].bought = {}
            /\ task[t].pc # "verify" => task[t].bought = 1..(i - 1)
  <1> DEFINE c == task[t].cand
             i == task[t].pos
  <1>1. task[t].pc \in {"verify", "submit", "reconcile"}
    BY DEF Awaiting
  <1>2. task[t] \in Call /\ c \in Candidate /\ i \in 1..Size(c) /\ Size(c) \in Nat
        /\ \A j \in 1..Size(c) : Bundle[c][j] \in Listing
    BY AwaitingCall, BundleListings
  <1>3. calls[c] >= 1 /\ \A u \in Tasks \ {t} : task[u].pc # "idle" => task[u].cand # c
    BY <1>1 DEF ClaimInv, OneCallEach
  <1>4. \A l \in Listing : <<c, l>> \notin limbo
    BY <1>2 DEF ClaimInv, LimboStays
  <1>5. \A j \in 1..Size(c) : book[Bundle[c][j]].cand = c /\ book[Bundle[c][j]].state = Due(task[t], j)
    BY <1>1 DEF ClaimInv, CallsKept, Kept
  <1>6. \A j \in 1..Size(c) : book[Bundle[c][j]].expires >= Ttl
    BY <1>2, <1>5 DEF ClaimInv, EntriesOwned, Due
  <1>7. /\ task[t].unsure = {}
        /\ task[t].pc = "verify" => task[t].bought = {}
        /\ task[t].pc # "verify" => task[t].bought = 1..(i - 1)
    BY <1>1 DEF TruthInv, Told
  <1>8. QED
    BY <1>2, <1>3, <1>4, <1>5, <1>6, <1>7

LEMMA ExecuteKeepsClaims ==
  ASSUME TypeOK, TypeOK', ClaimInv, Undisturbed, Undisturbed',
         NEW t \in Tasks, NEW c \in Candidate, Execute(t, c)
  PROVE  ClaimInv'
  <1>1. calls[c] = 0 /\ calls'[c] >= 1 /\ \A d \in Candidate : calls'[d] >= calls[d]
    BY DEF Execute, Undisturbed, TypeOK
  <1>2. \A u \in Tasks : task[u].pc # "idle" => task[u].cand # c
    BY <1>1 DEF ClaimInv, OneCallEach
  <1>3. \A l \in Listing : book[l].cand = c => book[l].state = "UNCLAIMED"
    BY <1>1 DEF ClaimInv, EntriesOwned
  <1>4. \A l \in Listing : <<c, l>> \notin limbo
    BY <1>3 DEF ClaimInv, LimboStays
  <1>5. filled' = filled /\ limbo' = limbo
    BY DEF Execute, history
  <1>6. CASE book' = book
    <2>1. PICK s \in {"BLOCKED_BY_POLICY", "NOT_ATTEMPTED"} :
            task' = [task EXCEPT ![t] = [NoCall EXCEPT
                       !.pc = "returned", !.cand = c, !.results = AllResults(c, s)]]
            \/ book' = Claimed(book, c, ListingsFrom(c, 1), now)
      BY DEF Execute
    <2> DEFINE q == [NoCall EXCEPT !.pc = "returned", !.cand = c, !.results = AllResults(c, s)]
    <2>2. q.pc = "returned" /\ q.pc # "idle" /\ q.cand = c /\ q.bought = {} /\ q.unsure = {}
      BY DEF NoCall
    <2>3. book' # Claimed(book, c, ListingsFrom(c, 1), now)
      <3>1. Bundle[c][1] \in ListingsFrom(c, 1) /\ Bundle[c][1] \in Listing
        <4>1. 1 \in 1..Size(c)
          BY BundleListings
        <4>2. QED
          BY <4>1, BundleListings DEF ListingsFrom
      <3>2. Claimed(book, c, ListingsFrom(c, 1), now)[Bundle[c][1]].cand = c
            /\ Claimed(book, c, ListingsFrom(c, 1), now)[Bundle[c][1]].state = "SOFT_RESERVED"
        BY <3>1 DEF Claimed
      <3>3. QED
        BY <1>3, <1>6, <3>1, <3>2
    <2> HIDE DEF q
    <2>4. Kept(book', limbo', q)
      <3>1. \A i \in 1..Size(c) : Bundle[c][i] \in Listing
        BY BundleListings
      <3>2. \A l \in Listing : book[l].cand = c => ~IsActive(book[l])
        BY <1>3 DEF IsActive, ActiveStates
      <3>3. QED
        BY <1>6, <2>2, <3>1, <3>2 DEF Kept
    <2>5. task' = [task EXCEPT ![t] = q]
      BY <2>1, <2>3 DEF q
    <2>6. OwnStep(book, book', c)
      BY <1>6 DEF OwnStep
    <2>7. \A l \in filled' : book'[l].state = "PURCHASED"
      BY <1>5, <1>6 DEF ClaimInv, FilledStays
    <2>8. QED
      BY <1>1, <1>2, <1>4, <1>5, <2>2, <2>4, <2>5, <2>6, <2>7, OneCallKeepsClaims
  <1>7. CASE /\ Conflicts(book, c, ListingsFrom(c, 1), now) = {}
             /\ book' = Claimed(book, c, ListingsFrom(c, 1), now)
             /\ task' = [task EXCEPT ![t] = [NoCall EXCEPT !.pc = "verify", !.cand = c, !.pos = 1]]
    <2> DEFINE q == [NoCall EXCEPT !.pc = "verify", !.cand = c, !.pos = 1]
               S == ListingsFrom(c, 1)
    <2>1. q.pc = "verify" /\ q.pc # "idle" /\ q.cand = c /\ q.pos = 1
      BY DEF NoCall
    <2> HIDE DEF q
    <2>2. \A l \in S : ~IsActive(book[l])
      <3> SUFFICES ASSUME NEW l \in S, IsActive(book[l]) PROVE FALSE
        OBVIOUS
      <3>1. l \in Listing
        BY BundleListings
      <3>2. book[l].state # "UNCLAIMED"
        BY DEF IsActive, ActiveStates
      <3>3. book[l].cand \in Candidate /\ book[l].expires >= Ttl /\ book[l].cand # c
        BY <1>3, <3>1, <3>2 DEF ClaimInv, EntriesOwned
      <3>4. ~IsExpired(book[l], now)
        BY <3>1, <3>3, BookAssumption DEF IsExpired, Undisturbed, TypeOK, Book, Reservation
      <3>5. Holder(book, l, now) = book[l].cand
        BY <3>4 DEF Holder
      <3>6. l \in Conflicts(book, c, S, now)
        BY <3>3, <3>5, BookAssumption DEF Conflicts, IsAvailable
      <3>7. QED
        BY <1>7, <3>6
    <2>3. \A l \in Listing : book'[l] = IF l \in S
                               THEN [state |-> "SOFT_RESERVED", cand |-> c, expires |-> now + Ttl]
                               ELSE book[l]
      BY <1>7 DEF Claimed
    <2>4. now + Ttl >= Ttl
      BY BookAssumption DEF TypeOK
    <2>5. OwnStep(book, book', c)
      BY <2>2, <2>3, <2>4 DEF OwnStep
    <2>6. \A l \in filled' : book'[l].state = "PURCHASED"
      <3>1. \A l \in filled : l \in Listing /\ book[l].state = "PURCHASED"
        BY DEF ClaimInv, FilledStays, TypeOK
      <3>2. \A l \in filled : l \notin S
        BY <2>2, <3>1 DEF IsActive, ActiveStates
      <3>3. QED
        BY <1>5, <2>3, <3>1, <3>2
    <2>7. Kept(book', limbo', q)
      <3>1. \A i \in 1..Size(c) : Bundle[c][i] \in S /\ Bundle[c][i] \in Listing
        BY BundleListings DEF ListingsFrom
      <3>2. QED
        BY <2>1, <2>3, <3>1 DEF Kept, Due
    <2>8. task' = [task EXCEPT ![t] = q]
      BY <1>7 DEF q
    <2>9. QED
      BY <1>1, <1>2, <1>4, <1>5, <2>1, <2>5, <2>6, <2>7, <2>8, OneCallKeepsClaims
  <1>8. QED
    BY <1>6, <1>7 DEF Execute

LEMMA VerifyKeepsClaims ==
  ASSUME TypeOK, TypeOK', TruthInv, ClaimInv, NEW t \in Tasks, VerifyReply(t)
  PROVE  ClaimInv'
  <1> DEFINE c == task[t].cand
             i == task[t].pos
             r == [task[t] EXCEPT !.checked = @ \cup {i}]
  <1>1. Awaiting(t) /\ task[t].pc = "verify"
    BY DEF VerifyReply, Awaiting
  <1>2. /\ task[t] \in Call /\ c \in Candidate /\ Size(c) \in Nat /\ i \in 1..Size(c)
        /\ calls[c] >= 1 /\ task[t].unsure = {} /\ task[t].bought = {}
        /\ \A u \in Tasks \ {t} : task[u].pc # "idle" => task[u].cand # c
        /\ \A l \in Listing : <<c, l>> \notin limbo
        /\ \A j \in 1..Size(c) : /\ Bundle[c][j] \in Listing
                                 /\ book[Bundle[c][j]].cand = c
                                 /\ book[Bundle[c][j]].expires >= Ttl
                                 /\ book[Bundle[c][j]].state = "SOFT_RESERVED"
    BY <1>1, InFlight DEF Due
  <1>3. calls' = calls /\ limbo' = limbo /\ filled' = filled /\ book \in Book
    BY DEF VerifyReply, TypeOK
  <1>4. \A d \in Candidate : calls'[d] >= calls[d]
    BY <1>3 DEF TypeOK
  <1>5. \A l \in filled : l \in Listing /\ book[l].state = "PURCHASED"
    BY DEF ClaimInv, FilledStays, TypeOK
  <1>6. r \in Call /\ r.cand = c /\ r.pc = "verify" /\ r.bought = {} /\ r.unsure = {}
    BY <1>1, <1>2, BundleListings DEF Call, Positions
  <1>7. CASE /\ book' = ReleaseOf(book, c)
             /\ \E v : task' = [task EXCEPT ![t].pc = "returned",
                                  ![t].results = AbortResults(c, i, Verdict(v))]
    <2>1. PICK v : task' = [task EXCEPT ![t] = [task[t] EXCEPT !.pc = "returned",
                              !.results = AbortResults(c, i, Verdict(v))]]
      BY <1>7
    <2> DEFINE q == [task[t] EXCEPT !.pc = "returned", !.results = AbortResults(c, i, Verdict(v))]
               S == Releasable(book, c)
    <2>2. q.pc = "returned" /\ q.pc # "idle" /\ q.cand = c /\ q.bought = {} /\ q.unsure = {}
      BY <1>2 DEF Call
    <2>3. task' = [task EXCEPT ![t] = q]
      BY <2>1
    <2> HIDE DEF q
    <2>4. \A l \in S : /\ l \in Listing /\ book[l].cand = c
                       /\ book[l].state \in {"SOFT_RESERVED", "PURCHASE_PENDING"}
      BY <1>3, LegalTargets DEF Releasable, Book
    <2>5. \A l \in S \cap Listing : book[l].cand = c /\ book[l].expires >= Ttl
      BY <2>4 DEF ClaimInv, EntriesOwned
    <2>6. OwnStep(book, book', c)
      <3>1. OwnStep(book, Moved(book, S, "RELEASED"), c)
        BY <1>3, <2>5, MovedIsOwn
      <3>2. QED
        BY <1>7, <3>1 DEF ReleaseOf
    <2>7. \A l \in filled' : book'[l].state = "PURCHASED"
      BY <1>3, <1>5, <1>7, <2>4 DEF ReleaseOf, Moved
    <2>8. Kept(book', limbo', q)
      <3>1. ASSUME NEW j \in 1..Size(c)
            PROVE  ~IsActive(book'[Bundle[c][j]])
        <4> DEFINE l == Bundle[c][j]
        <4>1. l \in Listing /\ book[l].cand = c /\ book[l].state = "SOFT_RESERVED"
          BY <1>2
        <4>2. IsActive(book[l]) /\ CanTransition(book[l], "RELEASED")
          BY <4>1 DEF IsActive, ActiveStates, CanTransition, Transitions, ReservationState
        <4>3. l \in S
          BY <4>1, <4>2 DEF Releasable
        <4>4. book'[l].state = "RELEASED"
          BY <1>3, <1>7, <4>1, <4>3 DEF ReleaseOf, Moved, Book, Reservation
        <4>5. QED
          BY <4>4 DEF IsActive, ActiveStates
      <3>2. QED
        BY <2>2, <3>1 DEF Kept
    <2>9. QED
      BY <1>2, <1>3, <1>4, <2>2, <2>3, <2>6, <2>7, <2>8, OneCallKeepsClaims
  <1>8. CASE task' = [task EXCEPT ![t] = [r EXCEPT !.pos = i + 1]] /\ book' = book
    <2> DEFINE q == [r EXCEPT !.pos = i + 1]
    <2>1. q.pc = "verify" /\ q.pc # "idle" /\ q.cand = c
      BY <1>6 DEF Call
    <2>2. task' = [task EXCEPT ![t] = q]
      BY <1>8
    <2> HIDE DEF q
    <2>3. Kept(book', limbo', q)
      BY <1>2, <1>8, <2>1 DEF Kept, Due
    <2>4. OwnStep(book, book', c)
      BY <1>8 DEF OwnStep
    <2>5. \A l \in filled' : book'[l].state = "PURCHASED"
      BY <1>3, <1>5, <1>8
    <2>6. QED
      BY <1>2, <1>3, <1>4, <2>1, <2>2, <2>3, <2>4, <2>5, OneCallKeepsClaims
  <1>9. CASE Order(t, book, r, 1)
    <2> DEFINE n == 1
    <2>1. /\ r.bought = 1..(n - 1) /\ n <= Size(r.cand) + 1 /\ n \in Nat \ {0}
          /\ Order(t, book, r, n)
      BY <1>2, <1>6, <1>9
    <2>2. \A j \in 1..Size(r.cand) :
            /\ book[Bundle[r.cand][j]].cand = r.cand /\ book[Bundle[r.cand][j]].expires >= Ttl
            /\ book[Bundle[r.cand][j]].state = IF j < n THEN "PURCHASED" ELSE "SOFT_RESERVED"
      BY <1>2, <1>6
    <2> HIDE DEF r, n
    <2>3. PICK q : /\ task' = [task EXCEPT ![t] = q] /\ q.cand = r.cand /\ q.pc # "idle"
                   /\ OwnStep(book, book', r.cand)
                   /\ \A l \in Listing : book[l].state = "PURCHASED" => book'[l] = book[l]
                   /\ \A lim : Kept(book', lim, q)
      <3>1. r.cand \in Candidate /\ r.unsure = {} /\ r \in Call /\ book \in Book
        BY <1>2, <1>3, <1>6
      <3>2. QED
        BY <2>1, <2>2, <3>1, OrderKept
    <2>4. \A l \in filled' : book'[l].state = "PURCHASED"
      BY <1>3, <1>5, <2>3
    <2>5. q.cand = c /\ OwnStep(book, book', c) /\ Kept(book', limbo', q)
      BY <1>6, <2>3
    <2>6. QED
      BY <1>2, <1>3, <1>4, <2>3, <2>4, <2>5, OneCallKeepsClaims
  <1>10. QED
    BY <1>7, <1>8, <1>9 DEF VerifyReply

(* A call that ends at an order gives back what is not bought, and the      *)
(* order with it unless its outcome is unknown.                             *)
LEMMA BuyingKeepsClaims ==
  ASSUME TypeOK, TypeOK', TruthInv, ClaimInv, NEW t \in Tasks,
         SubmitRefused(t) \/ ReconcileRefused(t) \/ ReconcileFailed(t)
  PROVE  ClaimInv'
  <1> DEFINE c == task[t].cand
             i == task[t].pos
  <1>1. Awaiting(t) /\ task[t].pc \in {"submit", "reconcile"}
    BY DEF SubmitRefused, ReconcileRefused, ReconcileFailed, Awaiting
  <1>2. /\ task[t] \in Call /\ c \in Candidate /\ Size(c) \in Nat /\ i \in 1..Size(c) /\ i \in Nat
        /\ calls[c] >= 1 /\ task[t].unsure = {} /\ task[t].bought = 1..(i - 1)
        /\ \A u \in Tasks \ {t} : task[u].pc # "idle" => task[u].cand # c
        /\ \A l \in Listing : <<c, l>> \notin limbo
        /\ \A j \in 1..Size(c) : /\ Bundle[c][j] \in Listing
                                 /\ book[Bundle[c][j]].cand = c
                                 /\ book[Bundle[c][j]].expires >= Ttl
                                 /\ book[Bundle[c][j]].state =
                                      IF j > i THEN "SOFT_RESERVED"
                                      ELSE IF j = i THEN "PURCHASE_PENDING" ELSE "PURCHASED"
    BY <1>1, InFlight DEF Due
  <1>3. calls' = calls /\ filled' = filled /\ book \in Book
    BY DEF SubmitRefused, ReconcileRefused, ReconcileFailed, TypeOK, history
  <1>4. \A d \in Candidate : calls'[d] >= calls[d]
    BY <1>3 DEF TypeOK
  <1>5. \A l \in filled : l \in Listing /\ book[l].state = "PURCHASED"
    BY DEF ClaimInv, FilledStays, TypeOK
  <1>6. PICK k \in {i, i + 1} :
          /\ book' = ReleaseUnbought(book, ListingsFrom(c, k))
          /\ k = i => ~ReconcileRefused(t) /\ limbo' = limbo
          /\ k = i + 1 => ReconcileRefused(t) /\ limbo' = limbo \cup {<<c, Item(t)>>}
    <2>1. CASE ReconcileRefused(t)
      <3>1. i + 1 # i
        BY <1>2
      <3>2. QED
        BY <2>1, <3>1 DEF ReconcileRefused, Rest
    <2>2. CASE ~ReconcileRefused(t)
      <3>1. i + 1 # i
        BY <1>2
      <3>2. QED
        BY <2>2, <3>1 DEF SubmitRefused, ReconcileFailed, history
    <2>3. QED
      BY <2>1, <2>2
  <1>7. PICK q : /\ task' = [task EXCEPT ![t] = q]
                 /\ q.pc = "returned" /\ q.pc # "idle" /\ q.cand = c /\ q.bought = 1..(i - 1)
                 /\ q.unsure = IF k = i THEN {} ELSE {i}
    <2>1. CASE k = i
      <3>1. PICK rs : task' = [task EXCEPT ![t] = [task[t] EXCEPT !.pc = "returned", !.results = rs]]
        BY <1>6, <2>1 DEF SubmitRefused, ReconcileFailed
      <3> DEFINE q == [task[t] EXCEPT !.pc = "returned", !.results = rs]
      <3>2. q.pc = "returned" /\ q.cand = c /\ q.bought = 1..(i - 1) /\ q.unsure = {}
        BY <1>2 DEF Call
      <3>3. task' = [task EXCEPT ![t] = q]
        BY <3>1
      <3> HIDE DEF q
      <3>4. QED
        BY <2>1, <3>2, <3>3
    <2>2. CASE k # i
      <3>1. task' = [task EXCEPT ![t] = [task[t] EXCEPT !.pc = "returned", !.unsure = @ \cup {i},
                       !.results = Padded(c, Append(@, "FAILED"))]]
        BY <1>6, <2>2 DEF ReconcileRefused
      <3> DEFINE q == [task[t] EXCEPT !.pc = "returned", !.unsure = @ \cup {i},
                         !.results = Padded(c, Append(@, "FAILED"))]
      <3>2. q.pc = "returned" /\ q.cand = c /\ q.bought = 1..(i - 1) /\ q.unsure = {i}
        BY <1>2 DEF Call
      <3>3. task' = [task EXCEPT ![t] = q]
        BY <3>1
      <3> HIDE DEF q
      <3>4. QED
        BY <2>2, <3>2, <3>3
    <2>3. QED
      BY <2>1, <2>2
  <1> DEFINE S == {l \in ListingsFrom(c, k) : IsActive(book[l]) /\ book[l].state # "PURCHASED"}
  <1>8. book' = Moved(book, S, "RELEASED")
    BY <1>6 DEF ReleaseUnbought
  <1>9. \A l \in S : \E j \in k..Size(c) : l = Bundle[c][j] /\ j \in 1..Size(c)
    BY <1>2 DEF ListingsFrom
  <1>10. OwnStep(book, book', c)
    <2>1. \A l \in S \cap Listing : book[l].cand = c /\ book[l].expires >= Ttl
      BY <1>2, <1>9
    <2> HIDE DEF S
    <2>2. QED
      BY <1>3, <1>8, <2>1, MovedIsOwn
  <1>11. \A l \in filled' : book'[l].state = "PURCHASED"
    BY <1>3, <1>5, <1>8 DEF Moved
  <1>12. ASSUME NEW j \in 1..Size(c)
         PROVE  IF j < k THEN book'[Bundle[c][j]] = book[Bundle[c][j]]
                         ELSE ~IsActive(book'[Bundle[c][j]])
    <2> DEFINE l == Bundle[c][j]
    <2>1. l \in Listing /\ book[l] \in Reservation
      BY <1>2, <1>3 DEF Book
    <2>2. CASE j < k
      <3>1. l \notin S
        <4> SUFFICES ASSUME l \in S PROVE FALSE
          OBVIOUS
        <4>1. PICK m \in 1..Size(c) : m \in k..Size(c) /\ l = Bundle[c][m]
          BY <1>9
        <4>2. m # j
          BY <1>2, <2>2, <4>1
        <4>3. QED
          BY <1>2, <4>1, <4>2, Distinct
      <3>2. QED
        BY <1>8, <2>1, <2>2, <3>1 DEF Moved
    <2>3. CASE ~(j < k)
      <3>1. j \in k..Size(c) /\ j >= i
        BY <1>2, <2>3
      <3>2. book[l].state \in {"SOFT_RESERVED", "PURCHASE_PENDING"}
        BY <1>2, <3>1
      <3>3. l \in S
        BY <3>1, <3>2 DEF ListingsFrom, IsActive, ActiveStates
      <3>4. book'[l].state = "RELEASED"
        BY <1>8, <2>1, <3>3 DEF Moved, Reservation
      <3>5. QED
        BY <2>3, <3>4 DEF IsActive, ActiveStates
    <2>4. QED
      BY <2>2, <2>3
  <1>13. Kept(book', limbo', q)
    <2>1. ASSUME NEW j \in 1..Size(c)
          PROVE  /\ j < i => book'[Bundle[c][j]].cand = c /\ book'[Bundle[c][j]].state = "PURCHASED"
                 /\ j = i /\ k # i => /\ book'[Bundle[c][j]].cand = c
                                      /\ book'[Bundle[c][j]].state = "PURCHASE_PENDING"
                 /\ j > i \/ (j = i /\ k = i) => ~IsActive(book'[Bundle[c][j]])
      <3>1. j < k <=> (j < i \/ (j = i /\ k # i))
        BY <1>2
      <3>2. QED
        BY <1>2, <1>12, <3>1
    <2>2. \A j \in 1..Size(c) : (j \in 1..(i - 1) <=> j < i) /\ (j = i \/ j < i \/ j > i)
      BY <1>2
    <2>3. QED
      BY <1>7, <2>1, <2>2 DEF Kept
  <1>14. \/ limbo' = limbo
         \/ \E l \in Listing :
              /\ limbo' = limbo \cup {<<c, l>>}
              /\ book'[l].state = "PURCHASE_PENDING" /\ book'[l].cand = c
              /\ q.pc \notin {"verify", "submit", "reconcile"}
    <2>1. CASE k = i
      BY <1>6, <2>1
    <2>2. CASE k = i + 1
      <3>1. i < k /\ Item(t) = Bundle[c][i]
        BY <1>2, <2>2 DEF Item
      <3>2. book'[Item(t)] = book[Item(t)]
        BY <1>2, <1>12, <3>1
      <3>3. book[Item(t)].state = "PURCHASE_PENDING" /\ book[Item(t)].cand = c /\ Item(t) \in Listing
        BY <1>2, <3>1
      <3>4. QED
        BY <1>6, <1>7, <2>2, <3>2, <3>3
    <2>3. QED
      BY <2>1, <2>2
  <1> HIDE DEF S
  <1>15. QED
    BY <1>2, <1>3, <1>4, <1>7, <1>10, <1>11, <1>13, <1>14, OneCallKeepsClaims

LEMMA AcceptedKeepsClaims ==
  ASSUME TypeOK, TypeOK', TruthInv, ClaimInv, NEW t \in Tasks, SubmitAccepted(t)
  PROVE  ClaimInv'
  <1> DEFINE c == task[t].cand
             q == [task[t] EXCEPT !.pc = "reconcile", !.outlay = @ + Price[Item(t)]]
  <1>1. Awaiting(t) /\ task[t].pc = "submit"
    BY DEF SubmitAccepted, Awaiting
  <1>2. /\ task[t] \in Call /\ c \in Candidate /\ calls[c] >= 1
        /\ \A u \in Tasks \ {t} : task[u].pc # "idle" => task[u].cand # c
        /\ \A l \in Listing : <<c, l>> \notin limbo
        /\ \A j \in 1..Size(c) : /\ book[Bundle[c][j]].cand = c
                                 /\ book[Bundle[c][j]].state = Due(task[t], j)
    BY <1>1, InFlight
  <1>3. /\ calls' = calls /\ limbo' = limbo /\ filled' = filled /\ book' = book
        /\ task' = [task EXCEPT ![t] = q]
    BY DEF SubmitAccepted, history
  <1>4. \A d \in Candidate : calls'[d] >= calls[d]
    BY <1>3 DEF TypeOK
  <1>5. q.pc = "reconcile" /\ q.pc # "idle" /\ q.cand = c /\ q.pos = task[t].pos
    BY <1>2 DEF Call
  <1> HIDE DEF q
  <1>6. Kept(book', limbo', q)
    BY <1>1, <1>2, <1>3, <1>5 DEF Kept, Due
  <1>7. OwnStep(book, book', c)
    BY <1>3 DEF OwnStep
  <1>8. \A l \in filled' : book'[l].state = "PURCHASED"
    BY <1>3 DEF ClaimInv, FilledStays
  <1>9. QED
    BY <1>2, <1>3, <1>4, <1>5, <1>6, <1>7, <1>8, OneCallKeepsClaims

LEMMA SucceededKeepsClaims ==
  ASSUME TypeOK, TypeOK', TruthInv, ClaimInv, NEW t \in Tasks, ReconcileSucceeded(t)
  PROVE  ClaimInv'
  <1> DEFINE c == task[t].cand
             i == task[t].pos
             m == Bundle[c][i]
             r == [task[t] EXCEPT !.bought = @ \cup {i}, !.results = Append(@, "SUCCEEDED")]
             b == Moved(book, {m}, "PURCHASED")
             n == i + 1
  <1>1. Awaiting(t) /\ task[t].pc = "reconcile" /\ Item(t) = m
    BY DEF ReconcileSucceeded, Awaiting, Item
  <1>2. /\ task[t] \in Call /\ c \in Candidate /\ Size(c) \in Nat /\ i \in 1..Size(c) /\ i \in Nat
        /\ calls[c] >= 1 /\ task[t].unsure = {} /\ task[t].bought = 1..(i - 1)
        /\ \A u \in Tasks \ {t} : task[u].pc # "idle" => task[u].cand # c
        /\ \A l \in Listing : <<c, l>> \notin limbo
        /\ \A j \in 1..Size(c) : /\ Bundle[c][j] \in Listing
                                 /\ book[Bundle[c][j]].cand = c
                                 /\ book[Bundle[c][j]].expires >= Ttl
                                 /\ book[Bundle[c][j]].state =
                                      IF j > i THEN "SOFT_RESERVED"
                                      ELSE IF j = i THEN "PURCHASE_PENDING" ELSE "PURCHASED"
    BY <1>1, InFlight DEF Due
  <1>3. /\ calls' = calls /\ limbo' = limbo /\ filled' = filled \cup {m} /\ book \in Book
        /\ \A l \in Listing : book[l] \in Reservation
    BY <1>1 DEF ReconcileSucceeded, TypeOK, Book
  <1>4. \A d \in Candidate : calls'[d] >= calls[d]
    BY <1>3 DEF TypeOK
  <1>5. m \in Listing /\ book[m].state = "PURCHASE_PENDING" /\ book[m].cand = c /\ book[m].expires >= Ttl
    BY <1>2
  <1>6. CanTransition(book[m], "PURCHASED")
    BY <1>5 DEF CanTransition, Transitions, ReservationState
  <1>7. Order(t, b, r, n)
    BY <1>1, <1>6 DEF ReconcileSucceeded
  <1>8. r \in Call /\ r.cand = c /\ r.bought = 1..(n - 1) /\ r.unsure = {}
    <2>1. (1..(i - 1)) \cup {i} = 1..(n - 1)
      BY <1>2
    <2>2. r \in Call
      BY <1>2, ResultsAreStatuses DEF Call, Positions, ExecutionStatus
    <2>3. r.cand = c /\ r.bought = task[t].bought \cup {i} /\ r.unsure = {}
      BY <1>2 DEF Call
    <2>4. QED
      BY <1>2, <2>1, <2>2, <2>3
  <1>9. n <= Size(c) + 1 /\ n \in Nat \ {0}
    BY <1>2
  <1>10. b \in Book /\ OwnStep(book, b, c)
    <2>1. \A l \in {m} \cap Listing : book[l].cand = c /\ book[l].expires >= Ttl
      BY <1>5
    <2>2. QED
      BY <1>3, <2>1, MovedIsOwn, MovedIsBook DEF ReservationState
  <1>11. \A j \in 1..Size(c) :
            /\ b[Bundle[c][j]].cand = c /\ b[Bundle[c][j]].expires >= Ttl
            /\ b[Bundle[c][j]].state = IF j < n THEN "PURCHASED" ELSE "SOFT_RESERVED"
    <2> SUFFICES ASSUME NEW j \in 1..Size(c)
                 PROVE  /\ b[Bundle[c][j]].cand = c /\ b[Bundle[c][j]].expires >= Ttl
                        /\ b[Bundle[c][j]].state = IF j < n THEN "PURCHASED" ELSE "SOFT_RESERVED"
      OBVIOUS
    <2>1. CASE j = i
      <3>1. b[m] = [book[m] EXCEPT !.state = "PURCHASED"]
        BY <1>5 DEF Moved
      <3>2. b[m].state = "PURCHASED" /\ b[m].cand = c /\ b[m].expires >= Ttl
        BY <1>3, <1>5, <3>1 DEF Reservation
      <3>3. j < n /\ Bundle[c][j] = m
        BY <1>2, <2>1
      <3> HIDE DEF b, n, m
      <3>4. QED
        BY <3>2, <3>3
    <2>2. CASE j # i
      <3>1. Bundle[c][j] # m
        BY <1>2, <2>2, Distinct
      <3>2. b[Bundle[c][j]] = book[Bundle[c][j]]
        BY <1>2, <3>1 DEF Moved
      <3>3. j < n <=> j < i
        BY <1>2, <2>2
      <3>4. /\ book[Bundle[c][j]].cand = c /\ book[Bundle[c][j]].expires >= Ttl
            /\ book[Bundle[c][j]].state = IF j < i THEN "PURCHASED" ELSE "SOFT_RESERVED"
        BY <1>2, <2>2
      <3> HIDE DEF b, n, m
      <3>5. QED
        BY <3>2, <3>3, <3>4
    <2>3. QED
      BY <2>1, <2>2
  <1>12. \A l \in filled' : l \in Listing /\ b[l].state = "PURCHASED"
    <2>1. \A l \in filled : l \in Listing /\ book[l].state = "PURCHASED"
      BY DEF ClaimInv, FilledStays, TypeOK
    <2>2. \A l \in filled : b[l].state = "PURCHASED"
      BY <1>5, <2>1 DEF Moved
    <2>3. b[m].state = "PURCHASED"
      BY <1>3, <1>5 DEF Moved, Reservation
    <2>4. QED
      BY <1>3, <1>5, <2>1, <2>2, <2>3
  <1> HIDE DEF r, b, n, m
  <1>13. PICK q : /\ task' = [task EXCEPT ![t] = q] /\ q.cand = c /\ q.pc # "idle"
                  /\ OwnStep(b, book', c)
                  /\ \A l \in Listing : b[l].state = "PURCHASED" => book'[l] = b[l]
                  /\ \A lim : Kept(book', lim, q)
    <2>1. r \in Call /\ r.cand \in Candidate /\ n <= Size(r.cand) + 1
      BY <1>2, <1>8, <1>9
    <2>2. \A j \in 1..Size(r.cand) :
            /\ b[Bundle[r.cand][j]].cand = r.cand /\ b[Bundle[r.cand][j]].expires >= Ttl
            /\ b[Bundle[r.cand][j]].state = IF j < n THEN "PURCHASED" ELSE "SOFT_RESERVED"
      BY <1>8, <1>11
    <2>3. PICK q : /\ task' = [task EXCEPT ![t] = q] /\ q.cand = r.cand /\ q.pc # "idle"
                   /\ OwnStep(b, book', r.cand)
                   /\ \A l \in Listing : b[l].state = "PURCHASED" => book'[l] = b[l]
                   /\ \A lim : Kept(book', lim, q)
      BY <1>7, <1>8, <1>9, <1>10, <2>1, <2>2, OrderKept
    <2>4. QED
      BY <1>8, <2>3
  <1>14. OwnStep(book, book', c)
    BY <1>10, <1>13, OwnStepsCompose
  <1>15. \A l \in filled' : book'[l].state = "PURCHASED"
    BY <1>12, <1>13
  <1>16. Kept(book', limbo', q)
    BY <1>13
  <1>17. QED
    BY <1>2, <1>3, <1>4, <1>13, <1>14, <1>15, <1>16, OneCallKeepsClaims

LEMMA InterruptKeepsClaims ==
  ASSUME TypeOK, TypeOK', TruthInv, ClaimInv, NEW t \in Tasks, Interrupt(t)
  PROVE  ClaimInv'
  <1> DEFINE c == task[t].cand
  <1>1. Awaiting(t) /\ calls' = calls /\ filled' = filled /\ book' = book
    BY DEF Interrupt
  <1>2. /\ task[t] \in Call /\ c \in Candidate /\ Size(c) \in Nat /\ task[t].pos \in 1..Size(c)
        /\ calls[c] >= 1
        /\ \A u \in Tasks \ {t} : task[u].pc # "idle" => task[u].cand # c
        /\ \A l \in Listing : <<c, l>> \notin limbo
        /\ \A j \in 1..Size(c) : /\ Bundle[c][j] \in Listing
                                 /\ book[Bundle[c][j]].cand = c
                                 /\ book[Bundle[c][j]].state = Due(task[t], j)
    BY <1>1, InFlight
  <1>3. PICK placed :
          /\ limbo' = IF placed THEN limbo \cup {<<c, Item(t)>>} ELSE limbo
          /\ task' = [task EXCEPT ![t] = [task[t] EXCEPT !.pc = "raised",
                        !.unsure = IF placed THEN @ \cup {task[t].pos} ELSE @]]
    BY DEF Interrupt
  <1> DEFINE q == [task[t] EXCEPT !.pc = "raised",
                     !.unsure = IF placed THEN @ \cup {task[t].pos} ELSE @]
  <1>4. task' = [task EXCEPT ![t] = q]
    BY <1>3
  <1>5. q.pc = "raised" /\ q.pc # "idle" /\ q.cand = c
    BY <1>2 DEF Call
  <1> HIDE DEF q
  <1>6. Kept(book', limbo', q)
    BY <1>5 DEF Kept
  <1>7. OwnStep(book, book', c)
    BY <1>1 DEF OwnStep
  <1>8. \A l \in filled' : book'[l].state = "PURCHASED"
    BY <1>1 DEF ClaimInv, FilledStays
  <1>9. \/ limbo' = limbo
        \/ \E l \in Listing :
             /\ limbo' = limbo \cup {<<c, l>>}
             /\ book'[l].state = "PURCHASE_PENDING" /\ book'[l].cand = c
             /\ q.pc \notin {"verify", "submit", "reconcile"}
    <2>1. CASE task[t].pc = "verify"
      BY <2>1 DEF Interrupt
    <2>2. CASE task[t].pc \in {"submit", "reconcile"}
      <3>1. Due(task[t], task[t].pos) = "PURCHASE_PENDING"
        BY <1>2, <2>2 DEF Due
      <3>2. Item(t) \in Listing /\ book[Item(t)].state = "PURCHASE_PENDING" /\ book[Item(t)].cand = c
        BY <1>2, <3>1 DEF Item
      <3>3. limbo' = limbo \/ limbo' = limbo \cup {<<c, Item(t)>>}
        BY <1>3
      <3>4. QED
        BY <1>1, <1>5, <3>2, <3>3
    <2>3. QED
      BY <1>1, <2>1, <2>2 DEF Awaiting
  <1>10. \A d \in Candidate : calls'[d] >= calls[d] /\ calls'[c] >= 1
    BY <1>1, <1>2 DEF TypeOK
  <1>11. QED
    BY <1>1, <1>2, <1>4, <1>5, <1>6, <1>7, <1>8, <1>9, <1>10, OneCallKeepsClaims

(* A human settles an order of a candidate that has no call in flight.      *)
LEMMA SettlingKeepsClaims ==
  ASSUME TypeOK, TypeOK', ClaimInv, NEW l \in Listing, ManualReconciliation(l)
  PROVE  ClaimInv'
  <1> DEFINE c == book[l].cand
  <1>1. PICK s \in {"PURCHASED", "RELEASED"} :
          /\ book' = Moved(book, {l}, s)
          /\ filled' = IF s = "PURCHASED" THEN filled \cup {l} ELSE filled
    BY DEF ManualReconciliation
  <1>2. <<c, l>> \in limbo /\ limbo' = limbo \ {<<c, l>>} /\ calls' = calls /\ task' = task
    BY DEF ManualReconciliation
  <1>3. c \in Candidate /\ book[l].state = "PURCHASE_PENDING" /\ \A t \in Tasks : Awaiting(t) => task[t].cand # c
    BY <1>2 DEF ClaimInv, LimboStays, TypeOK
  <1>4. /\ \A m \in Listing : book[m] \in Reservation
        /\ \A m \in Listing \ {l} : book'[m] = book[m]
        /\ book'[l].state = s /\ book'[l].cand = c /\ book'[l].expires = book[l].expires
    BY <1>1 DEF TypeOK, Book, Reservation, Moved
  <1>5. EntriesOwned'
    BY <1>2, <1>3, <1>4 DEF ClaimInv, EntriesOwned
  <1>6. OneCallEach'
    BY <1>2 DEF ClaimInv, OneCallEach
  <1>7. FilledStays'
    <2>1. \A m \in filled : m \in Listing /\ m # l /\ book[m].state = "PURCHASED"
      BY <1>3 DEF ClaimInv, FilledStays, TypeOK
    <2>2. QED
      BY <1>1, <1>4, <2>1 DEF FilledStays
  <1>8. LimboStays'
    <2> SUFFICES ASSUME NEW d \in Candidate, NEW m \in Listing, <<d, m>> \in limbo'
                 PROVE  /\ book'[m].state = "PURCHASE_PENDING" /\ book'[m].cand = d
                        /\ \A t \in Tasks : Awaiting(t)' => task'[t].cand # d
      BY DEF LimboStays
    <2>1. /\ book[m].state = "PURCHASE_PENDING" /\ book[m].cand = d
          /\ \A t \in Tasks : Awaiting(t) => task[t].cand # d
      BY <1>2 DEF ClaimInv, LimboStays
    <2>2. m # l
      BY <1>2, <2>1
    <2>3. QED
      BY <1>2, <1>4, <2>1, <2>2 DEF Awaiting
  <1>9. ASSUME NEW t \in Tasks, Kept(book, limbo, task[t])
        PROVE  Kept(book', limbo', task[t])
    <2> DEFINE d == task[t].cand
    <2>1. CASE task[t].pc \in {"verify", "submit", "reconcile"}
      <3>1. d \in Candidate /\ d # c
        BY <1>3, <2>1, AwaitingCall DEF Awaiting
      <3>2. ASSUME NEW i \in 1..Size(d)
            PROVE  book'[Bundle[d][i]] = book[Bundle[d][i]]
        <4>1. Bundle[d][i] \in Listing /\ book[Bundle[d][i]].cand = d
          BY <1>9, <2>1, <3>1, BundleListings DEF Kept
        <4>2. QED
          BY <1>4, <3>1, <4>1
      <3>3. QED
        BY <1>9, <2>1, <3>2 DEF Kept
    <2>2. CASE task[t].pc = "returned"
      <3>1. d \in Candidate
        BY <2>2 DEF ClaimInv, OneCallEach
      <3>2. ASSUME NEW i \in 1..Size(d), NEW m, m = Bundle[d][i]
            PROVE  /\ i \in task[t].bought => book'[m].cand = d /\ book'[m].state = "PURCHASED"
                   /\ i \in task[t].unsure /\ <<d, m>> \in limbo' =>
                        book'[m].cand = d /\ book'[m].state = "PURCHASE_PENDING"
                   /\ i \notin task[t].bought \cup task[t].unsure =>
                        ~(book'[m].cand = d /\ IsActive(book'[m]))
        <4>1. /\ i \in task[t].bought => book[m].cand = d /\ book[m].state = "PURCHASED"
              /\ i \in task[t].unsure /\ <<d, m>> \in limbo =>
                   book[m].cand = d /\ book[m].state = "PURCHASE_PENDING"
              /\ i \notin task[t].bought \cup task[t].unsure =>
                   ~(book[m].cand = d /\ IsActive(book[m]))
          BY <1>9, <2>2, <3>2 DEF Kept
        <4>2. m \in Listing
          BY <3>1, <3>2, BundleListings
        <4>3. CASE m # l
          BY <1>2, <1>4, <4>1, <4>2, <4>3
        <4>4. CASE m = l
          <5>1. IsActive(book[l])
            BY <1>3 DEF IsActive, ActiveStates
          <5>2. <<d, m>> \notin limbo' \/ d # c
            BY <1>2, <4>4
          <5>3. QED
            BY <1>2, <1>3, <1>4, <4>1, <4>4, <5>1, <5>2
        <4>5. QED
          BY <4>3, <4>4
      <3>3. QED
        BY <2>2, <3>2 DEF Kept
    <2>3. QED
      BY <2>1, <2>2 DEF Kept
  <1>10. CallsKept'
    BY <1>2, <1>9 DEF ClaimInv, CallsKept
  <1>11. QED
    BY <1>5, <1>6, <1>7, <1>8, <1>10 DEF ClaimInv

-----------------------------------------------------------------------------
(* The strengthening holds as long as the run is undisturbed.               *)
LEMMA ClaimsInvariant == Spec => [](Undisturbed => ClaimInv)
  <1>1. Init => ClaimInv
    BY DEF Init, ClaimInv, EntriesOwned, OneCallEach, CallsKept, Kept, FilledStays, LimboStays,
           EmptyBook, NoReservation, NoCall
  <1>2. /\ TypeOK /\ TypeOK' /\ TruthInv /\ (Undisturbed => ClaimInv) /\ [Next]_vars
        => (Undisturbed => ClaimInv)'
    <2> SUFFICES ASSUME TypeOK, TypeOK', TruthInv, Undisturbed => ClaimInv, [Next]_vars,
                        Undisturbed'
                 PROVE  ClaimInv'
      OBVIOUS
    <2>1. Undisturbed
      <3>1. now' >= now /\ \A c \in Candidate : calls'[c] >= calls[c]
        <4>1. ASSUME NEW t \in Tasks, NEW c \in Candidate, Execute(t, c)
              PROVE  now' >= now /\ \A d \in Candidate : calls'[d] >= calls[d]
          BY <4>1 DEF Execute, TypeOK
        <4>2. ASSUME NEW t \in Tasks, Reply(t) \/ Interrupt(t)
              PROVE  now' = now /\ calls' = calls
          BY <4>2 DEF Reply, VerifyReply, SubmitRefused, SubmitAccepted, ReconcileRefused,
                      ReconcileSucceeded, ReconcileFailed, Interrupt
        <4>3. ASSUME NEW l \in Listing, ManualReconciliation(l)
              PROVE  now' = now /\ calls' = calls
          BY <4>3 DEF ManualReconciliation
        <4>4. CASE Tick \/ UNCHANGED vars
          BY <4>4 DEF Tick, vars, TypeOK
        <4>5. now >= now /\ \A d \in Candidate : calls[d] >= calls[d]
          BY DEF TypeOK
        <4>6. QED
          BY <4>1, <4>2, <4>3, <4>4, <4>5 DEF Next
      <3>2. now \in Nat /\ now' \in Nat /\ Ttl \in Nat
            /\ \A c \in Candidate : calls[c] \in Nat /\ calls'[c] \in Nat
        BY BookAssumption DEF TypeOK
      <3>3. QED
        BY <3>1, <3>2 DEF Undisturbed
    <2>2. ClaimInv
      BY <2>1
    <2>3. ASSUME NEW t \in Tasks, NEW c \in Candidate, Execute(t, c) PROVE ClaimInv'
      BY <2>1, <2>2, <2>3, ExecuteKeepsClaims
    <2>4. ASSUME NEW t \in Tasks, Reply(t) \/ Interrupt(t) PROVE ClaimInv'
      BY <2>2, <2>4, VerifyKeepsClaims, BuyingKeepsClaims, AcceptedKeepsClaims,
         SucceededKeepsClaims, InterruptKeepsClaims DEF Reply
    <2>5. ASSUME NEW l \in Listing, ManualReconciliation(l) PROVE ClaimInv'
      BY <2>2, <2>5, SettlingKeepsClaims
    <2>6. CASE Tick \/ UNCHANGED vars
      BY <2>2, <2>6 DEF Tick, vars, history, ClaimInv, EntriesOwned, OneCallEach, CallsKept,
                        FilledStays, LimboStays, Awaiting
    <2>7. QED
      BY <2>3, <2>4, <2>5, <2>6 DEF Next
  <1>3. QED
    BY <1>1, <1>2, TypeCorrect, TruthInvariant, PTL DEF Spec

(* An entry that has not lapsed holds its listing for its candidate.        *)
LEMMA UnlapsedHolds ==
  ASSUME TypeOK, ClaimInv, Undisturbed, NEW l \in Listing, IsActive(book[l])
  PROVE  Holder(book, l, now) = book[l].cand
  <1>1. book[l].expires >= Ttl
    BY DEF ClaimInv, EntriesOwned, IsActive, ActiveStates
  <1>2. ~IsExpired(book[l], now)
    BY <1>1, BookAssumption DEF IsExpired, Undisturbed, TypeOK, Book, Reservation
  <1>3. QED
    BY <1>2 DEF Holder

(* The bundle of a call in flight stays claimed, input by input in the      *)
(* state the call's progress calls for, and what the book says after it     *)
(* agrees with its report (purchasing/auto_buyer.py:257-326): with any      *)
(* calls interleaved, any refusals and any exceptions, until a ttl passes   *)
(* or a candidate is executed again.                                        *)
THEOREM ClaimsFollow == Spec => [](Undisturbed => ClaimsFollowCalls)
  <1>1. ASSUME TypeOK, ClaimInv, Undisturbed
        PROVE  ClaimsFollowCalls
    <2>1. BundleHeldInFlight
      <3> SUFFICES ASSUME NEW t \in Tasks, Awaiting(t), NEW i \in 1..Size(task[t].cand), NEW l,
                          l = Bundle[task[t].cand][i]
                   PROVE  /\ Holder(book, l, now) = task[t].cand
                          /\ book[l].state =
                               IF task[t].pc = "verify" \/ i > task[t].pos THEN "SOFT_RESERVED"
                               ELSE IF i = task[t].pos THEN "PURCHASE_PENDING" ELSE "PURCHASED"
        BY DEF BundleHeldInFlight
      <3>1. l \in Listing
        BY <1>1, AwaitingCall, BundleListings
      <3>2. book[l].cand = task[t].cand /\ book[l].state = Due(task[t], i)
        BY <1>1 DEF ClaimInv, CallsKept, Kept, Awaiting
      <3>3. IsActive(book[l])
        BY <3>2 DEF Due, IsActive, ActiveStates
      <3>4. QED
        BY <1>1, <3>1, <3>2, <3>3, UnlapsedHolds DEF Due
    <2>2. BookMatchesOutcome
      BY <1>1 DEF BookMatchesOutcome, ClaimInv, CallsKept, Kept
    <2>3. QED
      BY <2>1, <2>2 DEF ClaimsFollowCalls
  <1>2. QED
    BY <1>1, ClaimsInvariant, TypeCorrect, PTL

(* A listing is at a venue for one call at most, and never while an earlier *)
(* order awaits a human or is filled, until a ttl passes or a candidate is  *)
(* executed again.                                                          *)
THEOREM OrderedOnce == Spec => [](Undisturbed => OneOrderPerListing)
  <1>1. ASSUME TypeOK, ClaimInv
        PROVE  OneOrderPerListing
    <2> SUFFICES ASSUME NEW t \in Tasks, task[t].pc \in {"submit", "reconcile"}
                 PROVE  /\ Item(t) \notin filled
                        /\ \A c \in Candidate : <<c, Item(t)>> \notin limbo
                        /\ \A u \in Tasks \ {t} :
                             task[u].pc \in {"submit", "reconcile"} => Item(u) # Item(t)
      BY DEF OneOrderPerListing
    <2>1. ASSUME NEW u \in Tasks, task[u].pc \in {"submit", "reconcile"}
          PROVE  /\ Awaiting(u) /\ Item(u) \in Listing /\ task[u].cand \in Candidate
                 /\ book[Item(u)].state = "PURCHASE_PENDING" /\ book[Item(u)].cand = task[u].cand
      <3>1. Awaiting(u)
        BY <2>1 DEF Awaiting
      <3>2. task[u].pos \in 1..Size(task[u].cand) /\ Item(u) \in Listing /\ task[u].cand \in Candidate
            /\ Size(task[u].cand) \in Nat
        BY <1>1, <3>1, AwaitingCall, BundleListings
      <3>3. Due(task[u], task[u].pos) = "PURCHASE_PENDING"
        BY <2>1, <3>2 DEF Due
      <3>4. QED
        BY <1>1, <2>1, <3>1, <3>2, <3>3 DEF ClaimInv, CallsKept, Kept, Item
    <2>2. Item(t) \notin filled
      BY <1>1, <2>1 DEF ClaimInv, FilledStays
    <2>3. \A c \in Candidate : <<c, Item(t)>> \notin limbo
      BY <1>1, <2>1 DEF ClaimInv, LimboStays
    <2>4. ASSUME NEW u \in Tasks \ {t}, task[u].pc \in {"submit", "reconcile"}, Item(u) = Item(t)
          PROVE  FALSE
      <3>1. task[u].cand = task[t].cand
        BY <2>1, <2>4
      <3>2. QED
        BY <1>1, <2>4, <3>1 DEF ClaimInv, OneCallEach
    <2>5. QED
      BY <2>2, <2>3, <2>4
  <1>2. QED
    BY <1>1, ClaimsInvariant, TypeCorrect, PTL
=============================================================================
