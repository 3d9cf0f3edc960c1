------------------------- MODULE ReservationsProofs -------------------------
(***************************************************************************)
(* The registry keeps its entries well formed, keeps the promise of        *)
(* Leases, and never lets go of a live purchase -- for every set of        *)
(* listings and candidates and every ttl.                                  *)
(***************************************************************************)
EXTENDS Reservations, TLAPS

-----------------------------------------------------------------------------
(* What the operations on a book of reservations preserve. *)

(* Claiming, moving claims and the state rules all yield well-formed books. *)
LEMMA ClaimedIsBook ==
  ASSUME NEW b \in Book, NEW c \in Candidate, NEW S \in SUBSET Listing, NEW t \in Nat
  PROVE  Claimed(b, c, S, t) \in Book
  BY BookAssumption DEF Claimed, Book, Reservation, ReservationState

LEMMA MovedIsBook ==
  ASSUME NEW b \in Book, NEW S, NEW target \in ReservationState
  PROVE  Moved(b, S, target) \in Book
  BY DEF Moved, Book, Reservation

(* A legal target is a state, is never UNCLAIMED or SOFT_RESERVED, and is   *)
(* not reached from UNCLAIMED or from PURCHASED.                            *)
LEMMA LegalTargets ==
  ASSUME NEW r \in Reservation, NEW target, CanTransition(r, target)
  PROVE  /\ target \in ReservationState \ {"UNCLAIMED", "SOFT_RESERVED"}
         /\ r.state \in {"SOFT_RESERVED", "PURCHASE_PENDING"}
  <1>1. r.state \in ReservationState \ {"UNCLAIMED"} /\ target \in Transitions[r.state]
    BY DEF CanTransition, Reservation
  <1>2. CASE r.state = "SOFT_RESERVED"
    BY <1>1, <1>2 DEF Transitions, ReservationState
  <1>3. CASE r.state = "PURCHASE_PENDING"
    BY <1>1, <1>3 DEF Transitions, ReservationState
  <1>4. CASE r.state \notin {"SOFT_RESERVED", "PURCHASE_PENDING"}
    BY <1>1, <1>4 DEF Transitions, ReservationState
  <1>5. QED
    BY <1>2, <1>3, <1>4

(* A fresh claim holds what it claims and nothing else changes hands.       *)
LEMMA ClaimHolders ==
  ASSUME NEW b \in Book, NEW c \in Candidate, NEW S \in SUBSET Listing, NEW t \in Nat
  PROVE  \A l \in Listing :
           Holder(Claimed(b, c, S, t), l, t) = IF l \in S THEN c ELSE Holder(b, l, t)
  BY BookAssumption DEF Claimed, Holder, IsActive, ActiveStates, IsExpired, Book, Reservation

(* Moving live claims of S to any state leaves them with their holder or    *)
(* frees them, and leaves every other listing with its holder.              *)
LEMMA MovedHolders ==
  ASSUME NEW b \in Book, NEW S, NEW target, NEW t \in Nat,
         \A l \in S \cap Listing : IsActive(b[l])
  PROVE  \A l \in Listing :
           Holder(Moved(b, S, target), l, t) \in {Holder(b, l, t), Nobody}
  BY DEF Moved, Holder, IsActive, IsExpired, Book, Reservation

(* The passing of time only frees listings.                                 *)
LEMMA TimeFrees ==
  ASSUME NEW b \in Book, NEW t \in Nat
  PROVE  \A l \in Listing : Holder(b, l, t + 1) \in {Holder(b, l, t), Nobody}
  BY DEF Holder, IsExpired, Book, Reservation

(* TypeOK holds initially and every operation of the registry preserves it. *)
THEOREM TypeCorrect == Spec => []TypeOK
  <1>1. Init => TypeOK
    BY BookAssumption
    DEF Init, TypeOK, EmptyBook, NoReservation, Book, Reservation, ReservationState
  <1>2. TypeOK /\ [Next]_vars => TypeOK'
    <2> SUFFICES ASSUME TypeOK, [Next]_vars PROVE TypeOK'
      OBVIOUS
    <2> USE BookAssumption
    <2>1. ASSUME NEW c \in Candidate, NEW S \in SUBSET Listing, ClaimBundle(c, S)
          PROVE  TypeOK'
      <3>1. book' \in Book
        BY <2>1, ClaimedIsBook DEF TypeOK, ClaimBundle
      <3>2. QED
        BY <2>1, <3>1 DEF TypeOK, ClaimBundle, Claimed, Book, Reservation
    <2>2. ASSUME NEW S \in SUBSET Listing, NEW target,
                 \A l \in S : CanTransition(book[l], target),
                 book' = Moved(book, S, target), now' = now
          PROVE  TypeOK'
      <3>1. CASE S = {}
        <4>1. book' = book
          BY <2>2, <3>1 DEF TypeOK, Moved, Book
        <4>2. QED
          BY <2>2, <4>1 DEF TypeOK
      <3>2. CASE S # {}
        <4>1. /\ target \in ReservationState \ {"UNCLAIMED"}
              /\ \A l \in S : book[l].state # "UNCLAIMED"
          BY <2>2, <3>2, LegalTargets DEF TypeOK, Book
        <4>2. book' \in Book
          BY <2>2, <4>1, MovedIsBook DEF TypeOK
        <4>3. QED
          BY <2>2, <4>1, <4>2 DEF TypeOK, Moved, Book, Reservation
      <3>3. QED
        BY <3>1, <3>2
    <2>3. ASSUME NEW l \in Listing, NEW s \in ReservationState, Transition(l, s)
          PROVE  TypeOK'
      BY <2>2, <2>3 DEF Transition
    <2>4. ASSUME NEW c \in Candidate, ReleaseCandidate(c)
          PROVE  TypeOK'
      BY <2>2, <2>4 DEF ReleaseCandidate, ReleaseOf, Releasable
    <2>5. CASE ExpireStale
      BY <2>2, <2>5 DEF ExpireStale, Expiry, Expirable
    <2>6. CASE Tick
      BY <2>6 DEF Tick, TypeOK, Book, Reservation
    <2>7. CASE UNCHANGED vars
      BY <2>7 DEF vars, TypeOK
    <2>8. QED
      BY <2>1, <2>3, <2>4, <2>5, <2>6, <2>7 DEF Next
  <1>3. QED
    BY <1>1, <1>2, PTL DEF Spec

-----------------------------------------------------------------------------
(* A step that leaves every listing with its holder or frees it is a step   *)
(* of Leases.                                                               *)
LEMMA FreeingIsALeaseStep ==
  ASSUME \A l \in Listing : holding'[l] \in {holding[l], Nobody}
  PROVE  L!Next
  <1> DEFINE S == {l \in Listing : holding'[l] = Nobody}
  <1>1. holding' = [l \in Listing |-> IF l \in S THEN Nobody ELSE holding[l]]
    BY DEF holding
  <1>2. L!End(S)
    BY <1>1 DEF L!End
  <1>3. S \in SUBSET Listing
    OBVIOUS
  <1>4. QED
    BY <1>2, <1>3 DEF L!Next

(* The registry implements Leases under the mapping that reads a listing's  *)
(* holder off the book: every claim acquires listings that were free or     *)
(* the candidate's own, every other step only frees.                        *)
THEOREM RegistryKeepsLeases == Spec => KeepsLeases
  <1>1. Init => L!Init
    BY BookAssumption
    DEF Init, L!Init, holding, EmptyBook, NoReservation, Holder, IsActive, ActiveStates
  <1>2. TypeOK /\ [Next]_vars => [L!Next]_holding
    <2> SUFFICES ASSUME TypeOK, [Next]_vars PROVE [L!Next]_holding
      OBVIOUS
    <2>1. ASSUME NEW c \in Candidate, NEW S \in SUBSET Listing, ClaimBundle(c, S)
          PROVE  L!Next
      <3>1. \A l \in S : holding[l] \in {Nobody, c}
        BY <2>1 DEF ClaimBundle, Conflicts, IsAvailable, holding
      <3>2. \A l \in Listing : holding'[l] = IF l \in S THEN c ELSE holding[l]
        BY <2>1, ClaimHolders DEF ClaimBundle, holding, TypeOK
      <3>3. L!Acquire(c, S)
        BY <3>1, <3>2 DEF L!Acquire, holding
      <3>4. QED
        BY <3>3 DEF L!Next
    <2>2. ASSUME NEW S \in SUBSET Listing, NEW target,
                 \A l \in S : IsActive(book[l]),
                 book' = Moved(book, S, target), now' = now
          PROVE  L!Next
      <3>1. \A l \in Listing : holding'[l] \in {holding[l], Nobody}
        BY <2>2, MovedHolders DEF holding, TypeOK
      <3>2. QED
        BY <3>1, FreeingIsALeaseStep
    <2>3. ASSUME NEW l \in Listing, NEW s \in ReservationState, Transition(l, s)
          PROVE  L!Next
      <3>1. IsActive(book[l])
        BY <2>3, LegalTargets DEF Transition, TypeOK, Book, IsActive, ActiveStates
      <3>2. QED
        BY <2>2, <2>3, <3>1 DEF Transition
    <2>4. ASSUME NEW c \in Candidate, ReleaseCandidate(c)
          PROVE  L!Next
      BY <2>2, <2>4 DEF ReleaseCandidate, ReleaseOf, Releasable
    <2>5. CASE ExpireStale
      BY <2>2, <2>5 DEF ExpireStale, Expiry, Expirable
    <2>6. CASE Tick
      <3>1. \A l \in Listing : holding'[l] \in {holding[l], Nobody}
        BY <2>6, TimeFrees DEF Tick, holding, TypeOK
      <3>2. QED
        BY <3>1, FreeingIsALeaseStep
    <2>7. CASE UNCHANGED vars
      BY <2>7 DEF vars, holding, Holder, IsActive, IsExpired
    <2>8. QED
      BY <2>1, <2>3, <2>4, <2>5, <2>6, <2>7 DEF Next
  <1>3. QED
    BY <1>1, <1>2, TypeCorrect, PTL DEF Spec, KeepsLeases, L!Spec

-----------------------------------------------------------------------------
(* A live purchase is never taken from its candidate: PURCHASED has no      *)
(* legal successor, so only a claim can overwrite it, and a claim by        *)
(* another candidate conflicts with it.                                     *)
THEOREM PurchaseKept == Spec => PurchaseIsKept
  <1>1. TypeOK /\ [Next]_vars =>
          [\A l \in Listing :
             book[l].state = "PURCHASED" /\ ~IsExpired(book[l], now)
               => book'[l].cand = book[l].cand /\ IsActive(book'[l])]_vars
    <2> SUFFICES ASSUME TypeOK, Next,
                        NEW l \in Listing,
                        book[l].state = "PURCHASED", ~IsExpired(book[l], now)
                 PROVE  book'[l].cand = book[l].cand /\ IsActive(book'[l])
      OBVIOUS
    <2>1. ASSUME NEW c \in Candidate, NEW S \in SUBSET Listing, ClaimBundle(c, S)
          PROVE  book'[l].cand = book[l].cand /\ IsActive(book'[l])
      <3>1. l \in S => book[l].cand = c
        BY <2>1, BookAssumption
        DEF ClaimBundle, Conflicts, IsAvailable, Holder, IsActive, ActiveStates, TypeOK
      <3>2. QED
        BY <2>1, <3>1 DEF ClaimBundle, Claimed, IsActive, ActiveStates
    <2>2. ASSUME NEW S, NEW target, l \notin S, book' = Moved(book, S, target)
          PROVE  book'[l].cand = book[l].cand /\ IsActive(book'[l])
      BY <2>2 DEF Moved, IsActive, ActiveStates
    <2>3. \A target : ~CanTransition(book[l], target)
      BY LegalTargets DEF TypeOK, Book
    <2>4. ASSUME NEW m \in Listing, NEW s \in ReservationState, Transition(m, s)
          PROVE  book'[l].cand = book[l].cand /\ IsActive(book'[l])
      BY <2>2, <2>3, <2>4 DEF Transition
    <2>5. ASSUME NEW c \in Candidate, ReleaseCandidate(c)
          PROVE  book'[l].cand = book[l].cand /\ IsActive(book'[l])
      BY <2>2, <2>3, <2>5 DEF ReleaseCandidate, ReleaseOf, Releasable
    <2>6. CASE ExpireStale
      BY <2>2, <2>3, <2>6 DEF ExpireStale, Expiry, Expirable
    <2>7. CASE Tick
      BY <2>7 DEF Tick, IsActive, ActiveStates
    <2>8. QED
      BY <2>1, <2>4, <2>5, <2>6, <2>7 DEF Next
  <1>2. QED
    BY <1>1, TypeCorrect, PTL DEF Spec, PurchaseIsKept
=============================================================================
