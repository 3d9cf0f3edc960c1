-------------------------- MODULE ReservationBook ---------------------------
(***************************************************************************)
(* The reservation book as a value: what ReservationRegistry reads from    *)
(* its dictionary of AssetReservations and what each of its operations     *)
(* makes of it.  The modules that own a book as a variable (Reservations,  *)
(* AutoBuyer) build their actions from these operators.                    *)
(*                                                                         *)
(* reserved_at, released_at and the timezone checks decide nothing, so a   *)
(* reservation is its state, its candidate and its expiry.                 *)
(***************************************************************************)
EXTENDS Naturals

CONSTANTS Listing, Candidate, Nobody,
          Ttl           \* how long a claim lasts, in clock ticks

ASSUME BookAssumption == /\ Nobody \notin Candidate
                         /\ Ttl \in Nat \ {0}

ReservationState == {"UNCLAIMED", "SOFT_RESERVED", "PURCHASE_PENDING",
                     "PURCHASED", "RELEASED", "STALE"}

ActiveStates == {"SOFT_RESERVED", "PURCHASE_PENDING", "PURCHASED"}

(* Mutant: a bought listing can be given back or swept up as stale. *)
TransitionsOutOfPurchased ==
  [s \in ReservationState |->
     CASE s = "UNCLAIMED"        -> {"SOFT_RESERVED"}
       [] s = "SOFT_RESERVED"    -> {"PURCHASE_PENDING", "RELEASED", "STALE"}
       [] s \in {"PURCHASE_PENDING", "PURCHASED"} -> {"PURCHASED", "RELEASED", "STALE"}
       [] OTHER                  -> {}]

(* The states each state may move to. *)
Transitions ==
  [s \in ReservationState |->
     CASE s = "UNCLAIMED"        -> {"SOFT_RESERVED"}
       [] s = "SOFT_RESERVED"    -> {"PURCHASE_PENDING", "RELEASED", "STALE"}
       [] s = "PURCHASE_PENDING" -> {"PURCHASED", "RELEASED", "STALE"}
       [] OTHER                  -> {}]

Reservation == [state: ReservationState, cand: Candidate \cup {Nobody}, expires: Nat]

(* A listing the dictionary has no entry for. *)
NoReservation == [state |-> "UNCLAIMED", cand |-> Nobody, expires |-> 0]

Book == [Listing -> Reservation]
EmptyBook == [l \in Listing |-> NoReservation]

-----------------------------------------------------------------------------
IsActive(r) == r.state \in ActiveStates
IsExpired(r, now) == now >= r.expires
CanTransition(r, target) == r.state # "UNCLAIMED" /\ target \in Transitions[r.state]

(* The candidate that holds l at time now: an expired claim holds nothing. *)
Holder(book, l, now) ==
  IF IsActive(book[l]) /\ ~IsExpired(book[l], now) THEN book[l].cand ELSE Nobody

(* Mutant: only soft claims keep others out. *)
IsAvailableUnlessSoft(book, l, c, now) ==
  Holder(book, l, now) \in {Nobody, c} \/ book[l].state # "SOFT_RESERVED"

IsAvailable(book, l, c, now) == Holder(book, l, now) \in {Nobody, c}

(* Mutant: a bundle conflicts only when all of it is held. *)
ConflictsIfAllHeld(book, c, S, now) ==
  {l \in S : \A m \in S : ~IsAvailable(book, m, c, now)}

Conflicts(book, c, S, now) == {l \in S : ~IsAvailable(book, l, c, now)}

-----------------------------------------------------------------------------
(* Mutants: an entry that exists is kept; an entry's holder is kept. *)
ClaimedIfNew(book, c, S, now) ==
  [l \in Listing |->
     IF l \in S /\ book[l].state = "UNCLAIMED"
     THEN [state |-> "SOFT_RESERVED", cand |-> c, expires |-> now + Ttl]
     ELSE book[l]]
ClaimedKeepingHolder(book, c, S, now) ==
  [l \in Listing |->
     IF l \in S
     THEN [state |-> "SOFT_RESERVED", cand |-> book[l].cand, expires |-> now + Ttl]
     ELSE book[l]]

(* S freshly reserved for c, over whatever the book said of it before. *)
Claimed(book, c, S, now) ==
  [l \in Listing |->
     IF l \in S
     THEN [state |-> "SOFT_RESERVED", cand |-> c, expires |-> now + Ttl]
     ELSE book[l]]

(* The listings of S moved to a state; the claim keeps its holder and expiry. *)
Moved(book, S, target) ==
  [l \in Listing |-> IF l \in S THEN [book[l] EXCEPT !.state = target] ELSE book[l]]

(* What release_candidate and expire_stale act upon. *)
Releasable(book, c) ==
  {l \in Listing : /\ book[l].cand = c
                   /\ IsActive(book[l])
                   /\ CanTransition(book[l], "RELEASED")}
Expirable(book, now) ==
  {l \in Listing : /\ IsActive(book[l])
                   /\ IsExpired(book[l], now)
                   /\ CanTransition(book[l], "STALE")}

(* Mutant: the release works on a copy of the dictionary. *)
ReleaseOfCopy(book, c) == book

ReleaseOf(book, c) == Moved(book, Releasable(book, c), "RELEASED")
Expiry(book, now) == Moved(book, Expirable(book, now), "STALE")
=============================================================================
