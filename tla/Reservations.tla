---------------------------- MODULE Reservations ----------------------------
(***************************************************************************)
(* ReservationRegistry (execution/reservations.py) under every sequence of *)
(* calls its clients can make: scans and buyers claim bundles, advance     *)
(* single claims and give bundles back, maintenance marks expired claims   *)
(* stale, and the moment the callers pass moves forward.  A call that the  *)
(* code refuses (a conflict, an InvalidReservationTransition) leaves the   *)
(* book alone and is a stuttering step here.                               *)
(***************************************************************************)
EXTENDS ReservationBook

CONSTANT MaxNow         \* bound on the clock, for TLC

VARIABLES book,         \* _by_listing: the reservation of every listing
          now           \* the moment callers pass in
vars == <<book, now>>

Init == book = EmptyBook /\ now = 0

(* claim_bundle: the whole of S, or nothing. *)
ClaimBundle(c, S) ==
  /\ Conflicts(book, c, S, now) = {}
  /\ book' = Claimed(book, c, S, now)
  /\ UNCHANGED now

(* transition: no look at who holds the claim, nor at its expiry. *)
Transition(l, target) ==
  /\ CanTransition(book[l], target)
  /\ book' = Moved(book, {l}, target)
  /\ UNCHANGED now

ReleaseCandidate(c) ==
  /\ Releasable(book, c) # {}
  /\ book' = ReleaseOf(book, c)
  /\ UNCHANGED now

ExpireStale ==
  /\ Expirable(book, now) # {}
  /\ book' = Expiry(book, now)
  /\ UNCHANGED now

Tick == /\ now < MaxNow
        /\ now' = now + 1
        /\ UNCHANGED book

Next == \/ \E c \in Candidate :
             \/ \E S \in (SUBSET Listing) \ {{}} : ClaimBundle(c, S)
             \/ ReleaseCandidate(c)
        \/ \E l \in Listing, s \in ReservationState : Transition(l, s)
        \/ ExpireStale
        \/ Tick

Spec == Init /\ [][Next]_vars

-----------------------------------------------------------------------------
(* Type correctness, and what the shape of an entry tells: only a listing  *)
(* never claimed has no candidate, and no claim outlives one ttl from now. *)
TypeOK == /\ book \in Book
          /\ now \in Nat
          /\ \A l \in Listing :
               /\ (book[l].state = "UNCLAIMED") <=> (book[l].cand = Nobody)
               /\ book[l].expires <= now + Ttl

holding == [l \in Listing |-> Holder(book, l, now)]

L == INSTANCE Leases WITH lease <- holding

(* The registry keeps the promise of Leases: a listing changes hands only  *)
(* by being free in between, whatever mix of claims, single transitions,   *)
(* releases, stale marking and passing time its clients produce.           *)
KeepsLeases == L!Spec

(* Until it expires, a PURCHASED claim can be taken away by nobody but the *)
(* candidate that bought: not released, not marked stale, not overwritten  *)
(* by another candidate's bundle.                                          *)
PurchaseIsKept ==
  [][\A l \in Listing :
       book[l].state = "PURCHASED" /\ ~IsExpired(book[l], now)
         => book'[l].cand = book[l].cand /\ IsActive(book'[l])]_vars
=============================================================================
