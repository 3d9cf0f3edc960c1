------------------------------- MODULE Leases -------------------------------
(***************************************************************************)
(* What the reservation book promises, with nothing of how it keeps it:    *)
(* every listing is leased to at most one candidate.  A candidate is given *)
(* listings that are free or already its own; a lease ends by returning to *)
(* nobody, never by passing straight to someone else.                      *)
(***************************************************************************)
CONSTANTS Listing,      \* the marketplace listings a bundle can contain
          Candidate,    \* trade-up candidates, the parties that hold leases
          Nobody        \* the holder of a free listing

VARIABLE lease          \* who holds each listing

-----------------------------------------------------------------------------
Init == lease = [l \in Listing |-> Nobody]

(* Candidate c is given all of S, each listing of which is free or its own. *)
Acquire(c, S) ==
  /\ \A l \in S : lease[l] \in {Nobody, c}
  /\ lease' = [l \in Listing |-> IF l \in S THEN c ELSE lease[l]]

(* The leases of S end. *)
End(S) == lease' = [l \in Listing |-> IF l \in S THEN Nobody ELSE lease[l]]

Next == \E S \in SUBSET Listing : End(S) \/ \E c \in Candidate : Acquire(c, S)

Spec == Init /\ [][Next]_lease
=============================================================================
