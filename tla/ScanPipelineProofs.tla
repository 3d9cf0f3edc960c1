------------------------- MODULE ScanPipelineProofs -------------------------
(***************************************************************************)
(* What a scan decides is borne out by the book and the venues, and it     *)
(* decides everything it takes up: for every plan, every bundle and every  *)
(* cap, and whatever the adapters refuse or raise.                         *)
(***************************************************************************)
EXTENDS ScanPipeline, FiniteSetTheorems, TLAPS

-----------------------------------------------------------------------------
(* What the operations on a book of reservations preserve. *)

(* Claiming, moving claims and the state rules all yield well-formed books. *)
LEMMA ClaimedIsBook ==
  ASSUME NEW b \in Book, NEW c \in Candidate, NEW S \in SUBSET Listing, NEW t \in Nat
  PROVE  Claimed(b, c, S, t) \in Book
  BY BookAssumption DEF Claimed, Book, Reservation, ReservationState

LEMMA MovedIsBook ==
  ASSUME NEW b \in Book, NEW S, NEW target \in ReservationState
  PROVE  Moved(b, S, target) \in Book
  BY DEF Moved, Book, Reservation

(* A fresh claim holds what it claims and nothing else changes hands.       *)
LEMMA ClaimHolders ==
  ASSUME NEW b \in Book, NEW c \in Candidate, NEW S \in SUBSET Listing, NEW t \in Nat
  PROVE  \A l \in Listing :
           Holder(Claimed(b, c, S, t), l, t) = IF l \in S THEN c ELSE Holder(b, l, t)
  BY BookAssumption DEF Claimed, Holder, IsActive, ActiveStates, IsExpired, Book, Reservation

Pc == {"idle", "loop", "verify", "gate", "returned", "raised"}
Approval == [cand: Candidate, answers: SUBSET Verification]
Rejection == [cand: Candidate, reasons: SUBSET Reasons]

ScanState == [pc: Pc, moment: Nat, plan: Plans \cup {<< >>},
              comp: Nat \ {0}, sol: Nat \ {0}, pos: Nat \ {0},
              reserved: SUBSET ListingIds,
              verified: [ListingIds -> Verification \cup {Unverified}],
              answers: SUBSET Verification, seen: SUBSET Candidate,
              approved: SUBSET Approval, rejected: SUBSET Rejection]

(* A scan that has not come to the end of its plan is at one of its bundles. *)
Placed(s) == /\ s.comp <= Len(s.plan) => s.sol <= Len(s.plan[s.comp])
             /\ s.pc \in {"verify", "gate"} => s.comp <= Len(s.plan)

TypeInv == /\ book \in Book /\ now \in 0..MaxNow
           /\ scan \in ScanState /\ Placed(scan)
           /\ scan.pc \in {"verify", "gate"} => Cand \in scan.seen
           /\ scan.pc = "verify" => scan.pos \in DOMAIN Bundle[Cand]
           /\ \A r \in scan.rejected : r.reasons # {}

-----------------------------------------------------------------------------
(* Plans are sequences of nonempty sequences of candidates.                 *)
LEMMA PlansAreSeqs ==
  ASSUME NEW s \in ScanState
  PROVE  /\ s.plan \in Seq(Seq(Candidate) \ {<< >>})
         /\ Len(s.plan) \in Nat
         /\ \A i \in 1..Len(s.plan) : /\ s.plan[i] \in Seq(Candidate)
                                      /\ Len(s.plan[i]) \in Nat \ {0}
  <1>1. s.plan \in Plans \cup {<< >>}
    BY DEF ScanState
  <1>2. << >> \in Seq(Seq(Candidate) \ {<< >>})
    OBVIOUS
  <1>3. s.plan \in Seq(Seq(Candidate) \ {<< >>})
    BY <1>1, <1>2, PlanAssumption
  <1>4. Len(s.plan) \in Nat /\ \A i \in 1..Len(s.plan) : s.plan[i] \in Seq(Candidate) \ {<< >>}
    BY <1>3
  <1>5. \A q \in Seq(Candidate) \ {<< >>} : Len(q) \in Nat \ {0}
    OBVIOUS
  <1>6. QED
    BY <1>3, <1>4, <1>5

(* The bundle a scan is at is one of a candidate.                           *)
LEMMA CandIsCandidate ==
  ASSUME NEW s \in ScanState, Placed(s), s.comp <= Len(s.plan)
  PROVE  s.plan[s.comp][s.sol] \in Candidate
  <1>1. s.comp \in 1..Len(s.plan) /\ s.sol \in Nat \ {0}
    BY PlansAreSeqs DEF ScanState
  <1>2. s.plan[s.comp] \in Seq(Candidate) /\ s.sol \in 1..Len(s.plan[s.comp])
    BY <1>1, PlansAreSeqs DEF Placed
  <1>3. QED
    BY <1>2

(* The listings of a bundle are listings, and there is one.                 *)
LEMMA BundleFacts ==
  ASSUME NEW c \in Candidate
  PROVE  /\ Inputs(c) \in SUBSET Listing
         /\ Len(Bundle[c]) \in Nat \ {0}
         /\ DOMAIN Bundle[c] = 1..Len(Bundle[c])
         /\ \A i \in 1..Len(Bundle[c]) : Bundle[c][i] \in Listing
         /\ \A l \in Inputs(c) : ListingId[l] \in ListingIds
  <1>1. Bundle[c] \in Seq(Listing) /\ Bundle[c] # << >>
    BY PlanAssumption
  <1>2. QED
    BY <1>1 DEF Inputs, ListingIds

(* Going on to the next bundle changes the place in the plan only.          *)
LEMMA AdvancedFacts ==
  ASSUME NEW s \in ScanState, s.comp <= Len(s.plan), Placed(s), s.pc = "loop"
  PROVE  LET a == Advanced(s)
         IN /\ a \in ScanState /\ Placed(a)
            /\ a.pc = "loop" /\ a.moment = s.moment /\ a.plan = s.plan
            /\ a.seen = s.seen /\ a.approved = s.approved /\ a.rejected = s.rejected
            /\ a.answers = s.answers /\ a.reserved = s.reserved
            /\ \/ a.comp = s.comp /\ a.sol = s.sol + 1 /\ s.sol < Len(s.plan[s.comp])
               \/ a.comp = s.comp + 1 /\ a.sol = 1 /\ s.sol = Len(s.plan[s.comp])
  <1>1. s.comp \in 1..Len(s.plan) /\ s.sol \in Nat \ {0} /\ s.comp \in Nat
    BY PlansAreSeqs DEF ScanState
  <1>2. Len(s.plan) \in Nat /\ \A i \in 1..Len(s.plan) : Len(s.plan[i]) \in Nat \ {0}
    BY PlansAreSeqs
  <1>3. s.sol <= Len(s.plan[s.comp]) /\ Len(s.plan[s.comp]) \in Nat
    BY <1>1, <1>2 DEF Placed
  <1>4. CASE s.sol < Len(s.plan[s.comp])
    <2>1. Advanced(s) = [s EXCEPT !.sol = @ + 1]
      BY <1>4 DEF Advanced
    <2>2. [s EXCEPT !.sol = @ + 1] \in ScanState
      BY <1>1 DEF ScanState
    <2>3. s.sol + 1 <= Len(s.plan[s.comp])
      BY <1>1, <1>3, <1>4
    <2>4. QED
      BY <2>1, <2>2, <2>3, <1>4 DEF ScanState, Placed
  <1>5. CASE ~(s.sol < Len(s.plan[s.comp]))
    <2>1. Advanced(s) = [s EXCEPT !.comp = @ + 1, !.sol = 1]
      BY <1>5 DEF Advanced
    <2>0. s.comp + 1 \in Nat \ {0} /\ 1 \in Nat \ {0}
      BY <1>1
    <2>2. [s EXCEPT !.comp = @ + 1, !.sol = 1] \in ScanState
      BY <2>0 DEF ScanState
    <2>3. s.sol = Len(s.plan[s.comp])
      BY <1>1, <1>3, <1>5
    <2>4. s.comp + 1 <= Len(s.plan) => 1 <= Len(s.plan[s.comp + 1])
      BY <1>1, <1>2
    <2>5. QED
      BY <2>1, <2>2, <2>3, <2>4 DEF ScanState, Placed
  <1>6. QED
    BY <1>4, <1>5
-----------------------------------------------------------------------------
(* One lemma per action: what it does to a well-formed scan.                *)
LEMMA StartKeepsTypes ==
  ASSUME TypeInv, Start
  PROVE  TypeInv' /\ scan'.pc = "loop" /\ scan'.sol = 1 /\ scan'.seen = {}
                  /\ scan'.approved = {} /\ scan'.rejected = {}
  <1>1. PICK plan \in Plans : scan' = [NoScan EXCEPT !.pc = "loop", !.moment = now, !.plan = plan]
    BY DEF Start
  <1>2. now \in Nat
    BY PlanAssumption DEF TypeInv
  <1>3. scan' \in ScanState
    <2>1. /\ "loop" \in Pc /\ 1 \in Nat \ {0} /\ [k \in ListingIds |-> Unverified]
                                         \in [ListingIds -> Verification \cup {Unverified}]
      BY DEF Pc
    <2>2. QED
      BY <1>1, <1>2, <2>1 DEF NoScan, ScanState
  <1>4. Placed(scan')
    <2>1. 1 <= Len(scan'.plan) => Len(scan'.plan[1]) \in Nat \ {0}
      BY <1>3, PlansAreSeqs
    <2>2. QED
      BY <1>1, <2>1 DEF NoScan, Placed
  <1>5. QED
    BY <1>1, <1>3, <1>4 DEF NoScan, TypeInv, Start

LEMMA SkipKeepsTypes ==
  ASSUME TypeInv, Skip
  PROVE  TypeInv' /\ scan' = Advanced(scan) /\ scan.comp <= Len(scan.plan) /\ UNCHANGED book
  <1>1. scan.pc = "loop" /\ scan.comp <= Len(scan.plan)
    <2>1. scan.comp \in Nat /\ Len(scan.plan) \in Nat
      BY PlansAreSeqs DEF TypeInv, ScanState
    <2>2. QED
      BY <2>1 DEF Skip, Finished
  <1>2. scan' = Advanced(scan) /\ UNCHANGED <<book, now>>
    BY DEF Skip
  <1>3. /\ scan' \in ScanState /\ Placed(scan') /\ scan'.pc = "loop"
        /\ scan'.rejected = scan.rejected
    BY <1>1, <1>2, AdvancedFacts DEF TypeInv
  <1>4. QED
    BY <1>1, <1>2, <1>3 DEF TypeInv

(* Where a bundle can be built, it is a candidate not seen before.          *)
LEMMA BuildableFacts ==
  ASSUME TypeInv, Buildable
  PROVE  /\ scan.pc = "loop" /\ scan.comp <= Len(scan.plan)
         /\ Cand \in Candidate \ scan.seen
         /\ scan.sol = 1 => ~(Cardinality(scan.seen) >= MaxCandidates)
  <1>1. scan.comp \in Nat /\ Len(scan.plan) \in Nat
    BY PlansAreSeqs DEF TypeInv, ScanState
  <1>2. scan.pc = "loop" /\ scan.comp <= Len(scan.plan)
    BY <1>1 DEF Buildable, Finished
  <1>3. Cand \in Candidate
    BY <1>2, CandIsCandidate DEF TypeInv, Cand
  <1>4. QED
    BY <1>2, <1>3 DEF Buildable, Finished, Passed

(* A bundle turned down at discovery is seen and rejected.                  *)
LEMMA DiscoveryKeepsTypes ==
  ASSUME TypeInv, RejectAtDiscovery
  PROVE  /\ TypeInv' /\ scan'.pc = "loop" /\ UNCHANGED book /\ scan'.moment = scan.moment
         /\ scan'.seen = scan.seen \cup {Cand} /\ scan'.approved = scan.approved
         /\ scan'.rejected = scan.rejected \cup {[cand |-> Cand, reasons |-> {"DISCOVERY"}]}
         /\ scan'.plan = scan.plan
         /\ \/ scan'.comp = scan.comp /\ scan'.sol = scan.sol + 1 /\ scan.sol < Len(scan.plan[scan.comp])
            \/ scan'.comp = scan.comp + 1 /\ scan'.sol = 1 /\ scan.sol = Len(scan.plan[scan.comp])
  <1> DEFINE r == [cand |-> Cand, reasons |-> {"DISCOVERY"}]
             s == [scan EXCEPT !.seen = @ \cup {Cand}, !.rejected = @ \cup {r}]
  <1>1. Cand \in Candidate /\ scan.pc = "loop" /\ scan.comp <= Len(scan.plan)
    BY BuildableFacts DEF RejectAtDiscovery
  <1>2. r \in Rejection /\ r.reasons # {}
    BY <1>1 DEF Rejection, Reasons
  <1>3. /\ s \in ScanState /\ s.pc = "loop" /\ s.comp = scan.comp /\ s.sol = scan.sol /\ s.plan = scan.plan
        /\ s.seen = scan.seen \cup {Cand} /\ s.rejected = scan.rejected \cup {r}
        /\ s.approved = scan.approved /\ s.moment = scan.moment
    BY <1>1, <1>2 DEF TypeInv, ScanState
  <1>4. Placed(s) /\ s.comp <= Len(s.plan)
    BY <1>1, <1>3 DEF TypeInv, Placed
  <1>5. scan' = Advanced(s) /\ UNCHANGED <<book, now>>
    BY DEF RejectAtDiscovery
  <1> HIDE DEF s, r
  <1>6. /\ scan' \in ScanState /\ Placed(scan') /\ scan'.pc = "loop"
        /\ scan'.seen = s.seen /\ scan'.approved = s.approved /\ scan'.rejected = s.rejected
        /\ scan'.plan = s.plan /\ scan'.moment = s.moment
        /\ \/ scan'.comp = s.comp /\ scan'.sol = s.sol + 1 /\ s.sol < Len(s.plan[s.comp])
           \/ scan'.comp = s.comp + 1 /\ scan'.sol = 1 /\ s.sol = Len(s.plan[s.comp])
    BY <1>3, <1>4, <1>5, AdvancedFacts
  <1>7. TypeInv'
    BY <1>2, <1>3, <1>5, <1>6 DEF TypeInv
  <1>8. QED
    BY <1>3, <1>5, <1>6, <1>7 DEF r

(* A bundle taken up is claimed whole or not at all.                        *)
LEMMA ReserveKeepsTypes ==
  ASSUME TypeInv, Reserve
  PROVE  /\ TypeInv' /\ scan'.pc = "verify" /\ Cand' = Cand /\ scan'.moment = scan.moment
         /\ scan'.seen = scan.seen \cup {Cand}
         /\ scan'.approved = scan.approved /\ scan'.rejected = scan.rejected
         /\ scan'.plan = scan.plan /\ scan'.comp = scan.comp /\ scan'.sol = scan.sol
         /\ scan'.verified = [k \in ListingIds |-> Unverified]
         /\ \/ /\ Conflicts(book, Cand, Inputs(Cand), scan.moment) = {}
               /\ book' = Claimed(book, Cand, Inputs(Cand), scan.moment)
            \/ book' = book /\ scan'.reserved = {}
  <1> DEFINE free == Conflicts(book, Cand, Inputs(Cand), scan.moment) = {}
             taken == IF free THEN {ListingId[l] : l \in Inputs(Cand)} ELSE {}
             blank == [k \in ListingIds |-> Unverified]
  <1>1. Cand \in Candidate /\ scan.comp <= Len(scan.plan)
    BY BuildableFacts DEF Reserve
  <1>2. taken \in SUBSET ListingIds /\ blank \in [ListingIds -> Verification \cup {Unverified}]
    BY <1>1, BundleFacts
  <1>3. /\ book' = IF free THEN Claimed(book, Cand, Inputs(Cand), scan.moment) ELSE book
        /\ scan' = [scan EXCEPT !.pc = "verify", !.pos = 1, !.seen = @ \cup {Cand},
                      !.reserved = taken, !.verified = blank, !.answers = {}]
        /\ UNCHANGED now
    BY DEF Reserve
  <1>4. /\ scan' \in ScanState /\ scan'.pc = "verify" /\ scan'.pos = 1 /\ scan'.moment = scan.moment
        /\ scan'.seen = scan.seen \cup {Cand} /\ scan'.reserved = taken /\ scan'.verified = blank
        /\ scan'.approved = scan.approved /\ scan'.rejected = scan.rejected
        /\ scan'.plan = scan.plan /\ scan'.comp = scan.comp /\ scan'.sol = scan.sol
    <2> HIDE DEF taken, blank
    <2>1. /\ scan \in ScanState /\ "verify" \in Pc /\ 1 \in Nat \ {0}
          /\ {} \in SUBSET Verification /\ scan.seen \cup {Cand} \in SUBSET Candidate
      BY <1>1 DEF TypeInv, ScanState, Pc
    <2>2. QED
      BY <1>2, <1>3, <2>1 DEF ScanState
  <1>5. Placed(scan')
    BY <1>1, <1>4 DEF TypeInv, Placed
  <1>6. Cand' = Cand
    BY <1>4 DEF Cand
  <1>7. book' \in Book
    <2>1. scan.moment \in Nat /\ Inputs(Cand) \in SUBSET Listing
      BY <1>1, BundleFacts DEF TypeInv, ScanState
    <2>2. QED
      BY <1>1, <1>3, <2>1, ClaimedIsBook DEF TypeInv
  <1>8. 1 \in DOMAIN Bundle[Cand]
    BY <1>1, BundleFacts
  <1>9. TypeInv'
    <2>1. Cand \in scan'.seen
      BY <1>4
    <2>2. QED
      BY <1>3, <1>4, <1>5, <1>6, <1>7, <1>8, <2>1 DEF TypeInv
  <1>10. QED
    BY <1>3, <1>4, <1>6, <1>9

(* One answer is filed under one id, and recorded, or none came.            *)
LEMMA VerifyKeepsTypes ==
  ASSUME TypeInv, Verify
  PROVE  /\ TypeInv' /\ scan.pc = "verify" /\ scan'.pc \in {"verify", "gate"} /\ Cand' = Cand /\ UNCHANGED book
         /\ scan'.moment = scan.moment /\ scan'.seen = scan.seen
         /\ scan'.approved = scan.approved /\ scan'.rejected = scan.rejected
         /\ scan'.reserved = scan.reserved
         /\ scan'.plan = scan.plan /\ scan'.comp = scan.comp /\ scan'.sol = scan.sol
         /\ \/ scan'.verified = scan.verified /\ scan'.answers = scan.answers
            \/ \E v \in Verification, k \in ListingIds :
                 /\ scan'.verified = [scan.verified EXCEPT ![k] = v]
                 /\ scan'.answers = scan.answers \cup {v}
  <1> DEFINE l == Bundle[Cand][scan.pos]
             next == [scan EXCEPT !.pos = @ + 1, !.pc = IF AskedAll THEN "gate" ELSE "verify"]
  <1>1. scan.pc = "verify" /\ UNCHANGED <<book, now>>
    BY DEF Verify
  <1>2. Cand \in Candidate /\ scan.comp <= Len(scan.plan)
    <2>1. scan.comp <= Len(scan.plan)
      BY <1>1 DEF TypeInv, Placed
    <2>2. QED
      BY <2>1, CandIsCandidate DEF TypeInv, Cand
  <1>3. /\ Len(Bundle[Cand]) \in Nat /\ DOMAIN Bundle[Cand] = 1..Len(Bundle[Cand])
        /\ scan.pos \in 1..Len(Bundle[Cand]) /\ l \in Listing
    BY <1>1, <1>2, BundleFacts DEF TypeInv
  <1>4. ListingId[l] \in ListingIds
    BY <1>3 DEF ListingIds
  <1>5. /\ next \in ScanState /\ next.pc \in {"verify", "gate"} /\ next.pos = scan.pos + 1
        /\ next.pc = "verify" => scan.pos # Len(Bundle[Cand])
        /\ next.plan = scan.plan /\ next.comp = scan.comp /\ next.sol = scan.sol
        /\ next.moment = scan.moment /\ next.seen = scan.seen /\ next.reserved = scan.reserved
        /\ next.approved = scan.approved /\ next.rejected = scan.rejected
        /\ next.verified = scan.verified /\ next.answers = scan.answers
    <2>1. scan \in ScanState /\ scan.pos + 1 \in Nat \ {0}
      BY <1>3 DEF TypeInv
    <2>2. QED
      BY <2>1 DEF ScanState, Pc, AskedAll
  <1>6. \/ scan' = next
        \/ \E v \in Verification :
             scan' = [next EXCEPT !.verified[ListingId[l]] = v, !.answers = @ \cup {v}]
    BY DEF Verify
  <1>7. ASSUME NEW v \in Verification,
               scan' = [next EXCEPT !.verified[ListingId[l]] = v, !.answers = @ \cup {v}]
        PROVE  /\ scan' \in ScanState /\ scan'.pc = next.pc /\ scan'.pos = next.pos
               /\ scan'.plan = next.plan /\ scan'.comp = next.comp /\ scan'.sol = next.sol
               /\ scan'.moment = next.moment /\ scan'.seen = next.seen /\ scan'.reserved = next.reserved
               /\ scan'.approved = next.approved /\ scan'.rejected = next.rejected
               /\ scan'.verified = [next.verified EXCEPT ![ListingId[l]] = v]
               /\ scan'.answers = next.answers \cup {v}
    <2> HIDE DEF next, l
    <2>1. QED
      BY <1>4, <1>5, <1>7 DEF ScanState
  <1> HIDE DEF next, l
  <1>8. /\ scan' \in ScanState /\ scan'.pc = next.pc /\ scan'.pos = next.pos
        /\ scan'.plan = scan.plan /\ scan'.comp = scan.comp /\ scan'.sol = scan.sol
        /\ scan'.moment = scan.moment /\ scan'.seen = scan.seen /\ scan'.reserved = scan.reserved
        /\ scan'.approved = scan.approved /\ scan'.rejected = scan.rejected
        /\ \/ scan'.verified = scan.verified /\ scan'.answers = scan.answers
           \/ \E v \in Verification, k \in ListingIds :
                /\ scan'.verified = [scan.verified EXCEPT ![k] = v]
                /\ scan'.answers = scan.answers \cup {v}
    <2>1. CASE scan' = next
      BY <1>5, <2>1
    <2>2. ASSUME NEW v \in Verification,
                 scan' = [next EXCEPT !.verified[ListingId[l]] = v, !.answers = @ \cup {v}]
          PROVE  <1>8
      <3>1. /\ scan'.verified = [scan.verified EXCEPT ![ListingId[l]] = v]
            /\ scan'.answers = scan.answers \cup {v}
        BY <1>5, <1>7, <2>2
      <3>2. \E w \in Verification, k \in ListingIds :
              /\ scan'.verified = [scan.verified EXCEPT ![k] = w]
              /\ scan'.answers = scan.answers \cup {w}
        BY <1>4, <3>1
      <3>3. QED
        BY <1>5, <1>7, <2>2, <3>2
    <2>3. QED
      BY <1>6, <2>1, <2>2
  <1>9. Cand' = Cand
    BY <1>8 DEF Cand
  <1>10. TypeInv'
    <2>1. Placed(scan')
      BY <1>2, <1>8 DEF TypeInv, Placed
    <2>2. scan'.pc = "verify" => scan'.pos \in DOMAIN Bundle[Cand]
      BY <1>3, <1>5, <1>8
    <2>3. Cand \in scan'.seen
      BY <1>1, <1>8 DEF TypeInv
    <2>4. QED
      BY <1>1, <1>8, <1>9, <2>1, <2>2, <2>3 DEF TypeInv
  <1>11. QED
    BY <1>1, <1>5, <1>8, <1>9, <1>10

(* What the final gate says of an input is one of its reasons.              *)
LEMMA ReasonsAreReasons ==
  ASSUME NEW l
  PROVE  InputReasons(l) \in SUBSET Reasons
  BY DEF InputReasons, Reasons

(* The final gate approves and keeps the claims, for no reason at all, or   *)
(* rejects for some and gives back.                                         *)
LEMMA FinalGateKeepsTypes ==
  ASSUME TypeInv, FinalGate
  PROVE  /\ TypeInv' /\ scan.pc = "gate" /\ scan'.pc = "loop" /\ scan'.moment = scan.moment
         /\ scan'.seen = scan.seen /\ scan'.plan = scan.plan /\ Cand \in Candidate
         /\ \/ scan'.comp = scan.comp /\ scan'.sol = scan.sol + 1 /\ scan.sol < Len(scan.plan[scan.comp])
            \/ scan'.comp = scan.comp + 1 /\ scan'.sol = 1 /\ scan.sol = Len(scan.plan[scan.comp])
         /\ \/ /\ scan'.approved = scan.approved \cup {[cand |-> Cand, answers |-> scan.answers]}
               /\ scan'.rejected = scan.rejected /\ book' = book
               /\ \A l \in Inputs(Cand) : InputReasons(l) = {} /\ ListingId[l] \in scan.reserved
            \/ /\ \E reasons \in SUBSET Reasons :
                    scan'.rejected = scan.rejected \cup {[cand |-> Cand, reasons |-> reasons]}
               /\ scan'.approved = scan.approved /\ book' = ReleaseOf(book, Cand)
  <1>1. scan.pc = "gate" /\ scan.comp <= Len(scan.plan) /\ now' = now
    BY DEF FinalGate, TypeInv, Placed
  <1>2. Cand \in Candidate
    BY <1>1, CandIsCandidate DEF TypeInv, Cand
  <1> DEFINE s == [scan EXCEPT !.pc = "loop"]
             a == [cand |-> Cand, answers |-> scan.answers]
             Said == ReservationReasons \cup UNION {InputReasons(l) : l \in Inputs(Cand)}
             One(p) == [s EXCEPT !.approved = @ \cup {p}]
             Off(p) == [s EXCEPT !.rejected = @ \cup {p}]
  <1>3. /\ s \in ScanState /\ Placed(s) /\ s.pc = "loop" /\ s.moment = scan.moment
        /\ s.seen = scan.seen /\ s.plan = scan.plan /\ s.comp = scan.comp /\ s.sol = scan.sol
        /\ s.approved = scan.approved /\ s.rejected = scan.rejected
    BY DEF TypeInv, ScanState, Placed, Pc
  <1>4. PICK economics \in SUBSET {"ECONOMICS"} :
          LET reasons == economics \cup Said
          IN \/ reasons = {} /\ scan' = Advanced(One(a)) /\ book' = book
             \/ /\ reasons # {} /\ book' = ReleaseOf(book, Cand)
                /\ scan' = Advanced(Off([cand |-> Cand, reasons |-> reasons]))
    <2>1. PICK economics \in SUBSET {"ECONOMICS"} :
            LET reasons == economics \cup ReservationReasons
                             \cup UNION {InputReasons(l) : l \in Inputs(Cand)}
            IN IF reasons = {}
               THEN scan' = Advanced(One(a)) /\ UNCHANGED book
               ELSE /\ scan' = Advanced(Off([cand |-> Cand, reasons |-> reasons]))
                    /\ book' = GivenBack(Cand)
      BY DEF FinalGate
    <2>2. economics \cup ReservationReasons \cup UNION {InputReasons(l) : l \in Inputs(Cand)}
            = economics \cup Said
      OBVIOUS
    <2>3. QED
      BY <2>1, <2>2 DEF GivenBack
  <1>5. a \in Approval
    BY <1>2 DEF TypeInv, ScanState, Approval
  <1>6. One(a) \in ScanState /\ \A r \in Rejection : Off(r) \in ScanState
    <2> HIDE DEF s, a
    <2>1. QED
      BY <1>3, <1>5 DEF ScanState
  <1>7. /\ One(a).pc = "loop" /\ One(a).moment = scan.moment
        /\ One(a).seen = scan.seen /\ One(a).plan = scan.plan
        /\ One(a).comp = scan.comp /\ One(a).sol = scan.sol
        /\ One(a).approved = scan.approved \cup {a} /\ One(a).rejected = scan.rejected
    <2> HIDE DEF s, a
    <2>1. QED
      BY <1>3 DEF ScanState
  <1>8. ASSUME NEW r
        PROVE /\ Off(r).pc = "loop" /\ Off(r).moment = scan.moment
              /\ Off(r).seen = scan.seen /\ Off(r).plan = scan.plan
              /\ Off(r).comp = scan.comp /\ Off(r).sol = scan.sol
              /\ Off(r).approved = scan.approved /\ Off(r).rejected = scan.rejected \cup {r}
    <2> HIDE DEF s, a
    <2>1. QED
      BY <1>3 DEF ScanState
  <1>9. Placed(One(a)) /\ \A r : Placed(Off(r))
    <2> HIDE DEF One, Off, s, a
    <2>1. QED
      BY <1>1, <1>7, <1>8 DEF TypeInv, Placed
  <1>10. Said \in SUBSET Reasons /\ economics \in SUBSET Reasons
    BY ReasonsAreReasons DEF ReservationReasons, Reasons
  <1> HIDE DEF One, Off, s
  <1>11. CASE economics \cup Said = {} /\ scan' = Advanced(One(a)) /\ book' = book
    <2>1. /\ scan' \in ScanState /\ Placed(scan') /\ scan'.pc = "loop" /\ scan'.moment = scan.moment
          /\ scan'.seen = scan.seen /\ scan'.plan = scan.plan
          /\ scan'.approved = scan.approved \cup {a} /\ scan'.rejected = scan.rejected
          /\ \/ scan'.comp = scan.comp /\ scan'.sol = scan.sol + 1 /\ scan.sol < Len(scan.plan[scan.comp])
             \/ scan'.comp = scan.comp + 1 /\ scan'.sol = 1 /\ scan.sol = Len(scan.plan[scan.comp])
      <3> HIDE DEF a, Said
      <3>1. QED
        BY <1>1, <1>6, <1>7, <1>9, <1>11, AdvancedFacts
    <2>2. \A l \in Inputs(Cand) : InputReasons(l) = {} /\ ListingId[l] \in scan.reserved
      BY <1>11 DEF ReservationReasons
    <2>3. TypeInv'
      BY <1>1, <1>11, <2>1 DEF TypeInv
    <2>4. QED
      BY <1>1, <1>2, <1>11, <2>1, <2>2, <2>3
  <1>12. CASE /\ economics \cup Said # {} /\ book' = ReleaseOf(book, Cand)
              /\ scan' = Advanced(Off([cand |-> Cand, reasons |-> economics \cup Said]))
    <2> DEFINE r == [cand |-> Cand, reasons |-> economics \cup Said]
    <2>1. r \in Rejection /\ r.reasons # {} /\ economics \cup Said \in SUBSET Reasons
      BY <1>2, <1>10, <1>12 DEF Rejection
    <2>2. /\ scan' \in ScanState /\ Placed(scan') /\ scan'.pc = "loop" /\ scan'.moment = scan.moment
          /\ scan'.seen = scan.seen /\ scan'.plan = scan.plan
          /\ scan'.approved = scan.approved /\ scan'.rejected = scan.rejected \cup {r}
          /\ \/ scan'.comp = scan.comp /\ scan'.sol = scan.sol + 1 /\ scan.sol < Len(scan.plan[scan.comp])
             \/ scan'.comp = scan.comp + 1 /\ scan'.sol = 1 /\ scan.sol = Len(scan.plan[scan.comp])
      <3>1. Off(r) \in ScanState /\ Placed(Off(r)) /\ scan' = Advanced(Off(r))
        BY <1>6, <1>9, <1>12, <2>1
      <3> HIDE DEF a, r, Said
      <3>2. QED
        BY <1>1, <1>8, <3>1, AdvancedFacts
    <2>3. book' \in Book
      BY <1>12, MovedIsBook DEF ReleaseOf, TypeInv, ReservationState
    <2>4. TypeInv'
      <3> HIDE DEF r, Said
      <3>1. \A q \in scan'.rejected : q.reasons # {}
        BY <2>1, <2>2 DEF TypeInv
      <3>2. QED
        BY <1>1, <2>2, <2>3, <3>1 DEF TypeInv
    <2>5. QED
      BY <1>1, <1>2, <1>12, <2>1, <2>2, <2>4
  <1>13. QED
    BY <1>4, <1>11, <1>12

(* The end of a scan, an exception and the clock change nothing it decided. *)
LEMMA QuietKeepsTypes ==
  ASSUME TypeInv, Finish \/ RaiseOnDuplicate \/ Raise \/ Tick
  PROVE  /\ TypeInv' /\ UNCHANGED book /\ scan'.moment = scan.moment /\ scan'.seen = scan.seen
         /\ scan'.approved = scan.approved /\ scan'.rejected = scan.rejected
         /\ scan'.plan = scan.plan
         /\ \/ scan' = scan
            \/ scan'.pc = "returned" /\ scan.pc = "loop"
            \/ scan'.pc = "raised"
  <1>1. CASE Tick
    <2>1. now' \in 0..MaxNow
      BY <1>1, PlanAssumption DEF Tick, TypeInv
    <2>2. scan' = scan /\ book' = book
      BY <1>1 DEF Tick
    <2>3. QED
      BY <2>1, <2>2 DEF TypeInv, Cand
  <1>2. CASE Finish \/ RaiseOnDuplicate \/ Raise
    <2>1. PICK end \in {"returned", "raised"} :
            /\ scan' = [scan EXCEPT !.pc = end] /\ UNCHANGED <<book, now>>
            /\ end = "returned" => scan.pc = "loop"
      BY <1>2 DEF Finish, RaiseOnDuplicate, Raise
    <2>2. /\ scan' \in ScanState /\ scan'.pc = end /\ scan'.moment = scan.moment
          /\ scan'.seen = scan.seen /\ scan'.plan = scan.plan /\ scan'.comp = scan.comp
          /\ scan'.sol = scan.sol /\ scan'.approved = scan.approved /\ scan'.rejected = scan.rejected
      BY <2>1 DEF TypeInv, ScanState, Pc
    <2>3. Placed(scan')
      BY <2>2 DEF TypeInv, Placed
    <2>4. QED
      BY <2>1, <2>2, <2>3 DEF TypeInv
  <1>3. QED
    BY <1>1, <1>2

LEMMA StepKeepsTypes == TypeInv /\ [Next]_vars => TypeInv'
  <1>1. CASE UNCHANGED vars
    BY <1>1 DEF vars, TypeInv, Cand
  <1>2. ASSUME TypeInv, Next
        PROVE  TypeInv'
    BY <1>2, StartKeepsTypes, SkipKeepsTypes, DiscoveryKeepsTypes, ReserveKeepsTypes,
       VerifyKeepsTypes, FinalGateKeepsTypes, QuietKeepsTypes DEF Next, Step
  <1>3. QED
    BY <1>1, <1>2

LEMMA InitTypes == Init => TypeInv
  <1>1. [k \in ListingIds |-> Unverified] \in [ListingIds -> Verification \cup {Unverified}]
    OBVIOUS
  <1>2. NoScan \in ScanState
    BY <1>1 DEF NoScan, ScanState, Pc
  <1>3. EmptyBook \in Book
    BY DEF EmptyBook, Book, NoReservation, Reservation, ReservationState
  <1>4. Placed(NoScan)
    BY DEF NoScan, Placed
  <1>5. QED
    BY <1>2, <1>3, <1>4, PlanAssumption DEF Init, TypeInv, NoScan

LEMMA TypesAlways == Spec => []TypeInv
  BY InitTypes, StepKeepsTypes, PTL DEF Spec

(* A scan is well typed in every state: it verifies a listing of a bundle   *)
(* it has seen, and rejects for reasons the gates have (pipeline/scan.py). *)
THEOREM TypeCorrect == Spec => []TypeOK
  <1>1. TypeInv => TypeOK
    BY DEF TypeInv, TypeOK, ScanState, Pc, Approved, Rejected, Approval, Rejection
  <1>2. QED
    BY <1>1, TypesAlways, PTL
-----------------------------------------------------------------------------
(* Why decisions are backed.  A bundle is claimed only where nobody else    *)
(* holds any of it, so a claim never takes from an approved bundle; a bundle *)
(* under way is in no report yet, so giving it back takes from none; and    *)
(* what is filed under an id was said, whatever listing it was said of.     *)
Idle(l) == book[l].state \in {"UNCLAIMED", "SOFT_RESERVED", "RELEASED"}

UnderWay == scan.pc \in {"verify", "gate"}

HoldInv ==
  /\ \A l \in Listing : Idle(l)
  /\ \A a \in scan.approved : a.cand \in scan.seen
  /\ \A r \in scan.rejected : r.cand \in scan.seen
  /\ UnderWay =>
       /\ \A a \in scan.approved : a.cand # Cand
       /\ \A r \in scan.rejected : r.cand # Cand
       /\ scan.reserved = {} \/ \A l \in Inputs(Cand) : Holder(book, l, scan.moment) = Cand
       /\ \A k \in ListingIds : scan.verified[k] # Unverified => scan.verified[k] \in scan.answers
  /\ \A a \in scan.approved : \A l \in Inputs(a.cand) : Holder(book, l, scan.moment) = a.cand
  /\ RejectedHoldNothing
  /\ ApprovedWereRequeried

(* What gives every listing of a bundle no reason was said of each of them. *)
LEMMA NoReasonsMeansRequeried ==
  ASSUME TypeInv, NEW l \in Listing, InputReasons(l) = {}
  PROVE  LET v == scan.verified[ListingId[l]]
         IN v # Unverified /\ v = [about |-> l, present |-> TRUE, unchanged |-> TRUE]
  <1> DEFINE v == scan.verified[ListingId[l]]
  <1>1. v # Unverified /\ v.present
    BY DEF InputReasons
  <1>2. v.unchanged /\ v.about = l
    <2>1. InputReasons(l) = {r \in {"LISTING_CHANGED", "LISTING_IDENTITY_MISMATCH"} :
                               CASE r = "LISTING_CHANGED" -> ~v.unchanged
                                 [] r = "LISTING_IDENTITY_MISMATCH" -> v.about # l}
      BY <1>1 DEF InputReasons
    <2>2. ~v.unchanged => "LISTING_CHANGED" \in InputReasons(l)
      BY <2>1
    <2>3. v.about # l => "LISTING_IDENTITY_MISMATCH" \in InputReasons(l)
      BY <2>1
    <2>4. QED
      BY <2>2, <2>3
  <1>3. v \in Verification
    <2>1. ListingId[l] \in ListingIds
      BY DEF ListingIds
    <2>2. v \in Verification \cup {Unverified}
      BY <2>1 DEF TypeInv, ScanState
    <2>3. QED
      BY <1>1, <2>2
  <1>4. QED
    BY <1>1, <1>2, <1>3 DEF Verification

LEMMA ReserveKeepsHolds ==
  ASSUME TypeInv, HoldInv, Reserve
  PROVE  HoldInv'
  <1>1. /\ Cand \in Candidate /\ Cand \notin scan.seen
        /\ Inputs(Cand) \in SUBSET Listing /\ scan.moment \in Nat /\ book \in Book
    BY BuildableFacts, BundleFacts DEF Reserve, TypeInv, ScanState
  <1>2. /\ scan'.pc = "verify" /\ Cand' = Cand /\ scan'.moment = scan.moment
        /\ scan'.seen = scan.seen \cup {Cand}
        /\ scan'.approved = scan.approved /\ scan'.rejected = scan.rejected
        /\ scan'.verified = [k \in ListingIds |-> Unverified]
        /\ \/ /\ Conflicts(book, Cand, Inputs(Cand), scan.moment) = {}
              /\ book' = Claimed(book, Cand, Inputs(Cand), scan.moment)
           \/ book' = book /\ scan'.reserved = {}
    BY ReserveKeepsTypes
  <1>3. \A k \in ListingIds : scan'.verified[k] = Unverified
    BY <1>2
  <1>4. /\ \A a \in scan.approved : a.cand \in Candidate /\ a.cand # Cand /\ a.cand \in scan.seen
        /\ \A r \in scan.rejected : r.cand \in Candidate /\ r.cand # Cand /\ r.cand \in scan.seen
    BY <1>1 DEF HoldInv, TypeInv, ScanState, Approval, Rejection
  <1>5. CASE book' = book /\ scan'.reserved = {}
    BY <1>2, <1>3, <1>4, <1>5 DEF HoldInv, UnderWay, Idle, RejectedHoldNothing, ApprovedWereRequeried
  <1>6. CASE /\ Conflicts(book, Cand, Inputs(Cand), scan.moment) = {}
             /\ book' = Claimed(book, Cand, Inputs(Cand), scan.moment)
    <2>1. \A l \in Listing :
            Holder(book', l, scan.moment) = IF l \in Inputs(Cand) THEN Cand ELSE Holder(book, l, scan.moment)
      BY <1>1, <1>6, ClaimHolders
    <2>2. \A l \in Inputs(Cand) : Holder(book, l, scan.moment) \in {Nobody, Cand}
      BY <1>6 DEF Conflicts, IsAvailable
    <2>3. \A a \in scan.approved : \A l \in Inputs(a.cand) : Holder(book', l, scan.moment) = a.cand
      <3> SUFFICES ASSUME NEW a \in scan.approved, NEW l \in Inputs(a.cand)
                   PROVE  Holder(book', l, scan.moment) = a.cand
        OBVIOUS
      <3>1. Holder(book, l, scan.moment) = a.cand /\ l \in Listing /\ a.cand # Nobody
        BY <1>4, BundleFacts, BookAssumption DEF HoldInv
      <3>2. l \notin Inputs(Cand)
        BY <1>4, <2>2, <3>1
      <3>3. QED
        BY <2>1, <3>1, <3>2
    <2>4. \A l \in Listing : /\ Idle(l)'
                             /\ l \notin Inputs(Cand) => book'[l] = book[l]
                             /\ l \in Inputs(Cand) => book'[l].cand = Cand
      BY <1>6 DEF HoldInv, Idle, Claimed
    <2>5. RejectedHoldNothing'
      BY <1>2, <1>4, <2>4 DEF HoldInv, RejectedHoldNothing
    <2>6. \A l \in Inputs(Cand) : Holder(book', l, scan.moment) = Cand
      BY <1>1, <2>1
    <2>7. ApprovedWereRequeried'
      BY <1>2 DEF HoldInv, ApprovedWereRequeried
    <2>8. QED
      BY <1>2, <1>3, <1>4, <2>3, <2>4, <2>5, <2>6, <2>7 DEF HoldInv, UnderWay
  <1>7. QED
    BY <1>2, <1>5, <1>6

LEMMA VerifyKeepsHolds ==
  ASSUME TypeInv, HoldInv, Verify
  PROVE  HoldInv'
  <1>1. /\ scan.pc = "verify" /\ Cand' = Cand /\ book' = book
        /\ scan'.moment = scan.moment /\ scan'.seen = scan.seen
        /\ scan'.approved = scan.approved /\ scan'.rejected = scan.rejected
        /\ scan'.reserved = scan.reserved
        /\ \/ scan'.verified = scan.verified /\ scan'.answers = scan.answers
           \/ \E v \in Verification, k \in ListingIds :
                /\ scan'.verified = [scan.verified EXCEPT ![k] = v]
                /\ scan'.answers = scan.answers \cup {v}
    BY VerifyKeepsTypes
  <1>2. scan.verified \in [ListingIds -> Verification \cup {Unverified}]
    BY DEF TypeInv, ScanState
  <1>3. UnderWay
    BY <1>1 DEF UnderWay
  <1>4. \A k \in ListingIds : scan'.verified[k] # Unverified => scan'.verified[k] \in scan'.answers
    BY <1>1, <1>2, <1>3 DEF HoldInv
  <1>5. QED
    BY <1>1, <1>3, <1>4 DEF HoldInv, Idle, RejectedHoldNothing, ApprovedWereRequeried

LEMMA FinalGateKeepsHolds ==
  ASSUME TypeInv, HoldInv, FinalGate
  PROVE  HoldInv'
  <1>1. /\ scan.pc = "gate" /\ scan'.pc = "loop" /\ scan'.moment = scan.moment
        /\ scan'.seen = scan.seen /\ Cand \in Candidate /\ Cand \in scan.seen
        /\ book \in Book /\ Inputs(Cand) \in SUBSET Listing
    BY FinalGateKeepsTypes, BundleFacts DEF TypeInv
  <1>2. UnderWay
    BY <1>1 DEF UnderWay
  <1>3. CASE /\ scan'.approved = scan.approved \cup {[cand |-> Cand, answers |-> scan.answers]}
             /\ scan'.rejected = scan.rejected /\ book' = book
             /\ \A l \in Inputs(Cand) : InputReasons(l) = {} /\ ListingId[l] \in scan.reserved
    <2>1. Inputs(Cand) # {}
      <3>1. 1 \in DOMAIN Bundle[Cand]
        BY <1>1, BundleFacts
      <3>2. Bundle[Cand][1] \in Inputs(Cand)
        BY <3>1 DEF Inputs
      <3>3. QED
        BY <3>2
    <2>2. \A l \in Inputs(Cand) : Holder(book, l, scan.moment) = Cand
      BY <1>2, <1>3, <2>1 DEF HoldInv
    <2>3. \A l \in Inputs(Cand) : [about |-> l, present |-> TRUE, unchanged |-> TRUE] \in scan.answers
      <3> SUFFICES ASSUME NEW l \in Inputs(Cand)
                   PROVE  [about |-> l, present |-> TRUE, unchanged |-> TRUE] \in scan.answers
        OBVIOUS
      <3>1. l \in Listing /\ ListingId[l] \in ListingIds
        BY <1>1, BundleFacts
      <3>2. /\ scan.verified[ListingId[l]] # Unverified
            /\ scan.verified[ListingId[l]] = [about |-> l, present |-> TRUE, unchanged |-> TRUE]
        BY <1>3, <3>1, NoReasonsMeansRequeried
      <3>3. scan.verified[ListingId[l]] \in scan.answers
        BY <1>2, <3>1, <3>2 DEF HoldInv
      <3>4. QED
        BY <3>2, <3>3
    <2>4. ApprovedWereRequeried'
      <3> DEFINE new == [cand |-> Cand, answers |-> scan.answers]
      <3>1. new.cand = Cand /\ new.answers = scan.answers
        OBVIOUS
      <3>2. \A l \in Inputs(new.cand) : [about |-> l, present |-> TRUE, unchanged |-> TRUE] \in new.answers
        BY <2>3, <3>1
      <3>3. scan'.approved = scan.approved \cup {new}
        BY <1>3
      <3> HIDE DEF new
      <3>4. QED
        BY <3>2, <3>3 DEF HoldInv, ApprovedWereRequeried
    <2>5. RejectedHoldNothing'
      BY <1>3 DEF HoldInv, RejectedHoldNothing
    <2>6. QED
      BY <1>1, <1>3, <2>2, <2>4, <2>5 DEF HoldInv, UnderWay, Idle
  <1>4. ASSUME NEW reasons \in SUBSET Reasons,
               scan'.rejected = scan.rejected \cup {[cand |-> Cand, reasons |-> reasons]},
               scan'.approved = scan.approved, book' = ReleaseOf(book, Cand)
        PROVE  HoldInv'
    <2>1. \A l \in Listing :
            /\ book'[l].cand = book[l].cand /\ book'[l].expires = book[l].expires
            /\ book'[l].state = IF l \in Releasable(book, Cand) THEN "RELEASED" ELSE book[l].state
      BY <1>1, <1>4 DEF ReleaseOf, Moved, Book, Reservation
    <2>2. \A l \in Listing : Idle(l)'
      BY <2>1 DEF HoldInv, Idle
    <2>3. \A l \in Listing : book[l].cand = Cand => ~IsActive(book'[l])
      <3> SUFFICES ASSUME NEW l \in Listing, book[l].cand = Cand, IsActive(book[l]),
                          l \notin Releasable(book, Cand)
                   PROVE  FALSE
        BY <2>1 DEF IsActive, ActiveStates
      <3>1. book[l].state = "SOFT_RESERVED"
        BY DEF HoldInv, Idle, IsActive, ActiveStates
      <3>2. CanTransition(book[l], "RELEASED")
        BY <3>1 DEF CanTransition, Transitions, ReservationState
      <3>3. QED
        BY <3>2 DEF Releasable
    <2>4. \A l \in Listing : ~IsActive(book[l]) => ~IsActive(book'[l])
      BY <2>1 DEF IsActive, ActiveStates
    <2>5. RejectedHoldNothing'
      BY <1>4, <2>1, <2>3, <2>4 DEF HoldInv, RejectedHoldNothing
    <2>6. \A a \in scan.approved : \A l \in Inputs(a.cand) : Holder(book', l, scan.moment) = a.cand
      <3> SUFFICES ASSUME NEW a \in scan.approved, NEW l \in Inputs(a.cand)
                   PROVE  Holder(book', l, scan.moment) = a.cand
        OBVIOUS
      <3>1. a.cand \in Candidate /\ a.cand # Cand /\ a.cand # Nobody
        BY <1>2, BookAssumption DEF HoldInv, TypeInv, ScanState, Approval
      <3>2. l \in Listing /\ Holder(book, l, scan.moment) = a.cand
        BY <3>1, BundleFacts DEF HoldInv
      <3>3. l \notin Releasable(book, Cand)
        BY <3>1, <3>2 DEF Releasable, Holder
      <3>4. QED
        BY <2>1, <3>2, <3>3 DEF Holder, IsActive, IsExpired
    <2>7. ApprovedWereRequeried'
      BY <1>4 DEF HoldInv, ApprovedWereRequeried
    <2>8. QED
      BY <1>1, <1>4, <2>2, <2>5, <2>6, <2>7 DEF HoldInv, UnderWay
  <1>5. QED
    BY <1>3, <1>4, FinalGateKeepsTypes

LEMMA StepKeepsHolds == TypeInv /\ HoldInv /\ [Next]_vars => HoldInv'
  <1> SUFFICES ASSUME TypeInv, HoldInv, [Next]_vars
               PROVE  HoldInv'
    OBVIOUS
  <1>1. CASE UNCHANGED vars
    BY <1>1 DEF vars, HoldInv, Cand, Idle, UnderWay, RejectedHoldNothing, ApprovedWereRequeried
  <1>2. CASE Start
    <2>1. book' = book /\ scan'.pc = "loop" /\ scan'.approved = {} /\ scan'.rejected = {}
      BY <1>2, StartKeepsTypes DEF Start
    <2>2. QED
      BY <2>1 DEF HoldInv, Idle, UnderWay, RejectedHoldNothing, ApprovedWereRequeried
  <1>3. CASE Skip
    <2>1. /\ book' = book /\ scan'.pc = "loop" /\ scan'.moment = scan.moment /\ scan'.seen = scan.seen
          /\ scan'.approved = scan.approved /\ scan'.rejected = scan.rejected
      BY <1>3, SkipKeepsTypes, AdvancedFacts DEF TypeInv, Skip
    <2>2. QED
      BY <2>1 DEF HoldInv, Idle, UnderWay, RejectedHoldNothing, ApprovedWereRequeried
  <1>4. CASE RejectAtDiscovery
    BY <1>4, DiscoveryKeepsTypes DEF HoldInv, Idle, UnderWay, RejectedHoldNothing, ApprovedWereRequeried
  <1>5. CASE Reserve
    BY <1>5, ReserveKeepsHolds
  <1>6. CASE Verify
    BY <1>6, VerifyKeepsHolds
  <1>7. CASE FinalGate
    BY <1>7, FinalGateKeepsHolds
  <1>8. CASE Finish \/ RaiseOnDuplicate \/ Raise \/ Tick
    BY <1>8, QuietKeepsTypes DEF HoldInv, Idle, UnderWay, RejectedHoldNothing, ApprovedWereRequeried, Cand
  <1>9. QED
    BY <1>1, <1>2, <1>3, <1>4, <1>5, <1>6, <1>7, <1>8 DEF Next, Step

LEMMA HoldsAreBacked == TypeInv /\ HoldInv => DecisionsAreBacked
  <1> SUFFICES ASSUME TypeInv, HoldInv
               PROVE  DecisionsAreBacked
    OBVIOUS
  <1>1. ApprovedAreHeld
    BY DEF HoldInv, ApprovedAreHeld, Approved
  <1>2. ApprovedAreDisjoint
    BY <1>1 DEF ApprovedAreHeld, ApprovedAreDisjoint
  <1>3. QED
    BY <1>1, <1>2 DEF HoldInv, DecisionsAreBacked

LEMMA InitHolds == Init => HoldInv
  BY DEF Init, NoScan, EmptyBook, NoReservation, HoldInv, Idle, UnderWay,
         RejectedHoldNothing, ApprovedWereRequeried

(* Whatever the plan, the answers and the identifiers venues share, the     *)
(* bundles a scan approves are disjoint, held and requeried, and those its  *)
(* final gate turned down hold nothing (pipeline/scan.py:375-544).          *)
THEOREM DecisionsBacked == Spec => []DecisionsAreBacked
  BY InitHolds, TypesAlways, StepKeepsHolds, HoldsAreBacked, PTL DEF Spec
-----------------------------------------------------------------------------
(* Why a scan decides everything, once, and takes no more than the cap and  *)
(* one composition make.  Between bundles every candidate seen is decided;  *)
(* the one under way is the only exception.  The cap is read where a        *)
(* composition begins, so inside it the count grows with the place only.    *)
CountInv ==
  /\ IsFiniteSet(scan.seen) /\ IsFiniteSet(scan.approved) /\ IsFiniteSet(scan.rejected)
  /\ EveryCandidateDecided
  /\ UnderWay =>
       /\ Approved \cup Rejected = scan.seen \ {Cand}
       /\ Approved \cap Rejected = {}
       /\ Cardinality(scan.rejected) + Cardinality(scan.approved) + 1 = Cardinality(scan.seen)
       /\ Cardinality(scan.seen) < MaxCandidates + scan.sol
  /\ scan.pc = "loop" /\ scan.comp <= Len(scan.plan) /\ scan.sol > 1
       => Cardinality(scan.seen) < MaxCandidates + scan.sol - 1
  /\ CapHolds

(* A decision about a candidate not decided yet is one decision more.       *)
LEMMA OneMoreDecision ==
  ASSUME NEW S, IsFiniteSet(S), NEW p, p.cand \notin {s.cand : s \in S}
  PROVE  /\ IsFiniteSet(S \cup {p})
         /\ Cardinality(S \cup {p}) = Cardinality(S) + 1
         /\ {s.cand : s \in S \cup {p}} = {s.cand : s \in S} \cup {p.cand}
  <1>1. p \notin S
    OBVIOUS
  <1>2. QED
    BY <1>1, FS_AddElement

(* The counts are numbers.                                                  *)
LEMMA CountsAreNats ==
  ASSUME CountInv
  PROVE  /\ Cardinality(scan.seen) \in Nat
         /\ Cardinality(scan.approved) \in Nat /\ Cardinality(scan.rejected) \in Nat
  BY FS_CardinalityType DEF CountInv

(* Where the next bundle can be taken there is room for it: the place in a  *)
(* composition bounds the candidates taken from it.                         *)
LEMMA RoomAtTheNext ==
  ASSUME TypeInv, CountInv, scan.pc = "loop", ~Finished
  PROVE  Cardinality(scan.seen) < MaxCandidates + scan.sol - 1
  <1>1. /\ scan.sol \in Nat \ {0} /\ scan.comp \in Nat /\ Len(scan.plan) \in Nat
        /\ Cardinality(scan.seen) \in Nat /\ MaxCandidates \in Nat
    BY PlansAreSeqs, CountsAreNats, PlanAssumption DEF TypeInv, ScanState
  <1>2. CASE scan.sol = 1
    <2>1. ~(Cardinality(scan.seen) >= MaxCandidates)
      BY <1>2 DEF Finished
    <2>2. QED
      BY <1>1, <1>2, <2>1
  <1>3. CASE scan.sol # 1
    <2>1. scan.sol > 1 /\ scan.comp <= Len(scan.plan)
      BY <1>1, <1>3 DEF Finished
    <2>2. QED
      BY <1>1, <1>3, <2>1 DEF CountInv
  <1>4. QED
    BY <1>2, <1>3

(* The candidate taken at the place sol is within the cap of the longest    *)
(* composition.                                                             *)
LEMMA TakenWithinCap ==
  ASSUME TypeInv, CountInv, Buildable,
         NEW c, c = Cardinality(scan.seen) + 1
  PROVE  /\ c \in Nat /\ c < MaxCandidates + scan.sol
         /\ \A n \in DOMAIN scan.plan :
              (\A m \in DOMAIN scan.plan : Len(scan.plan[m]) <= Len(scan.plan[n]))
                => c < MaxCandidates + Len(scan.plan[n])
  <1>1. /\ scan.sol \in Nat \ {0} /\ scan.comp \in Nat \ {0} /\ Len(scan.plan) \in Nat
        /\ Cardinality(scan.seen) \in Nat /\ MaxCandidates \in Nat
        /\ scan.plan \in Seq(Seq(Candidate) \ {<< >>})
        /\ \A i \in 1..Len(scan.plan) : Len(scan.plan[i]) \in Nat
    BY PlansAreSeqs, CountsAreNats, PlanAssumption DEF TypeInv, ScanState
  <1>2. c < MaxCandidates + scan.sol
    <2>1. Cardinality(scan.seen) < MaxCandidates + scan.sol - 1
      BY RoomAtTheNext DEF Buildable
    <2>2. QED
      BY <1>1, <2>1
  <1>3. scan.comp \in DOMAIN scan.plan /\ scan.sol <= Len(scan.plan[scan.comp])
    BY <1>1, BuildableFacts DEF TypeInv, Placed
  <1>4. DOMAIN scan.plan = 1..Len(scan.plan)
    BY <1>1
  <1>5. ASSUME NEW n \in DOMAIN scan.plan,
               \A m \in DOMAIN scan.plan : Len(scan.plan[m]) <= Len(scan.plan[n])
        PROVE  c < MaxCandidates + Len(scan.plan[n])
    <2>1. Len(scan.plan[scan.comp]) <= Len(scan.plan[n])
      BY <1>3, <1>5
    <2>2. Len(scan.plan[scan.comp]) \in Nat /\ Len(scan.plan[n]) \in Nat
      BY <1>1, <1>3, <1>4
    <2>3. QED
      BY <1>1, <1>2, <1>3, <2>1, <2>2
  <1>6. QED
    BY <1>1, <1>2, <1>5

LEMMA ReserveKeepsCounts ==
  ASSUME TypeInv, CountInv, Reserve
  PROVE  CountInv'
  <1>1. Buildable /\ Cand \in Candidate /\ Cand \notin scan.seen /\ scan.pc = "loop"
    BY BuildableFacts DEF Reserve
  <1>2. /\ scan'.pc = "verify" /\ Cand' = Cand /\ scan'.seen = scan.seen \cup {Cand}
        /\ scan'.approved = scan.approved /\ scan'.rejected = scan.rejected
        /\ scan'.plan = scan.plan /\ scan'.comp = scan.comp /\ scan'.sol = scan.sol
    BY ReserveKeepsTypes
  <1>3. IsFiniteSet(scan'.seen) /\ Cardinality(scan'.seen) = Cardinality(scan.seen) + 1
    <2>1. IsFiniteSet(scan.seen)
      BY DEF CountInv
    <2>2. QED
      BY <1>1, <1>2, <2>1, FS_AddElement
  <1>4. /\ Cardinality(scan'.seen) < MaxCandidates + scan'.sol
        /\ CapHolds'
    BY <1>1, <1>2, <1>3, TakenWithinCap DEF CapHolds
  <1>5. EveryCandidateDecided
    BY DEF CountInv
  <1>6. Approved' = Approved /\ Rejected' = Rejected
    BY <1>2 DEF Approved, Rejected
  <1>7. Approved' \cup Rejected' = scan'.seen \ {Cand'} /\ Approved' \cap Rejected' = {}
    BY <1>1, <1>2, <1>5, <1>6 DEF EveryCandidateDecided
  <1>8. Cardinality(scan'.rejected) + Cardinality(scan'.approved) + 1 = Cardinality(scan'.seen)
    BY <1>1, <1>2, <1>3, <1>5 DEF EveryCandidateDecided
  <1>9. EveryCandidateDecided'
    BY <1>2 DEF EveryCandidateDecided
  <1>10. QED
    BY <1>2, <1>3, <1>4, <1>7, <1>8, <1>9 DEF CountInv

LEMMA DiscoveryKeepsCounts ==
  ASSUME TypeInv, CountInv, RejectAtDiscovery
  PROVE  CountInv'
  <1> DEFINE r == [cand |-> Cand, reasons |-> {"DISCOVERY"}]
  <1>1. Buildable /\ Cand \in Candidate /\ Cand \notin scan.seen /\ scan.pc = "loop"
    BY BuildableFacts DEF RejectAtDiscovery
  <1>2. /\ scan'.pc = "loop" /\ scan'.seen = scan.seen \cup {Cand}
        /\ scan'.approved = scan.approved /\ scan'.rejected = scan.rejected \cup {r}
        /\ scan'.plan = scan.plan
        /\ \/ scan'.comp = scan.comp /\ scan'.sol = scan.sol + 1
           \/ scan'.comp = scan.comp + 1 /\ scan'.sol = 1
    BY DiscoveryKeepsTypes
  <1>3. IsFiniteSet(scan'.seen) /\ Cardinality(scan'.seen) = Cardinality(scan.seen) + 1
    <2>1. IsFiniteSet(scan.seen)
      BY DEF CountInv
    <2>2. QED
      BY <1>1, <1>2, <2>1, FS_AddElement
  <1>4. /\ Cardinality(scan'.seen) < MaxCandidates + scan.sol
        /\ CapHolds'
    BY <1>1, <1>2, <1>3, TakenWithinCap DEF CapHolds
  <1>5. /\ Approved \cup Rejected = scan.seen /\ Approved \cap Rejected = {}
        /\ Cardinality(scan.rejected) + Cardinality(scan.approved) = Cardinality(scan.seen)
    BY <1>1 DEF CountInv, EveryCandidateDecided
  <1>6. /\ IsFiniteSet(scan'.rejected) /\ Cardinality(scan'.rejected) = Cardinality(scan.rejected) + 1
        /\ Rejected' = Rejected \cup {Cand}
    <2>1. r.cand = Cand
      OBVIOUS
    <2>2. r.cand \notin {s.cand : s \in scan.rejected} /\ IsFiniteSet(scan.rejected)
      BY <1>1, <1>5, <2>1 DEF Rejected, CountInv
    <2> HIDE DEF r
    <2>3. QED
      BY <1>2, <2>1, <2>2, OneMoreDecision DEF Rejected
  <1>7. Approved' = Approved
    BY <1>2 DEF Approved
  <1>8. EveryCandidateDecided'
    <2>1. Approved' \cup Rejected' = scan'.seen /\ Approved' \cap Rejected' = {}
      BY <1>1, <1>2, <1>5, <1>6, <1>7
    <2>2. Cardinality(scan'.rejected) + Cardinality(scan'.approved) = Cardinality(scan'.seen)
      BY <1>2, <1>3, <1>5, <1>6, CountsAreNats
    <2>3. QED
      BY <2>1, <2>2 DEF EveryCandidateDecided
  <1>9. scan'.sol > 1 => Cardinality(scan'.seen) < MaxCandidates + scan'.sol - 1
    <2>1. scan.sol \in Nat /\ MaxCandidates \in Nat /\ Cardinality(scan'.seen) \in Nat
      BY <1>3, CountsAreNats, PlanAssumption DEF TypeInv, ScanState
    <2>2. QED
      BY <1>2, <1>4, <2>1
  <1>10. IsFiniteSet(scan'.approved)
    BY <1>2 DEF CountInv
  <1>11. QED
    BY <1>2, <1>3, <1>4, <1>6, <1>8, <1>9, <1>10 DEF CountInv, UnderWay

LEMMA FinalGateKeepsCounts ==
  ASSUME TypeInv, CountInv, FinalGate
  PROVE  CountInv'
  <1>1. /\ scan.pc = "gate" /\ scan'.pc = "loop" /\ scan'.seen = scan.seen /\ scan'.plan = scan.plan
        /\ Cand \in scan.seen
        /\ \/ scan'.comp = scan.comp /\ scan'.sol = scan.sol + 1
           \/ scan'.comp = scan.comp + 1 /\ scan'.sol = 1
    BY FinalGateKeepsTypes DEF TypeInv
  <1>2. /\ Approved \cup Rejected = scan.seen \ {Cand} /\ Approved \cap Rejected = {}
        /\ Cardinality(scan.rejected) + Cardinality(scan.approved) + 1 = Cardinality(scan.seen)
        /\ Cardinality(scan.seen) < MaxCandidates + scan.sol
    BY <1>1 DEF CountInv, UnderWay
  <1>3. \E p \in [cand : {Cand}, answers : {scan.answers}] \cup [cand : {Cand}, reasons : SUBSET Reasons] :
          \/ scan'.approved = scan.approved \cup {p} /\ scan'.rejected = scan.rejected
          \/ scan'.rejected = scan.rejected \cup {p} /\ scan'.approved = scan.approved
    BY FinalGateKeepsTypes
  <1>4. PICK p : /\ p.cand = Cand
                 /\ \/ scan'.approved = scan.approved \cup {p} /\ scan'.rejected = scan.rejected
                    \/ scan'.rejected = scan.rejected \cup {p} /\ scan'.approved = scan.approved
    BY <1>3
  <1>5. /\ IsFiniteSet(scan'.approved) /\ IsFiniteSet(scan'.rejected)
        /\ Cardinality(scan'.rejected) + Cardinality(scan'.approved)
             = Cardinality(scan.rejected) + Cardinality(scan.approved) + 1
        /\ \/ Approved' = Approved \cup {Cand} /\ Rejected' = Rejected
           \/ Rejected' = Rejected \cup {Cand} /\ Approved' = Approved
    <2>1. Cand \notin Approved /\ Cand \notin Rejected
      BY <1>2
    <2>2. IsFiniteSet(scan.approved) /\ IsFiniteSet(scan.rejected)
      BY DEF CountInv
    <2>3. CASE scan'.approved = scan.approved \cup {p} /\ scan'.rejected = scan.rejected
      <3>1. /\ IsFiniteSet(scan'.approved) /\ Approved' = Approved \cup {Cand} /\ Rejected' = Rejected
            /\ Cardinality(scan'.approved) = Cardinality(scan.approved) + 1
        BY <1>4, <2>1, <2>2, <2>3, OneMoreDecision DEF Approved, Rejected
      <3>2. QED
        BY <2>2, <2>3, <3>1, CountsAreNats
    <2>4. CASE scan'.rejected = scan.rejected \cup {p} /\ scan'.approved = scan.approved
      <3>1. /\ IsFiniteSet(scan'.rejected) /\ Rejected' = Rejected \cup {Cand} /\ Approved' = Approved
            /\ Cardinality(scan'.rejected) = Cardinality(scan.rejected) + 1
        BY <1>4, <2>1, <2>2, <2>4, OneMoreDecision DEF Approved, Rejected
      <3>2. QED
        BY <2>2, <2>4, <3>1, CountsAreNats
    <2>5. QED
      BY <1>4, <2>3, <2>4
  <1>6. EveryCandidateDecided'
    <2>1. Approved' \cup Rejected' = scan'.seen /\ Approved' \cap Rejected' = {}
      BY <1>1, <1>2, <1>5
    <2>2. QED
      BY <1>1, <1>2, <1>5, <2>1 DEF EveryCandidateDecided
  <1>7. scan'.sol > 1 => Cardinality(scan'.seen) < MaxCandidates + scan'.sol - 1
    <2>1. scan.sol \in Nat /\ MaxCandidates \in Nat /\ Cardinality(scan.seen) \in Nat
      BY CountsAreNats, PlanAssumption DEF TypeInv, ScanState
    <2>2. QED
      BY <1>1, <1>2, <2>1
  <1>8. IsFiniteSet(scan'.seen) /\ CapHolds'
    BY <1>1 DEF CountInv, CapHolds
  <1>9. QED
    BY <1>1, <1>5, <1>6, <1>7, <1>8 DEF CountInv, UnderWay

LEMMA StepKeepsCounts == TypeInv /\ CountInv /\ [Next]_vars => CountInv'
  <1> SUFFICES ASSUME TypeInv, CountInv, [Next]_vars
               PROVE  CountInv'
    OBVIOUS
  <1> USE DEF CountInv
  <1>1. CASE UNCHANGED vars
    BY <1>1 DEF vars, UnderWay, Cand, Approved, Rejected, EveryCandidateDecided, CapHolds
  <1>2. CASE Start
    <2>1. /\ scan' \in ScanState /\ scan'.pc = "loop" /\ scan'.sol = 1
          /\ scan'.seen = {} /\ scan'.approved = {} /\ scan'.rejected = {}
      BY <1>2, StartKeepsTypes DEF TypeInv
    <2>2. IsFiniteSet({}) /\ Cardinality({}) = 0
      BY FS_EmptySet
    <2>3. EveryCandidateDecided'
      BY <2>1, <2>2 DEF EveryCandidateDecided, Approved, Rejected
    <2>4. CapHolds'
      <3>1. \A n \in DOMAIN scan'.plan : Len(scan'.plan[n]) \in Nat \ {0}
        BY <2>1, PlansAreSeqs
      <3>2. QED
        BY <2>1, <2>2, <3>1, PlanAssumption DEF CapHolds
    <2>5. QED
      BY <2>1, <2>2, <2>3, <2>4 DEF UnderWay
  <1>3. CASE Skip
    <2>1. /\ scan.pc = "loop" /\ ~Finished /\ scan'.pc = "loop" /\ scan'.plan = scan.plan
          /\ scan'.seen = scan.seen /\ scan'.approved = scan.approved /\ scan'.rejected = scan.rejected
          /\ \/ scan'.comp = scan.comp /\ scan'.sol = scan.sol + 1
             \/ scan'.comp = scan.comp + 1 /\ scan'.sol = 1
      BY <1>3, SkipKeepsTypes, AdvancedFacts DEF TypeInv, Skip
    <2>2. scan'.sol > 1 => Cardinality(scan'.seen) < MaxCandidates + scan'.sol - 1
      <3>1. Cardinality(scan.seen) < MaxCandidates + scan.sol - 1
        BY <2>1, RoomAtTheNext
      <3>2. scan.sol \in Nat /\ MaxCandidates \in Nat /\ Cardinality(scan.seen) \in Nat
        BY CountsAreNats, PlanAssumption DEF TypeInv, ScanState
      <3>3. QED
        BY <2>1, <3>1, <3>2
    <2>3. EveryCandidateDecided' /\ CapHolds'
      BY <2>1 DEF EveryCandidateDecided, Approved, Rejected, CapHolds
    <2>4. QED
      BY <2>1, <2>2, <2>3 DEF UnderWay
  <1>4. CASE RejectAtDiscovery
    BY <1>4, DiscoveryKeepsCounts
  <1>5. CASE Reserve
    BY <1>5, ReserveKeepsCounts
  <1>6. CASE Verify
    <2>1. /\ scan.pc = "verify" /\ scan'.pc \in {"verify", "gate"} /\ Cand' = Cand
          /\ scan'.seen = scan.seen /\ scan'.approved = scan.approved /\ scan'.rejected = scan.rejected
          /\ scan'.plan = scan.plan /\ scan'.sol = scan.sol
      BY <1>6, VerifyKeepsTypes
    <2>2. QED
      BY <2>1 DEF UnderWay, EveryCandidateDecided, Approved, Rejected, CapHolds
  <1>7. CASE FinalGate
    BY <1>7, FinalGateKeepsCounts
  <1>8. CASE Finish \/ RaiseOnDuplicate \/ Raise \/ Tick
    <2>1. /\ scan'.seen = scan.seen /\ scan'.approved = scan.approved /\ scan'.rejected = scan.rejected
          /\ scan'.plan = scan.plan
          /\ \/ scan' = scan
             \/ scan'.pc = "returned" /\ scan.pc = "loop"
             \/ scan'.pc = "raised"
      BY <1>8, QuietKeepsTypes
    <2>2. QED
      BY <2>1 DEF UnderWay, EveryCandidateDecided, Approved, Rejected, CapHolds, Cand
  <1>9. QED
    BY <1>1, <1>2, <1>3, <1>4, <1>5, <1>6, <1>7, <1>8 DEF Next, Step

(* Whatever the market served and the venues answered, a scan that returns  *)
(* has decided each candidate it took once, and it took fewer than the cap  *)
(* and its longest composition make (pipeline/scan.py:440-544).             *)
THEOREM DecisionsComplete == Spec => []DecisionsAreComplete
  <1>1. Init => CountInv
    BY FS_EmptySet DEF Init, NoScan, CountInv, EveryCandidateDecided, UnderWay, CapHolds, Approved, Rejected
  <1>2. CountInv => DecisionsAreComplete
    BY DEF CountInv, DecisionsAreComplete
  <1>3. QED
    BY <1>1, <1>2, TypesAlways, StepKeepsCounts, PTL DEF Spec
=============================================================================
