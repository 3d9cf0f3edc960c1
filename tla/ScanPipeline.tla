---------------------------- MODULE ScanPipeline ----------------------------
(***************************************************************************)
(* ScanPipeline.run (pipeline/scan.py): bundles are taken one by one, each *)
(* is built into a candidate, gated, reserved, requeried listing by        *)
(* listing and gated again.  A pipeline that is run again keeps the        *)
(* registry it was built on; a scan works at the one moment it was given,  *)
(* however long it takes.                                                  *)
(*                                                                         *)
(* What the market served, the enumerator proposed and the optimiser       *)
(* solved is the plan of a scan: a sequence of compositions, each the      *)
(* sequence of bundles solved for its float budgets.                       *)
(***************************************************************************)
EXTENDS ReservationBook, Sequences, FiniteSets

CONSTANTS Bundle,        \* the listings of each candidate, as a sequence
          Plans,         \* the plans a scan can meet
          ListingId,     \* the venue's own id of each listing
          WithAdapter,   \* listings on a venue whose adapter takes part
          IllDefined,    \* bundles no contract can be built from
          MaxCandidates, \* ScanConfig.max_candidates
          MaxNow         \* bound on the clock, for TLC

Inputs(c) == {Bundle[c][i] : i \in DOMAIN Bundle[c]}

(* Bundles with one offer in two slots.  Nothing removes a listing that    *)
(* the market served twice before the optimiser sees it.                   *)
Duplicated == {c \in Candidate : \E i, j \in DOMAIN Bundle[c] : i # j /\ Bundle[c][i] = Bundle[c][j]}
ListingIds == {ListingId[l] : l \in Listing}

ASSUME PlanAssumption ==
  /\ Bundle \in [Candidate -> Seq(Listing) \ {<< >>}]
  /\ Plans \subseteq Seq(Seq(Candidate) \ {<< >>})
  /\ MaxCandidates \in Nat /\ MaxNow \in Nat

VARIABLES book,          \* the reservation registry
          now,           \* time, read once by each scan
          scan           \* the scan under way or the last one
vars == <<book, now, scan>>

(* What verify_listing said when it did not refuse: whose listing it read, *)
(* whether it is still there and whether it is still what was quoted.      *)
(* Every adapter that finds a listing reports its asset.                   *)
Verification == [about: Listing, present: BOOLEAN, unchanged: BOOLEAN]
Unverified == [about |-> "nothing"]

Reasons == {"DISCOVERY", "INCOMPLETE_BUNDLE", "LISTING_DISAPPEARED", "LISTING_CHANGED",
            "LISTING_IDENTITY_MISMATCH", "ASSET_ALREADY_RESERVED", "ECONOMICS"}

NoScan == [pc |-> "idle", moment |-> 0, plan |-> << >>, comp |-> 1, sol |-> 1, pos |-> 1,
           reserved |-> {}, verified |-> [k \in ListingIds |-> Unverified],
           answers |-> {}, seen |-> {}, approved |-> {}, rejected |-> {}]

Init == book = EmptyBook /\ now = 0 /\ scan = NoScan

Cand == scan.plan[scan.comp][scan.sol]

-----------------------------------------------------------------------------
(* The adapters are asked for listings; those that refuse are counted and  *)
(* their listings are missing from the plan.                               *)
Start ==
  /\ scan.pc \in {"idle", "returned", "raised"}
  /\ \E plan \in Plans :
       scan' = [NoScan EXCEPT !.pc = "loop", !.moment = now, !.plan = plan]
  /\ UNCHANGED <<book, now>>

(* Mutant: the last bundle of a composition is taken again. *)
AdvancedNever(s) == IF s.sol < Len(s.plan[s.comp]) THEN [s EXCEPT !.sol = @ + 1] ELSE s

(* The rest of a composition, then the next one. *)
Advanced(s) == IF s.sol < Len(s.plan[s.comp])
               THEN [s EXCEPT !.sol = @ + 1]
               ELSE [s EXCEPT !.comp = @ + 1, !.sol = 1]

(* Mutant: the cap is only read when the scan is done. *)
CapForgotten == scan.comp > Len(scan.plan)

(* The cap is looked at between compositions. *)
Finished == \/ scan.comp > Len(scan.plan)
            \/ scan.sol = 1 /\ Cardinality(scan.seen) >= MaxCandidates

Finish ==
  /\ scan.pc = "loop" /\ Finished
  /\ scan' = [scan EXCEPT !.pc = "returned"]
  /\ UNCHANGED <<book, now>>

(* Mutant: a bundle met before is taken as new. *)
PassedWithoutContract == IllDefined

(* No contract, or a bundle met before under another float budget. *)
Passed == IllDefined \cup scan.seen

Skip ==
  /\ scan.pc = "loop" /\ ~Finished
  /\ Cand \in Passed
  /\ scan' = Advanced(scan)
  /\ UNCHANGED <<book, now>>

(* The candidate's constructor refuses one asset in two slots. *)
RaiseOnDuplicate ==
  /\ scan.pc = "loop" /\ ~Finished
  /\ Cand \in Duplicated \ Passed
  /\ scan' = [scan EXCEPT !.pc = "raised"]
  /\ UNCHANGED <<book, now>>

Buildable == /\ scan.pc = "loop" /\ ~Finished
             /\ Cand \notin Passed \cup Duplicated

RejectAtDiscovery ==
  /\ Buildable
  /\ scan' = Advanced([scan EXCEPT !.seen = @ \cup {Cand},
               !.rejected = @ \cup {[cand |-> Cand, reasons |-> {"DISCOVERY"}]}])
  /\ UNCHANGED <<book, now>>

(* Past the discovery gate the bundle is claimed; the listings are         *)
(* requeried whether or not the claim succeeded.                           *)
Reserve ==
  /\ Buildable
  /\ LET free == Conflicts(book, Cand, Inputs(Cand), scan.moment) = {}
     IN /\ book' = IF free THEN Claimed(book, Cand, Inputs(Cand), scan.moment) ELSE book
        /\ scan' = [scan EXCEPT !.pc = "verify", !.pos = 1,
                     !.seen = @ \cup {Cand},
                     !.reserved = IF free THEN {ListingId[l] : l \in Inputs(Cand)} ELSE {},
                     !.verified = [k \in ListingIds |-> Unverified],
                     !.answers = {}]
  /\ UNCHANGED now

(* Mutant: one listing too many is asked for. *)
AskedPastLast == scan.pos > Len(Bundle[Cand])

AskedAll == scan.pos = Len(Bundle[Cand])

(* One listing is requeried.  The answer is filed under the listing's id,  *)
(* without its venue; answers, the record of what was said, is history.    *)
Verify ==
  /\ scan.pc = "verify"
  /\ LET l == Bundle[Cand][scan.pos]
         next == [scan EXCEPT !.pos = @ + 1,
                   !.pc = IF AskedAll THEN "gate" ELSE "verify"]
     IN \/ scan' = next
        \/ /\ l \in WithAdapter
           /\ \E v \in Verification :
                /\ v.about = l
                /\ scan' = [next EXCEPT !.verified[ListingId[l]] = v,
                                        !.answers = @ \cup {v}]
  /\ UNCHANGED <<book, now>>

(* Mutant: the asset that answered is not compared. *)
InputReasonsByPrice(l) ==
  LET v == scan.verified[ListingId[l]]
  IN {r \in {"INCOMPLETE_BUNDLE", "LISTING_DISAPPEARED", "LISTING_CHANGED"} :
        CASE r = "INCOMPLETE_BUNDLE"   -> v = Unverified
          [] r = "LISTING_DISAPPEARED" -> v # Unverified /\ ~v.present
          [] r = "LISTING_CHANGED"     -> v # Unverified /\ v.present /\ ~v.unchanged}

(* What the final gate says of one input, from what is filed under its id. *)
InputReasons(l) ==
  LET v == scan.verified[ListingId[l]]
  IN IF v = Unverified THEN {"INCOMPLETE_BUNDLE"}
     ELSE IF ~v.present THEN {"LISTING_DISAPPEARED"}
     ELSE {r \in {"LISTING_CHANGED", "LISTING_IDENTITY_MISMATCH"} :
             CASE r = "LISTING_CHANGED"           -> ~v.unchanged
               [] r = "LISTING_IDENTITY_MISMATCH" -> v.about # l}

(* Mutant: a claim that found conflicts is not held against the bundle. *)
ReservationIgnored == {}

ReservationReasons ==
  {r \in {"ASSET_ALREADY_RESERVED"} : \E l \in Inputs(Cand) : ListingId[l] \notin scan.reserved}

(* Mutant: a rejected candidate keeps its claims. *)
GaveBackNothing(c) == book

GivenBack(c) == ReleaseOf(book, c)

(* The final gate collects every reason; the candidate is approved and     *)
(* keeps its claims, or rejected and gives them back.                      *)
FinalGate ==
  /\ scan.pc = "gate"
  /\ \E economics \in SUBSET {"ECONOMICS"} :
       LET reasons == economics \cup ReservationReasons
                        \cup UNION {InputReasons(l) : l \in Inputs(Cand)}
           s == [scan EXCEPT !.pc = "loop"]
       IN IF reasons = {}
          THEN /\ scan' = Advanced([s EXCEPT !.approved = @ \cup
                    {[cand |-> Cand, answers |-> scan.answers]}])
               /\ UNCHANGED book
          ELSE /\ scan' = Advanced([s EXCEPT !.rejected = @ \cup
                    {[cand |-> Cand, reasons |-> reasons]}])
               /\ book' = GivenBack(Cand)
  /\ UNCHANGED now

(* verify_listing raises: nothing catches it and nothing is released. *)
Raise ==
  /\ scan.pc = "verify"
  /\ scan' = [scan EXCEPT !.pc = "raised"]
  /\ UNCHANGED <<book, now>>

Tick == now < MaxNow /\ now' = now + 1 /\ UNCHANGED <<book, scan>>

Step == \/ Finish \/ Skip \/ RaiseOnDuplicate
        \/ RejectAtDiscovery \/ Reserve \/ Verify \/ FinalGate

Next == Start \/ Step \/ Raise \/ Tick

(* The event loop keeps running a scan whose adapters answer. *)
Spec == Init /\ [][Next]_vars /\ WF_vars(Step)

-----------------------------------------------------------------------------
Approved == {a.cand : a \in scan.approved}
Rejected == {r.cand : r \in scan.rejected}

TypeOK ==
  /\ book \in Book
  /\ now \in 0..MaxNow
  /\ scan.pc \in {"idle", "loop", "verify", "gate", "returned", "raised"}
  /\ scan.pc \in {"verify", "gate"} => Cand \in scan.seen
  /\ scan.pc = "verify" => scan.pos \in DOMAIN Bundle[Cand]
  /\ scan.verified \in [ListingIds -> Verification \cup {Unverified}]
  /\ scan.seen \cup Approved \cup Rejected \subseteq Candidate
  /\ \A r \in scan.rejected : r.reasons # {} /\ r.reasons \subseteq Reasons

(* No listing is promised twice: the bundles one report recommends buying  *)
(* share no listing, so an operator can act on every card.                 *)
ApprovedAreDisjoint ==
  \A c, d \in Approved : c # d => Inputs(c) \cap Inputs(d) = {}

(* A recommended bundle is reserved: from its approval on, for as long as  *)
(* no later scan starts, the candidate holds every listing at the scan's   *)
(* moment.                                                                 *)
ApprovedAreHeld ==
  \A c \in Approved : \A l \in Inputs(c) : Holder(book, l, scan.moment) = c

(* A candidate the final gate turned down holds nothing any more, whether  *)
(* its claim had succeeded or an earlier scan had left it one.  (Rejected  *)
(* at discovery, it keeps what an aborted scan claimed for it.)            *)
RejectedHoldNothing ==
  \A r \in scan.rejected : \A l \in Listing :
    r.reasons # {"DISCOVERY"} /\ book[l].cand = r.cand => ~IsActive(book[l])

(* A recommendation rests on a direct answer about each of its own         *)
(* listings, given after the discovery gate: still there, still as quoted. *)
(* The answers are filed under ids that two venues can share.              *)
ApprovedWereRequeried ==
  \A a \in scan.approved : \A l \in Inputs(a.cand) :
    [about |-> l, present |-> TRUE, unchanged |-> TRUE] \in a.answers

(* What a scan decides is what the book and the venues bear out: approved  *)
(* bundles are apart, held and requeried, rejected ones hold nothing.      *)
DecisionsAreBacked ==
  /\ ApprovedAreDisjoint
  /\ ApprovedAreHeld
  /\ RejectedHoldNothing
  /\ ApprovedWereRequeried

(* A scan that returns has decided every candidate it built, once. *)
EveryCandidateDecided ==
  scan.pc \in {"loop", "returned"} =>
    /\ Approved \cup Rejected = scan.seen
    /\ Approved \cap Rejected = {}
    /\ Cardinality(scan.rejected) + Cardinality(scan.approved) = Cardinality(scan.seen)

(* The cap on candidates is overshot by less than the bundles of one       *)
(* composition.                                                            *)
CapHolds ==
  \A n \in DOMAIN scan.plan :
    (\A m \in DOMAIN scan.plan : Len(scan.plan[m]) <= Len(scan.plan[n]))
      => Cardinality(scan.seen) < MaxCandidates + Len(scan.plan[n])

(* Every candidate is decided, once, and no more are taken than the cap    *)
(* and one composition make.                                               *)
DecisionsAreComplete == EveryCandidateDecided /\ CapHolds

(* A scan that starts ends, with a report or an exception. *)
ScansEnd == (scan.pc = "loop") ~> (scan.pc \in {"returned", "raised"})
=============================================================================
