--------------------------- MODULE MCDurableStore ---------------------------
(* Two scans that share candidate c1, two ingestions that observe listing  *)
(* l1 once more, claims and a release, and two ledger writers whose events *)
(* collide in their derived id.                                            *)
EXTENDS DurableStore, TLC

Of(x) == [c \in Column |-> x]
Listing(price, at) == [price |-> price, observed_at |-> at]

ScanOne == << Insert("scan1", Of("1")), Upsert("c1", Of("1")), Insert("c1@scan1", Of("1")),
              Upsert("c2", Of("1")), Insert("c2@scan1", Of("1")) >>
ScanTwo == << Snapshot("registry", Of("2")), Insert("scan2", Of("2")), Upsert("c1", Of("2")) >>
Ingest == << Snapshot("registry", Of("1")), Upsert("l1", Listing("low", "t1")) >>
IngestAgain == << Snapshot("registry", Of("3")), Upsert("l1", Listing("low", "t2")) >>
IngestDearer == << Upsert("l1", Listing("high", "t3")), Upsert("l2", Listing("low", "t3")) >>
ClaimOne == << Reserve("l1", Of("c1")) >>
ClaimTwo == << Reserve("l1", Of("c2")), Reserve("l2", Of("c2")) >>
Release == << Deactivate("l1", Of("t3")) >>
LedgerOne == << AppendEvent("e1", Of("+1")), AppendEvent("e2", Of("+2")) >>
LedgerTwo == << AppendEvent("e2", Of("+3")) >>

MCScripts == {ScanOne, ScanTwo, Ingest, IngestAgain, IngestDearer, ClaimOne, ClaimTwo, Release,
              LedgerOne, LedgerTwo}

(* Which process runs which block makes no difference. *)
MCSymmetry == Permutations(Process)

MCColumn == {"price", "observed_at"}
MCKey == UNION {{s[i].key : i \in DOMAIN s} : s \in MCScripts}
MCCell == UNION {UNION {{s[i].value[c] : c \in MCColumn} : i \in DOMAIN s} : s \in MCScripts}
=============================================================================
