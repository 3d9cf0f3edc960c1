------------------------------- MODULE CSFloat -------------------------------
(***************************************************************************)
(* The read-only client of one venue (adapters/csfloat.py): listings are   *)
(* fetched page by page and parsed row by row, one listing is requeried by *)
(* its id.  A transport's failure becomes a typed refusal.                 *)
(*                                                                         *)
(* The venue keeps its offers by price; between two pages offers come and  *)
(* go, so the next page may repeat the last row or miss one.               *)
(***************************************************************************)
EXTENDS RestClient, Floats

CONSTANTS PageLimit,   \* _PAGE_LIMIT
          Markets      \* what the venue can hold: offers by growing price

(* What a venue can offer at all. *)
Offer == UNION {{m[k] : k \in DOMAIN m} : m \in Markets}

(* A venue has an offer once. *)
ASSUME PageAssumption ==
  /\ PageLimit \in Nat \ {0} /\ Markets \subseteq Seq(Offer)
  /\ \A m \in Markets : \A j, k \in DOMAIN m : m[j].id = m[k].id => j = k

VARIABLES market,  \* the venue's offers
          fetch    \* fetch_listings under way, or the last one

Statuses == {"AUTHENTICATION_REQUIRED", "RATE_LIMITED", "TEMPORARILY_UNAVAILABLE"}

(* A failure nobody mapped is an outage. *)
StatusOf(error) == CASE error = "auth" -> "AUTHENTICATION_REQUIRED"
                     [] error = "limited" -> "RATE_LIMITED"
                     [] OTHER -> "TEMPORARILY_UNAVAILABLE"

NoFetch == [pc |-> "idle", query |-> "", limit |-> 0, rows |-> << >>, served |-> 0,
            pages |-> 0, at |-> 0, status |-> "none"]

MaxPages == -((-fetch.limit) \div PageLimit)

Offers(query) == Picked(market, {k \in DOMAIN market : query = "all" \/ market[k].skin = query})

(* What the strict parser lets through: an offer at a price, for sale now, *)
(* with every field, of one skin of the registry and a float in its range. *)
Readable(row) == row.fit # "unreadable"

Begun(query, limit) == [NoFetch EXCEPT !.pc = "fetching", !.query = query, !.limit = limit]

(* Mutant: pages are counted in rows. *)
WantsByRows == fetch.served < fetch.limit

Wants == Len(fetch.rows) < fetch.limit /\ fetch.pages < MaxPages

(* Mutant: rows that could not be parsed make a quiet market. *)
EndedQuietly(f) == [f EXCEPT !.pc = "ok"]

(* Rows of which none could be parsed are an outage, no rows a market. *)
Ended(f) == IF f.served > 0 /\ f.rows = << >>
            THEN [f EXCEPT !.pc = "refused", !.status = "TEMPORARILY_UNAVAILABLE"]
            ELSE [f EXCEPT !.pc = "ok"]

AskPage == /\ fetch.pc = "fetching" /\ call.pc = "idle" /\ Wants
           /\ call' = Started
           /\ UNCHANGED <<market, fetch>>

Asked == IF PageLimit < fetch.limit - Len(fetch.rows) THEN PageLimit
         ELSE fetch.limit - Len(fetch.rows)

(* Where the next page can begin. *)
Resumes == IF fetch.pages = 0 THEN {0}
           ELSE {fetch.at - 1, fetch.at, fetch.at + 1} \cap 0..Len(Offers(fetch.query))

(* A page: its rows, those that parse, and a cursor.  The fetch ends with  *)
(* a page that has none, or no row at all. *)
TakePage ==
  /\ fetch.pc = "fetching" /\ call.pc = "answered"
  /\ \E from \in Resumes, last \in BOOLEAN :
       LET offers == Offers(fetch.query)
           end == IF from + Asked < Len(offers) THEN from + Asked ELSE Len(offers)
           page == SubSeq(offers, from + 1, end)
           read == [fetch EXCEPT !.rows = @ \o Picked(page, {k \in DOMAIN page : Readable(page[k])}),
                                 !.served = @ + Len(page), !.pages = @ + 1, !.at = end]
       IN /\ last => end = Len(offers)
          /\ fetch' = IF last \/ page = << >> THEN Ended(read) ELSE read
  /\ call' = Idle /\ UNCHANGED market

(* A page that cannot be read at all is a refusal of the whole fetch. *)
SpoiledPage ==
  /\ fetch.pc = "fetching" /\ call.pc = "answered"
  /\ fetch' = [fetch EXCEPT !.pc = "refused", !.status = "TEMPORARILY_UNAVAILABLE"]
  /\ call' = Idle /\ UNCHANGED market

LastPage == /\ fetch.pc = "fetching" /\ call.pc = "idle" /\ ~Wants
            /\ fetch' = Ended(fetch)
            /\ UNCHANGED <<market, call>>

PageFailed == /\ fetch.pc = "fetching" /\ call.pc = "failed"
              /\ fetch' = [fetch EXCEPT !.pc = "refused", !.status = StatusOf(call.error)]
              /\ call' = Idle /\ UNCHANGED market

FetchNext == AskPage \/ TakePage \/ SpoiledPage \/ LastPage \/ PageFailed

(* What verify_listing makes of the answer to its one request: a listing   *)
(* that cannot be confirmed, for whatever reason, is a verification of     *)
(* status UNKNOWN, while a limit or a credential is a refusal.             *)
VerdictOfFailure(error) ==
  IF StatusOf(error) = "TEMPORARILY_UNAVAILABLE" THEN "unknown" ELSE "refused"

VerdictOfAnswer(found) == CASE found = "unreadable" -> "unknown"
                            [] OTHER -> found

(* An empty success means an empty market: rows nobody could read are      *)
(* never read as a quiet venue; and a fetch never brings more than it was  *)
(* asked for, or asks for more pages than its limit takes.                 *)
QuietIsNotBroken ==
  /\ fetch.pc = "ok" /\ fetch.rows = << >> => fetch.served = 0
  /\ Len(fetch.rows) <= fetch.limit /\ fetch.pages <= MaxPages
=============================================================================
