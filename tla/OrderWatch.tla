----------------------------- MODULE OrderWatch -----------------------------
(***************************************************************************)
(* The review of the operator's standing buy orders (discovery/            *)
(* order_watch.py) after a batch has confirmed its leads: the ceilings     *)
(* measured this batch are collected, then each order is judged against    *)
(* the exact ceiling of its lead or the sweep's estimate.                  *)
(*                                                                         *)
(* Orders and ceilings are filed by collection, quality and wear: a lead   *)
(* is such a key and a rarity, and an order buys the inputs of one lead.   *)
(***************************************************************************)
EXTENDS Naturals, Sequences

CONSTANTS Key,        \* collection, quality and wear
          Rarity,     \* input rarities
          Price,      \* prices and ceilings, minor units
          Currency,   \* Base, and others a standing order can be in
          Base,       \* what the batch prices in
          OrderLists, \* the standing orders considered, as sequences
          Boards,     \* the sweep's prospects, each a set
          Measures    \* what the batch assessed, as sequences

Lead == Key \X Rarity
Order == [lead: Lead, price: Price, currency: Currency]
Prospect == [lead: Lead, roi: Nat, ceiling: Price]
Measured == [lead: Lead, ceiling: Price]

ASSUME WatchAssumption ==
  /\ Base \in Currency /\ Price \subseteq Nat
  /\ OrderLists \subseteq Seq(Order) /\ Measures \subseteq Seq(Measured)
  /\ Boards \subseteq SUBSET Prospect

VARIABLES orders, board, measures,  \* the inputs of the review
          pc, pos,                  \* the phase and the item it is at
          ceilings,                 \* confirmed_unit_ceilings
          verdicts
vars == <<orders, board, measures, pc, pos, ceilings, verdicts>>
inputs == <<orders, board, measures>>

Nothing == [status |-> "none", ceiling |-> 0, evidence |-> "none"]
KeyOf(lead) == lead[1]

Init == /\ orders \in OrderLists /\ board \in Boards /\ measures \in Measures
        /\ pc = "measure" /\ pos = 1
        /\ ceilings = [k \in Key |-> Nothing]
        /\ verdicts = << >>

-----------------------------------------------------------------------------
(* Mutant: the last confirmation of a lead wins. *)
KeptLast(old, new) == new

(* Two confirmations of one key keep the lower ceiling. *)
Kept(old, new) == IF old = Nothing \/ new.ceiling < old.ceiling THEN new ELSE old

Measure ==
  /\ pc = "measure"
  /\ \/ /\ pos <= Len(measures)
        /\ LET k == KeyOf(measures[pos].lead)
               new == [status |-> "exact", ceiling |-> measures[pos].ceiling, evidence |-> "exact"]
           IN ceilings' = [ceilings EXCEPT ![k] = Kept(@, new)]
        /\ pos' = pos + 1
        /\ UNCHANGED pc
     \/ /\ pos > Len(measures)
        /\ pc' = "judge" /\ pos' = 1
        /\ UNCHANGED ceilings
  /\ UNCHANGED <<inputs, verdicts>>

(* The best-ranked sketches under the order's key, whatever their rarity. *)
BestVariants(key) ==
  LET matching == {p \in board : KeyOf(p.lead) = key}
  IN {p \in matching : \A q \in matching : q.roi <= p.roi}

Verdict(order, ceiling, evidence) ==
  [status |-> IF order.price <= ceiling THEN "STILL_VALID" ELSE "CEILING_DECAYED",
   ceiling |-> ceiling, evidence |-> evidence]

Unpriceable == [status |-> "LEAD_UNPRICEABLE", ceiling |-> 0, evidence |-> "none"]

(* Exact evidence beats the sweep. *)
EvidenceOf(key) ==
  IF ceilings[key] # Nothing THEN "exact" ELSE IF BestVariants(key) # {} THEN "sweep" ELSE "none"

(* Mutant: an order nothing can price is passed over. *)
JudgedIfPriced(v) ==
  /\ verdicts' = IF v.evidence = "none" THEN verdicts ELSE Append(verdicts, v)
  /\ pos' = pos + 1 /\ UNCHANGED pc

Judged(v) == verdicts' = Append(verdicts, v) /\ pos' = pos + 1 /\ UNCHANGED pc

(* One order is judged.  Only the path over the sweep looks at the         *)
(* currencies; comparing money across currencies raises. *)
Judge ==
  /\ pc = "judge" /\ pos <= Len(orders)
  /\ LET o == orders[pos]
         key == KeyOf(o.lead)
     IN CASE EvidenceOf(key) = "exact" ->
               IF o.currency = Base THEN Judged(Verdict(o, ceilings[key].ceiling, "exact"))
               ELSE pc' = "raised" /\ UNCHANGED <<pos, verdicts>>
          [] EvidenceOf(key) = "sweep" ->
               \E p \in BestVariants(key) :
                 Judged(IF o.currency = Base THEN Verdict(o, p.ceiling, "sweep") ELSE Unpriceable)
          [] OTHER -> Judged(Unpriceable)
  /\ UNCHANGED <<inputs, ceilings>>

Finish == /\ pc = "judge" /\ pos > Len(orders)
          /\ pc' = "done"
          /\ UNCHANGED <<inputs, pos, ceilings, verdicts>>

Next == Measure \/ Judge \/ Finish

Spec == Init /\ [][Next]_vars /\ WF_vars(Next)

-----------------------------------------------------------------------------
TypeOK == /\ pc \in {"measure", "judge", "done", "raised"}
          /\ verdicts \in Seq([status: {"STILL_VALID", "CEILING_DECAYED", "LEAD_UNPRICEABLE"},
                               ceiling: Price \cup {0}, evidence: {"exact", "sweep", "none"}])
          /\ pc = "judge" => Len(verdicts) = pos - 1

ExactOf(lead) == {measures[i].ceiling : i \in {i \in DOMAIN measures : measures[i].lead = lead}}

(* No order stands against what the batch itself measured: wherever the    *)
(* order's own lead was confirmed, STILL_VALID means its price is within   *)
(* every ceiling measured, not within a friendlier estimate.               *)
ExactEvidenceWins ==
  \A i \in DOMAIN verdicts :
    verdicts[i].status = "STILL_VALID" =>
      \A c \in ExactOf(orders[i].lead) : orders[i].price <= c

(* Every standing order of a file in the base currency gets its verdict.   *)
EveryOrderJudged ==
  (\A i \in DOMAIN orders : orders[i].currency = Base)
    => <>(pc = "done" /\ Len(verdicts) = Len(orders))
=============================================================================
