---------------------------- MODULE OrderReview -----------------------------
(***************************************************************************)
(* The appraisals of a batch and its review of the standing orders         *)
(* together (pipeline/confirm_batch.py): the entry target of every         *)
(* assessed lead becomes a ceiling the orders are then judged against.     *)
(***************************************************************************)
EXTENDS Appraisal, OrderWatch

ASSUME ReviewAssumption == \A c \in Candidate : c.lead \in Lead

reviewVars == <<appraisalVars, vars>>

ReviewInit == AppraisalInit /\ Init

(* Leads are confirmed before anything is reviewed. *)
Confirming == pc = "measure" /\ pos = 1

Open == Confirming /\ Start /\ UNCHANGED vars

Appraise == Deliberate /\ UNCHANGED vars

MeasureLead ==
  /\ Conclude
  /\ measures' = Append(measures,
       [lead |-> deal.candidate.lead, ceiling |-> PerUnit(search.low, Len(deal.candidate.inputs))])
  /\ UNCHANGED <<orders, board, pc, pos, ceilings, verdicts>>

Review == stage = "idle" /\ Next /\ UNCHANGED appraisalVars

ReviewNext == Open \/ Appraise \/ MeasureLead \/ Review

(* Once it can run, the review does. *)
ReviewSpec == ReviewInit /\ [][ReviewNext]_reviewVars /\ WF_reviewVars(Review)

-----------------------------------------------------------------------------
(* An order left standing on exact evidence keeps its lead at the target:  *)
(* filled at its own price for every input, the contract costs no more     *)
(* than any cap computed for that lead in this batch.                      *)
StandingOrdersFit ==
  \A i \in DOMAIN verdicts : \A k \in DOMAIN appraised :
    verdicts[i].status = "STILL_VALID" /\ appraised[k].lead = orders[i].lead
      => appraised[k].inputs * orders[i].price <= appraised[k].cap

(* A verdict rests on what was measured: exact evidence before estimates,  *)
(* and a price that keeps the contract within its cap.                     *)
VerdictsRestOnEvidence == ExactEvidenceWins /\ StandingOrdersFit

(* Every standing order gets its verdict, whatever became of the leads, as *)
(* long as each of their confirmations comes to an end.                    *)
OrdersGetVerdicts == []<>(stage = "idle") => EveryOrderJudged
=============================================================================
