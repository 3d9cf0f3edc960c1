---------------------------- MODULE ConfirmBatch ----------------------------
(***************************************************************************)
(* The confirm-and-calibrate batch (pipeline/confirm_batch.py), run by a   *)
(* scheduler once per period: sweep the market into a ranked board, choose *)
(* leads, confirm them one by one, record them all in one transaction,     *)
(* review the standing orders, execute the entry hits, write the alert.    *)
(*                                                                         *)
(* Only the table of recorded confirmations survives a batch.  Of a row    *)
(* the next batches read the lead and its age; ages count periods, and a   *)
(* row written one window ago is still inside it, being written after the  *)
(* sweep of its batch.                                                     *)
(***************************************************************************)
EXTENDS Naturals, Sequences, FiniteSets

CONSTANTS Prospect,    \* contract sketches
          LeadOf,      \* the lead a sketch is a variant of
          AboveFloor,  \* sketches at or above min_estimated_roi
          Allowed,     \* sketches of a rarity the caller asked for
          Poison,      \* sketches whose confirmation raises
          Boards,      \* the rankings a sweep can produce
          Top,         \* leads per batch
          Window,      \* the rotation window, in periods; 0 disables it
          MayMiss,     \* whether periods can pass without a batch
          Buyer        \* whether a buyer with adapters is injected

Lead == {LeadOf[p] : p \in Prospect}

ASSUME BatchAssumption ==
  /\ Top \in Nat \ {0} /\ Window \in Nat /\ Buyer \in BOOLEAN
  /\ AboveFloor \cup Allowed \cup Poison \subseteq Prospect
  /\ Boards \subseteq Seq(Prospect)

VARIABLES age,         \* periods since the lead's last row, Window + 1 for longer
          batch        \* the batch under way or the last one
vars == <<age, batch>>

Status == {"FAILED", "NO_LISTINGS", "NO_BUNDLE", "CONFIRMED"}
Outcome == [prospect: Prospect, status: Status, hit: BOOLEAN]

(* ages is history: how old the rows were when the batch swept. *)
NoBatch == [pc |-> "idle", board |-> << >>, leads |-> << >>,
            ages |-> [l \in Lead |-> Window + 1],
            outcomes |-> << >>, recorded |-> << >>, executed |-> << >>, alert |-> "none"]

Init == age = [l \in Lead |-> Window + 1] /\ batch = NoBatch

-----------------------------------------------------------------------------
(* Mutant: a row of one window ago no longer counts. *)
RecentStrictly(ages) == {l \in Lead : Window > 0 /\ ages[l] < Window}

(* Leads with a row inside the window, whatever that row says. *)
Recent(ages) == {l \in Lead : Window > 0 /\ ages[l] <= Window}

(* The entries of s at the positions of I, in order. *)
EntriesAt(s, I) ==
  LET f[n \in 0..Len(s)] ==
        IF n = 0 THEN << >> ELSE IF n \in I THEN Append(f[n - 1], s[n]) ELSE f[n - 1]
  IN f[Len(s)]

(* Mutant: every variant is a lead of its own. *)
VariantsAsLeads(board) == {i \in DOMAIN board : board[i] \in AboveFloor}

(* Where the best-ranked sketch above the floor of each lead stands. *)
Variants(board) ==
  {i \in DOMAIN board :
     /\ board[i] \in AboveFloor
     /\ \A j \in 1..i - 1 : board[j] \in AboveFloor => LeadOf[board[j]] # LeadOf[board[i]]}

(* Mutant: the batch stops after one lead too many. *)
FirstOfPast(s, n) == SubSeq(s, 1, IF Len(s) <= n THEN Len(s) ELSE n + 1)

FirstOf(s, n) == SubSeq(s, 1, IF Len(s) < n THEN Len(s) ELSE n)

(* Mutant: a batch with budget left starts over from the top. *)
SelectLeadsFilled(board, recent) ==
  LET fresh == {i \in Variants(board) : LeadOf[board[i]] \notin recent}
  IN FirstOf(EntriesAt(board, IF Cardinality(fresh) < Top THEN Variants(board) ELSE fresh), Top)

(* select_leads: the best not confirmed recently, or the best. *)
SelectLeads(board, recent) ==
  LET fresh == {i \in Variants(board) : LeadOf[board[i]] \notin recent}
  IN FirstOf(EntriesAt(board, IF fresh = {} THEN Variants(board) ELSE fresh), Top)

Older(ages) == [l \in Lead |-> IF ages[l] > Window THEN ages[l] ELSE ages[l] + 1]

Idle == batch.pc \in {"idle", "done", "raised"}

(* A period passes and the batch sweeps.  The rarity filter applies to the *)
(* leads that were selected. *)
Sweep ==
  /\ Idle
  /\ age' = Older(age)
  /\ \E board \in Boards :
       LET leads == SelectLeads(board, Recent(age'))
       IN batch' = [NoBatch EXCEPT !.pc = "confirm", !.board = board, !.ages = age',
                      !.leads = EntriesAt(leads, {i \in DOMAIN leads : leads[i] \in Allowed})]

(* The catalogue refuses, or the machine is off: a period without a batch. *)
Missed == MayMiss /\ Idle /\ age' = Older(age) /\ batch' = [NoBatch EXCEPT !.pc = "raised"]

Pos == Len(batch.outcomes) + 1
Confirming == batch.pc \in {"confirm", "retry"} /\ Pos <= Len(batch.leads)

(* Only a confirmed lead has a candidate, and only an approved candidate   *)
(* at its entry target is a hit. *)
Confirm ==
  /\ Confirming
  /\ batch.leads[Pos] \notin Poison
  /\ \E o \in Outcome :
       /\ o.prospect = batch.leads[Pos]
       /\ o.hit => o.status = "CONFIRMED"
       /\ batch' = [batch EXCEPT !.pc = "confirm", !.outcomes = Append(@, o)]
  /\ UNCHANGED age

(* A rate limit is slept out once. *)
RateLimited ==
  /\ Confirming /\ batch.pc = "confirm"
  /\ batch.leads[Pos] \notin Poison
  /\ batch' = [batch EXCEPT !.pc = "retry"]
  /\ UNCHANGED age

(* An exception other than a typed refusal: nothing was recorded yet. *)
ConfirmRaises ==
  /\ Confirming
  /\ batch.leads[Pos] \in Poison
  /\ batch' = [batch EXCEPT !.pc = "raised"]
  /\ UNCHANGED age

(* Mutant: a failed confirmation leaves no row. *)
RowsOfAnswered(outcomes) ==
  EntriesAt(outcomes, {i \in DOMAIN outcomes : outcomes[i].status # "FAILED"})

RowsOf(outcomes) == outcomes

(* One transaction records every outcome; the standing orders are judged   *)
(* next, which no later step depends on. *)
Record ==
  /\ batch.pc = "confirm" /\ Pos > Len(batch.leads)
  /\ LET rows == RowsOf(batch.outcomes)
     IN /\ age' = [l \in Lead |->
                     IF \E i \in DOMAIN rows : LeadOf[rows[i].prospect] = l THEN 0 ELSE age[l]]
        /\ batch' = [batch EXCEPT !.pc = "review", !.recorded = rows]

(* The review of the standing orders ends in verdicts or an exception. *)
Review ==
  /\ batch.pc = "review"
  /\ \E pc \in {"execute", "raised"} : batch' = [batch EXCEPT !.pc = pc]
  /\ UNCHANGED age

Hits(outcomes) == EntriesAt(outcomes, {i \in DOMAIN outcomes : outcomes[i].hit})

(* One hit is executed; without adapters every intent is refused. *)
ExecuteHit ==
  /\ batch.pc = "execute"
  /\ Len(batch.executed) < Len(Hits(batch.outcomes))
  /\ \E bought \in (IF Buyer THEN BOOLEAN ELSE {FALSE}) :
       batch' = [batch EXCEPT !.executed = Append(@,
                   [prospect |-> Hits(batch.outcomes)[Len(@) + 1].prospect, bought |-> bought])]
  /\ UNCHANGED age

(* The alert's wording is fixed: live measurement, nothing was bought. *)
Alert ==
  /\ batch.pc = "execute"
  /\ Len(batch.executed) = Len(Hits(batch.outcomes))
  /\ batch' = [batch EXCEPT !.pc = "done",
                 !.alert = IF Hits(batch.outcomes) = << >> THEN "none" ELSE "nothing was bought"]
  /\ UNCHANGED age

Work == Confirm \/ ConfirmRaises \/ Record \/ Review \/ ExecuteHit \/ Alert

Next == Sweep \/ Missed \/ RateLimited \/ Work

(* The scheduler keeps starting batches that the catalogue serves, and a   *)
(* started batch runs. *)
Spec == Init /\ [][Next]_vars /\ WF_vars(Sweep \/ Work)

-----------------------------------------------------------------------------
TypeOK ==
  /\ age \in [Lead -> 0..Window + 1]
  /\ batch \in [pc: {"idle", "confirm", "retry", "review", "execute", "done", "raised"},
                board: Seq(Prospect), leads: Seq(Prospect), ages: [Lead -> 0..Window + 1],
                outcomes: Seq(Outcome), recorded: Seq(Outcome),
                executed: Seq([prospect: Prospect, bought: BOOLEAN]),
                alert: {"none", "nothing was bought"}]
  /\ Len(batch.leads) <= Top /\ Len(batch.outcomes) <= Len(batch.leads)

(* The confirmation budget is spent on distinct leads, each represented by *)
(* its best-ranked sketch above the floor, in rank order.                  *)
LeadsAreDistinct ==
  \E at \in [DOMAIN batch.leads -> DOMAIN batch.board] :
    \A i \in DOMAIN batch.leads :
      /\ batch.board[at[i]] = batch.leads[i] /\ batch.leads[i] \in AboveFloor
      /\ \A k \in 1..at[i] - 1 :
           batch.board[k] \in AboveFloor => LeadOf[batch.board[k]] # LeadOf[batch.leads[i]]
      /\ \A j \in DOMAIN batch.leads :
           j < i => at[j] < at[i] /\ LeadOf[batch.leads[j]] # LeadOf[batch.leads[i]]

(* A lead seen inside the window is confirmed again only by a batch whose  *)
(* whole board was seen inside the window.                                 *)
RotationMovesOn ==
  Window > 0 =>
    \A i \in DOMAIN batch.leads :
      batch.ages[LeadOf[batch.leads[i]]] <= Window =>
        \A k \in DOMAIN batch.board :
          batch.board[k] \in AboveFloor => batch.ages[LeadOf[batch.board[k]]] <= Window

(* The budget of a batch goes to different leads and moves on through the  *)
(* board (confirm_batch.py:308-310).                                       *)
LeadsRotate == LeadsAreDistinct /\ RotationMovesOn

(* Nothing is executed before every outcome of the batch, the failed ones  *)
(* too, is on record, and only recorded hits are executed, in rank order,  *)
(* none of them skipped; a batch that is done executed them all.           *)
ExecutionFollowsRecord ==
  batch.pc \in {"execute", "done"} =>
    /\ [i \in DOMAIN batch.recorded |-> batch.recorded[i].prospect] = batch.leads
    /\ \E at \in [DOMAIN batch.executed -> DOMAIN batch.recorded] :
         /\ \A k \in DOMAIN batch.executed :
              /\ batch.recorded[at[k]].hit /\ batch.recorded[at[k]].status = "CONFIRMED"
              /\ batch.executed[k].prospect = batch.recorded[at[k]].prospect
              /\ \A j \in DOMAIN batch.executed : j < k => at[j] < at[k]
              /\ \A i \in 1..at[k] - 1 : batch.recorded[i].hit => \E j \in 1..k - 1 : at[j] = i
         /\ batch.pc = "done" =>
              \A i \in DOMAIN batch.recorded :
                batch.recorded[i].hit => \E k \in DOMAIN batch.executed : at[k] = i

-----------------------------------------------------------------------------
(* Leads the caller asks for that every board lists above the floor. *)
Standing == {l \in Lead : \A board \in Boards : \E i \in DOMAIN board :
               LeadOf[board[i]] = l /\ board[i] \in AboveFloor \cap Allowed}

Undisturbed == <>[][~(Missed \/ ConfirmRaises)]_vars

(* Once batches are no longer lost, rotation reaches every standing lead   *)
(* again and again, however the board is ranked, provided the leads fit in *)
(* the budget of a window and one batch.                                   *)
RotationReachesAll ==
  Undisturbed /\ Cardinality(Lead) <= Top * (Window + 1)
    => \A l \in Standing : []<>(age[l] = 0)
=============================================================================
