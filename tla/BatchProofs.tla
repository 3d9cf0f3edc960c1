----------------------------- MODULE BatchProofs -----------------------------
(***************************************************************************)
(* run_confirmation_batch for all snapshots, catalogues, policies, boards,  *)
(* budgets and windows.                                                    *)
(*                                                                         *)
(* The confirmation (ConfirmBatch): what it selects are distinct leads in  *)
(* rank order, rotation repeats a lead only when nothing else is left, and *)
(* what it executes are the hits on record.                                *)
(*                                                                         *)
(* The search before it (Discovery): items are identified, haircuts follow *)
(* the record, the sweep misses no contract and overprices none, and no    *)
(* estimate moves without news.  Its invariant, DiscoveryInv, says where   *)
(* the registry comes from, what the history consists of, and that the     *)
(* board is the sweep of the quotes at hand under today's haircuts; the    *)
(* rest is what follows of one sweep.                                      *)
(***************************************************************************)
EXTENDS ConfirmBatch, Discovery, FoldProofs

(* An increasing choice of m of the first n positions has m <= n.           *)
LEMMA IncreasingIsShort ==
  ASSUME NEW m \in Nat, NEW n \in Nat, NEW at \in [1..m -> 1..n],
         \A j, k \in 1..m : j < k => at[j] < at[k]
  PROVE  m <= n
  <1> DEFINE S == {k \in Nat : k \in 1..m => at[k] >= k}
  <1>1. 0 \in S
    OBVIOUS
  <1>2. ASSUME NEW k \in S \cap Nat
        PROVE  k + 1 \in S
    <2> SUFFICES ASSUME k + 1 \in 1..m
                 PROVE  at[k + 1] >= k + 1
      OBVIOUS
    <2>1. at[k + 1] \in 1..n
      OBVIOUS
    <2>2. CASE k = 0
      BY <2>1, <2>2
    <2>3. CASE k \in 1..m
      <3>1. at[k] >= k /\ at[k] \in 1..n /\ at[k] < at[k + 1]
        BY <2>3
      <3>2. QED
        BY <2>1, <3>1
    <2>4. QED
      BY <2>2, <2>3
  <1> HIDE DEF S
  <1>3. \A k \in Nat : k \in S
    BY <1>1, <1>2, Induction
  <1>4. CASE m # 0
    <2>1. m \in 1..m /\ m \in S
      BY <1>3, <1>4
    <2>2. at[m] >= m /\ at[m] \in 1..n
      BY <2>1 DEF S
    <2>3. QED
      BY <2>2
  <1>5. QED
    BY <1>4

(* f is the walk that EntriesAt takes over the first n entries of s.           *)
IsWalk(f, s, I, n) ==
  f = [m \in 0..n |-> IF m = 0 THEN << >>
                      ELSE IF m \in I THEN Append(f[m - 1], s[m]) ELSE f[m - 1]]

LEMMA WalkExists ==
  ASSUME NEW s, NEW I
  PROVE  \A n \in Nat : \E f : IsWalk(f, s, I, n)
  <1> DEFINE S == {n \in Nat : \E f : IsWalk(f, s, I, n)}
  <1>1. 0 \in S
    <2>1. IsWalk([m \in 0..0 |-> << >>], s, I, 0)
      BY DEF IsWalk
    <2>2. QED
      BY <2>1
  <1>2. ASSUME NEW n \in S \cap Nat
        PROVE  n + 1 \in S
    <2>1. PICK f : IsWalk(f, s, I, n)
      OBVIOUS
    <2> DEFINE g == [m \in 0..n + 1 |-> IF m <= n THEN f[m]
                                        ELSE IF m \in I THEN Append(f[m - 1], s[m]) ELSE f[m - 1]]
    <2>2. \A m \in 0..n + 1 : g[m] = IF m = 0 THEN << >>
                                     ELSE IF m \in I THEN Append(g[m - 1], s[m]) ELSE g[m - 1]
      <3>1. \A m \in 0..n : f[m] = IF m = 0 THEN << >>
                                  ELSE IF m \in I THEN Append(f[m - 1], s[m]) ELSE f[m - 1]
        BY <2>1 DEF IsWalk
      <3>2. \A m \in 0..n : g[m] = f[m]
        OBVIOUS
      <3>3. g[n + 1] = IF n + 1 \in I THEN Append(f[n], s[n + 1]) ELSE f[n]
        <4>1. n + 1 \in 0..n + 1 /\ ~(n + 1 <= n) /\ (n + 1) - 1 = n
          OBVIOUS
        <4>2. QED
          BY <4>1
      <3> HIDE DEF g
      <3> SUFFICES ASSUME NEW m \in 0..n + 1
                   PROVE  g[m] = IF m = 0 THEN << >>
                                 ELSE IF m \in I THEN Append(g[m - 1], s[m]) ELSE g[m - 1]
        OBVIOUS
      <3>4. CASE m \in 0..n
        <4>1. m # 0 => m - 1 \in 0..n
          BY <3>4
        <4>2. QED
          BY <3>1, <3>2, <3>4, <4>1
      <3>5. CASE m = n + 1
        <4>1. m # 0 /\ m - 1 = n /\ n \in 0..n
          BY <3>5
        <4>2. g[n] = f[n]
          BY <3>2, <4>1
        <4>3. QED
          BY <3>3, <3>5, <4>1, <4>2
      <3>6. QED
        BY <3>4, <3>5
    <2>3. g = [m \in 0..n + 1 |-> g[m]]
      OBVIOUS
    <2> HIDE DEF g
    <2>4. IsWalk(g, s, I, n + 1)
      BY <2>2, <2>3 DEF IsWalk
    <2>5. QED
      BY <2>4
  <1> HIDE DEF S
  <1>3. \A n \in Nat : n \in S
    BY <1>1, <1>2, Induction
  <1>4. QED
    BY <1>3 DEF S

(* at tells where the entries of q stand in s: in order, at positions of I  *)
(* up to n, none of which is missing.                                       *)
Places(at, q, s, I, n) ==
  /\ at \in [1..Len(q) -> 1..n]
  /\ \A k \in 1..Len(q) : at[k] \in I /\ q[k] = s[at[k]]
  /\ \A j, k \in 1..Len(q) : j < k => at[j] < at[k]
  /\ \A i \in 1..n : i \in I => \E k \in 1..Len(q) : at[k] = i

LEMMA WalkPlaces ==
  ASSUME NEW X, NEW s \in Seq(X), NEW I, NEW f, IsWalk(f, s, I, Len(s))
  PROVE  \A n \in 0..Len(s) : f[n] \in Seq(X) /\ \E at : Places(at, f[n], s, I, n)
  <1> DEFINE S == {n \in Nat : n <= Len(s) =>
                     f[n] \in Seq(X) /\ \E at : Places(at, f[n], s, I, n)}
  <1>0. Len(s) \in Nat
    OBVIOUS
  <1>1. 0 \in S
    <2>1. f[0] = << >>
      BY <1>0 DEF IsWalk
    <2>2. Places([k \in 1..0 |-> 0], << >>, s, I, 0)
      BY DEF Places
    <2>3. f[0] \in Seq(X) /\ \E at : Places(at, f[0], s, I, 0)
      BY <2>1, <2>2
    <2>4. QED
      BY <2>3
  <1>2. ASSUME NEW n \in S \cap Nat
        PROVE  n + 1 \in S
    <2> SUFFICES ASSUME n + 1 <= Len(s)
                 PROVE  f[n + 1] \in Seq(X) /\ \E at : Places(at, f[n + 1], s, I, n + 1)
      OBVIOUS
    <2>1. f[n] \in Seq(X) /\ \E at : Places(at, f[n], s, I, n)
      BY <1>0
    <2>2. PICK at : Places(at, f[n], s, I, n)
      BY <2>1
    <2>3. f[n + 1] = IF n + 1 \in I THEN Append(f[n], s[n + 1]) ELSE f[n]
      <3>1. n + 1 \in 0..Len(s) /\ n + 1 # 0 /\ (n + 1) - 1 = n
        BY <1>0
      <3>2. QED
        BY <3>1 DEF IsWalk
    <2>4. s[n + 1] \in X
      BY <1>0
    <2>5. CASE n + 1 \notin I
      <3>1. Places(at, f[n], s, I, n + 1)
        BY <2>1, <2>2, <2>5 DEF Places
      <3>2. QED
        BY <2>1, <2>3, <2>5, <3>1
    <2>6. CASE n + 1 \in I
      <3> DEFINE q == Append(f[n], s[n + 1])
                 p == [k \in 1..Len(f[n]) + 1 |-> IF k <= Len(f[n]) THEN at[k] ELSE n + 1]
      <3>1. /\ Len(f[n]) \in Nat /\ q \in Seq(X) /\ Len(q) = Len(f[n]) + 1
            /\ \A k \in 1..Len(f[n]) : q[k] = f[n][k]
            /\ q[Len(f[n]) + 1] = s[n + 1]
        BY <2>1, <2>4
      <3> HIDE DEF q
      <3>2. p \in [1..Len(q) -> 1..n + 1]
        BY <2>2, <3>1 DEF Places
      <3>3. \A k \in 1..Len(q) : p[k] \in I /\ q[k] = s[p[k]]
        BY <2>2, <2>6, <3>1 DEF Places
      <3>4. \A j, k \in 1..Len(q) : j < k => p[j] < p[k]
        <4> SUFFICES ASSUME NEW j \in 1..Len(q), NEW k \in 1..Len(q), j < k
                     PROVE  p[j] < p[k]
          OBVIOUS
        <4>1. j \in 1..Len(f[n]) /\ p[j] = at[j] /\ at[j] \in 1..n
          <5>1. j \in 1..Len(f[n])
            BY <3>1
          <5>2. p[j] = at[j]
            BY <3>1, <5>1
          <5>3. at[j] \in 1..n
            BY <2>2, <5>1 DEF Places
          <5>4. QED
            BY <5>1, <5>2, <5>3
        <4>2. CASE k \in 1..Len(f[n])
          <5>1. p[k] = at[k]
            BY <3>1, <4>2
          <5>2. QED
            BY <2>2, <4>1, <4>2, <5>1 DEF Places
        <4>3. CASE k = Len(f[n]) + 1
          <5>1. p[k] = n + 1
            BY <3>1, <4>3
          <5>2. QED
            BY <4>1, <5>1
        <4>4. QED
          BY <3>1, <4>2, <4>3
      <3>5. ASSUME NEW i \in 1..n + 1, i \in I
            PROVE  \E k \in 1..Len(q) : p[k] = i
        <4>1. CASE i = n + 1
          BY <3>1, <4>1
        <4>2. CASE i \in 1..n
          <5>1. PICK k \in 1..Len(f[n]) : at[k] = i
            BY <2>2, <3>5, <4>2 DEF Places
          <5>2. k \in 1..Len(q) /\ p[k] = i
            BY <3>1, <5>1
          <5>3. QED
            BY <5>2
        <4>3. QED
          BY <4>1, <4>2
      <3> HIDE DEF p
      <3>6. Places(p, q, s, I, n + 1)
        BY <3>2, <3>3, <3>4, <3>5 DEF Places
      <3>7. QED
        BY <2>3, <2>6, <3>1, <3>6 DEF q
    <2>7. QED
      BY <2>5, <2>6
  <1> HIDE DEF S
  <1>3. \A n \in Nat : n \in S
    BY <1>1, <1>2, Induction
  <1>4. QED
    BY <1>0, <1>3 DEF S

(* What EntriesAt returns: the entries of s at the positions of I, in order,   *)
(* all of them and nothing else.                                            *)
LEMMA EntriesPlaces ==
  ASSUME NEW X, NEW s \in Seq(X), NEW I
  PROVE  EntriesAt(s, I) \in Seq(X) /\ \E at : Places(at, EntriesAt(s, I), s, I, Len(s))
  <1> DEFINE W(h) == h = [m \in 0..Len(s) |-> IF m = 0 THEN << >>
                            ELSE IF m \in I THEN Append(h[m - 1], s[m]) ELSE h[m - 1]]
             f == CHOOSE h : W(h)
  <1>1. EntriesAt(s, I) = f[Len(s)]
    BY DEF EntriesAt
  <1>2. Len(s) \in Nat
    OBVIOUS
  <1>3. \E h : W(h)
    <2>1. PICK h : IsWalk(h, s, I, Len(s))
      BY <1>2, WalkExists
    <2>2. W(h)
      BY <2>1 DEF IsWalk
    <2> HIDE DEF W
    <2>3. QED
      BY <2>2
  <1> HIDE DEF W
  <1>4. W(f)
    BY <1>3
  <1> HIDE DEF f
  <1>5. IsWalk(f, s, I, Len(s))
    BY <1>4 DEF W, IsWalk
  <1>6. QED
    BY <1>1, <1>2, <1>5, WalkPlaces

(* What FirstOf returns: as many entries of q as there are, up to n.        *)
LEMMA FirstEntries ==
  ASSUME NEW X, NEW q \in Seq(X), NEW n \in Nat
  PROVE  /\ FirstOf(q, n) \in Seq(X) /\ Len(FirstOf(q, n)) <= n /\ Len(FirstOf(q, n)) <= Len(q)
         /\ Len(FirstOf(q, n)) \in Nat
         /\ \A k \in 1..Len(FirstOf(q, n)) : FirstOf(q, n)[k] = q[k]
  BY DEF FirstOf

-----------------------------------------------------------------------------
(* What LeadsAreDistinct says of leads chosen from a board.                 *)
Ranked(leads, ranking) ==
  \E at \in [DOMAIN leads -> DOMAIN ranking] :
    \A i \in DOMAIN leads :
      /\ ranking[at[i]] = leads[i] /\ leads[i] \in AboveFloor
      /\ \A k \in 1..at[i] - 1 : ranking[k] \in AboveFloor => LeadOf[ranking[k]] # LeadOf[leads[i]]
      /\ \A j \in DOMAIN leads : j < i => at[j] < at[i] /\ LeadOf[leads[j]] # LeadOf[leads[i]]

(* What RotationMovesOn says of them.                                       *)
MovesOn(leads, ranking, ages) ==
  Window > 0 =>
    \A i \in DOMAIN leads :
      ages[LeadOf[leads[i]]] <= Window =>
        \A k \in DOMAIN ranking : ranking[k] \in AboveFloor => ages[LeadOf[ranking[k]]] <= Window

(* The entries of leads are drawn from q, in order.                         *)
Drawn(to, leads, q) ==
  /\ to \in [1..Len(leads) -> 1..Len(q)]
  /\ \A k \in 1..Len(leads) : leads[k] = q[to[k]]
  /\ \A j, k \in 1..Len(leads) : j < k => to[j] < to[k]

(* Leads drawn from the variants of a board are ranked on it.               *)
LEMMA EntriesAreRanked ==
  ASSUME NEW ranking \in Seq(Prospect), NEW I, I \subseteq Variants(ranking),
         NEW q, NEW at, Places(at, q, ranking, I, Len(ranking)), Len(q) \in Nat,
         NEW leads \in Seq(Prospect), NEW to, Drawn(to, leads, q)
  PROVE  /\ Ranked(leads, ranking)
         /\ \A k \in DOMAIN leads : \E i \in I : i \in DOMAIN ranking /\ ranking[i] = leads[k]
  <1> DEFINE p == [k \in 1..Len(leads) |-> at[to[k]]]
  <1>1. DOMAIN leads = 1..Len(leads) /\ DOMAIN ranking = 1..Len(ranking) /\ Len(leads) \in Nat /\ Len(ranking) \in Nat
    OBVIOUS
  <1>2. \A k \in 1..Len(leads) : /\ p[k] \in 1..Len(ranking) /\ p[k] \in I /\ ranking[p[k]] = leads[k]
    BY DEF Places, Drawn
  <1>3. \A j, k \in 1..Len(leads) : j < k => p[j] < p[k]
    BY DEF Places, Drawn
  <1>4. p \in [DOMAIN leads -> DOMAIN ranking]
    BY <1>1, <1>2
  <1> HIDE DEF p
  <1>5. ASSUME NEW k \in 1..Len(leads)
        PROVE  /\ leads[k] \in AboveFloor
               /\ \A i \in 1..p[k] - 1 : ranking[i] \in AboveFloor => LeadOf[ranking[i]] # LeadOf[leads[k]]
    BY <1>2 DEF Variants
  <1>6. ASSUME NEW j \in 1..Len(leads), NEW k \in 1..Len(leads), j < k
        PROVE  LeadOf[leads[j]] # LeadOf[leads[k]]
    <2>1. p[j] \in 1..p[k] - 1 /\ ranking[p[j]] = leads[j] /\ leads[j] \in AboveFloor
      BY <1>1, <1>2, <1>3, <1>5, <1>6
    <2>2. QED
      BY <1>5, <2>1
  <1>7. Ranked(leads, ranking)
    <2>1. ASSUME NEW i \in DOMAIN leads
          PROVE  /\ ranking[p[i]] = leads[i] /\ leads[i] \in AboveFloor
                 /\ \A k \in 1..p[i] - 1 :
                      ranking[k] \in AboveFloor => LeadOf[ranking[k]] # LeadOf[leads[i]]
                 /\ \A j \in DOMAIN leads :
                      j < i => p[j] < p[i] /\ LeadOf[leads[j]] # LeadOf[leads[i]]
      BY <1>1, <1>2, <1>3, <1>5, <1>6
    <2>2. QED
      BY <1>4, <2>1 DEF Ranked
  <1>8. QED
    BY <1>1, <1>2, <1>7

(* Every lead on the board above the floor has a variant standing for it.   *)
LEMMA FirstVariant ==
  ASSUME NEW ranking \in Seq(Prospect), NEW n \in DOMAIN ranking, ranking[n] \in AboveFloor
  PROVE  \E m \in Variants(ranking) : LeadOf[ranking[m]] = LeadOf[ranking[n]]
  <1> DEFINE T == {i \in DOMAIN ranking : ranking[i] \in AboveFloor /\ LeadOf[ranking[i]] = LeadOf[ranking[n]]}
  <1>1. DOMAIN ranking = 1..Len(ranking) /\ Len(ranking) \in Nat
    OBVIOUS
  <1>2. T \subseteq Nat /\ T # {}
    BY <1>1
  <1>3. PICK m \in T : \A k \in T : m <= k
    <2> HIDE DEF T
    <2>1. QED
      BY <1>2, Least
  <1>4. m \in 1..Len(ranking)
    BY <1>1
  <1>5. ASSUME NEW j \in 1..m - 1, ranking[j] \in AboveFloor
        PROVE  LeadOf[ranking[j]] # LeadOf[ranking[m]]
    <2>1. j \in DOMAIN ranking /\ ~(m <= j)
      BY <1>1, <1>4
    <2>2. QED
      BY <1>3, <1>5, <2>1
  <1>6. m \in Variants(ranking)
    BY <1>1, <1>5 DEF Variants
  <1>7. QED
    BY <1>6

(* select_leads and the rarity filter after it, for every board and record. *)
LEMMA SelectionRanked ==
  ASSUME NEW ranking \in Seq(Prospect), NEW ages \in [Lead -> Nat], NEW chosen, NEW leads,
         chosen = SelectLeads(ranking, Recent(ages)),
         leads = EntriesAt(chosen, {i \in DOMAIN chosen : chosen[i] \in Allowed})
  PROVE  /\ leads \in Seq(Prospect) /\ Len(leads) <= Top
         /\ Ranked(leads, ranking)
         /\ MovesOn(leads, ranking, ages)
  <1> DEFINE fresh == {i \in Variants(ranking) : LeadOf[ranking[i]] \notin Recent(ages)}
             I == IF fresh = {} THEN Variants(ranking) ELSE fresh
             q == EntriesAt(ranking, I)
             J == {i \in DOMAIN chosen : chosen[i] \in Allowed}
  <1>0. Top \in Nat /\ Window \in Nat
    BY BatchAssumption
  <1>1. chosen = FirstOf(q, Top)
    BY DEF SelectLeads
  <1>2. I \subseteq Variants(ranking)
    OBVIOUS
  <1>3. q \in Seq(Prospect) /\ \E at : Places(at, q, ranking, I, Len(ranking))
    BY EntriesPlaces
  <1>4. PICK at : Places(at, q, ranking, I, Len(ranking))
    BY <1>3
  <1> HIDE DEF q, I, J
  <1>5. /\ chosen \in Seq(Prospect) /\ Len(chosen) <= Top /\ Len(chosen) <= Len(q) /\ Len(chosen) \in Nat
        /\ \A k \in 1..Len(chosen) : chosen[k] = q[k]
    BY <1>0, <1>1, <1>3, FirstEntries
  <1>6. leads \in Seq(Prospect) /\ \E to : Places(to, leads, chosen, J, Len(chosen))
    <2>1. leads = EntriesAt(chosen, J)
      BY DEF J
    <2>2. QED
      BY <1>5, <2>1, EntriesPlaces
  <1>7. PICK to : Places(to, leads, chosen, J, Len(chosen))
    BY <1>6
  <1>8. Len(leads) \in Nat /\ Len(q) \in Nat
    BY <1>3, <1>6
  <1>9. Drawn(to, leads, q)
    <2>1. /\ to \in [1..Len(leads) -> 1..Len(chosen)]
          /\ \A k \in 1..Len(leads) : leads[k] = chosen[to[k]]
          /\ \A j, k \in 1..Len(leads) : j < k => to[j] < to[k]
      BY <1>7 DEF Places
    <2>2. \A k \in 1..Len(chosen) : k \in 1..Len(q)
      BY <1>5, <1>8
    <2>3. \A k \in 1..Len(leads) : to[k] \in 1..Len(chosen)
      BY <2>1
    <2>4. \A k \in 1..Len(leads) : leads[k] = q[to[k]]
      BY <1>5, <2>1, <2>3
    <2>5. to \in [1..Len(leads) -> 1..Len(q)]
      BY <2>1, <2>2, <2>3
    <2>6. QED
      BY <2>1, <2>4, <2>5 DEF Drawn
  <1>10. Len(leads) <= Top
    <2>1. /\ to \in [1..Len(leads) -> 1..Len(chosen)]
          /\ \A j, k \in 1..Len(leads) : j < k => to[j] < to[k]
      BY <1>7 DEF Places
    <2>2. Len(leads) <= Len(chosen)
      BY <1>5, <1>8, <2>1, IncreasingIsShort
    <2>3. QED
      BY <1>0, <1>5, <1>8, <2>2
  <1>11. /\ Ranked(leads, ranking)
         /\ \A k \in DOMAIN leads : \E i \in I : i \in DOMAIN ranking /\ ranking[i] = leads[k]
    <2>1. leads \in Seq(Prospect)
      BY <1>6
    <2>2. QED
      BY ONLY <1>2, <1>4, <1>8, <1>9, <2>1, ranking \in Seq(Prospect), EntriesAreRanked
  <1>12. MovesOn(leads, ranking, ages)
    <2> SUFFICES ASSUME Window > 0, NEW k \in DOMAIN leads, ages[LeadOf[leads[k]]] <= Window,
                        NEW n \in DOMAIN ranking, ranking[n] \in AboveFloor
                 PROVE  ages[LeadOf[ranking[n]]] <= Window
      BY DEF MovesOn
    <2>1. PICK i \in I : i \in DOMAIN ranking /\ ranking[i] = leads[k]
      BY <1>11
    <2>2. LeadOf[ranking[i]] \in Recent(ages)
      <3>1. leads[k] \in Prospect
        BY <1>6
      <3>2. LeadOf[leads[k]] \in Lead
        BY <3>1 DEF Lead
      <3>3. QED
        BY <2>1, <3>2 DEF Recent
    <2>3. i \in Variants(ranking) /\ fresh = {}
      BY <1>2, <2>1, <2>2 DEF I
    <2>4. PICK m \in Variants(ranking) : LeadOf[ranking[m]] = LeadOf[ranking[n]]
      BY FirstVariant
    <2>5. LeadOf[ranking[m]] \in Recent(ages)
      BY <2>3
    <2>6. QED
      BY <2>4, <2>5 DEF Recent
  <1>13. QED
    BY <1>6, <1>10, <1>11, <1>12

-----------------------------------------------------------------------------
(* The outcomes of a batch are those of its leads, in order.                *)
OutcomesFollow ==
  \A i \in DOMAIN batch.outcomes :
    /\ batch.outcomes[i].prospect = batch.leads[i]
    /\ batch.outcomes[i].hit => batch.outcomes[i].status = "CONFIRMED"

(* Past its transaction a batch has every outcome on record.                *)
RecordIsComplete ==
  batch.pc \in {"review", "execute", "done"} =>
    batch.recorded = batch.outcomes /\ Len(batch.outcomes) = Len(batch.leads)

(* What was executed is a prefix of the hits, all of them at the end.       *)
ExecutedAreHits ==
  /\ batch.pc \notin {"execute", "done"} => batch.executed = << >>
  /\ Len(batch.executed) <= Len(Hits(batch.outcomes))
  /\ \A k \in DOMAIN batch.executed :
       batch.executed[k].prospect = Hits(batch.outcomes)[k].prospect
  /\ batch.pc = "done" => Len(batch.executed) = Len(Hits(batch.outcomes))

BatchInv == TypeOK /\ LeadsRotate /\ OutcomesFollow /\ RecordIsComplete /\ ExecutedAreHits

(* The fields of the batch, one by one.                                     *)
Fields ==
  /\ batch.pc \in {"idle", "confirm", "retry", "review", "execute", "done", "raised"}
  /\ batch.board \in Seq(Prospect) /\ batch.leads \in Seq(Prospect)
  /\ batch.ages \in [Lead -> 0..Window + 1]
  /\ batch.outcomes \in Seq(Outcome) /\ batch.recorded \in Seq(Outcome)
  /\ batch.executed \in Seq([prospect: Prospect, bought: BOOLEAN])
  /\ batch.alert \in {"none", "nothing was bought"}
  /\ DOMAIN batch = {"pc", "board", "leads", "ages", "outcomes", "recorded", "executed", "alert"}

LEMMA TypeFields ==
  ASSUME TypeOK
  PROVE  Fields /\ age \in [Lead -> 0..Window + 1]
         /\ Len(batch.leads) <= Top /\ Len(batch.outcomes) <= Len(batch.leads)
  BY DEF TypeOK, Fields

(* The leads, their board and their ages stand until the next sweep.        *)
LEMMA RotationStands ==
  ASSUME LeadsRotate, batch'.board = batch.board, batch'.leads = batch.leads,
         batch'.ages = batch.ages
  PROVE  LeadsRotate'
  <1>1. Ranked(batch'.leads, batch'.board) /\ MovesOn(batch'.leads, batch'.board, batch'.ages)
    BY DEF LeadsRotate, LeadsAreDistinct, RotationMovesOn, Ranked, MovesOn
  <1>2. LeadsAreDistinct' /\ RotationMovesOn'
    BY <1>1 DEF LeadsAreDistinct, RotationMovesOn, Ranked, MovesOn
  <1>3. QED
    BY <1>2 DEF LeadsRotate

(* A period without leads rotates trivially.                                *)
LEMMA NoLeadsRotate ==
  ASSUME batch.leads = << >>
  PROVE  LeadsRotate
  <1>1. [i \in {} |-> 0] \in [DOMAIN batch.leads -> DOMAIN batch.board]
    OBVIOUS
  <1>2. QED
    BY <1>1 DEF LeadsRotate, LeadsAreDistinct, RotationMovesOn

LEMMA HitsPlaces ==
  ASSUME NEW outcomes \in Seq(Outcome)
  PROVE  /\ Hits(outcomes) \in Seq(Outcome) /\ Len(Hits(outcomes)) \in Nat
         /\ \E at : Places(at, Hits(outcomes), outcomes,
                           {i \in DOMAIN outcomes : outcomes[i].hit}, Len(outcomes))
  <1>1. /\ Hits(outcomes) \in Seq(Outcome)
        /\ \E at : Places(at, Hits(outcomes), outcomes,
                          {i \in DOMAIN outcomes : outcomes[i].hit}, Len(outcomes))
    BY EntriesPlaces DEF Hits
  <1>2. Len(Hits(outcomes)) \in Nat
    <2>1. Hits(outcomes) \in Seq(Outcome)
      BY <1>1
    <2>2. QED
      BY <2>1
  <1>3. QED
    BY <1>1, <1>2, Zenon

LEMMA OlderType ==
  ASSUME NEW ages \in [Lead -> 0..Window + 1]
  PROVE  Older(ages) \in [Lead -> 0..Window + 1]
  BY BatchAssumption DEF Older

LEMMA BatchInit ==
  ASSUME Init
  PROVE  BatchInv
  <1>1. /\ batch.pc = "idle" /\ batch.leads = << >> /\ batch.outcomes = << >>
        /\ batch.executed = << >>
    BY DEF Init, NoBatch
  <1>2. Window \in Nat /\ Top \in Nat /\ Window + 1 \in 0..Window + 1
    BY BatchAssumption
  <1>3. TypeOK
    BY <1>2 DEF Init, NoBatch, TypeOK
  <1>4. LeadsRotate
    BY <1>1, NoLeadsRotate
  <1>5. Len(Hits(<< >>)) \in Nat
    BY HitsPlaces
  <1>6. OutcomesFollow /\ RecordIsComplete /\ ExecutedAreHits
    BY <1>1, <1>5 DEF OutcomesFollow, RecordIsComplete, ExecutedAreHits
  <1>7. QED
    BY <1>3, <1>4, <1>6 DEF BatchInv

(* An idle batch that the next period starts, with or without leads.        *)
LEMMA FreshInv ==
  ASSUME NEW pc \in {"confirm", "raised"}, NEW ranking \in Seq(Prospect),
         NEW leads \in Seq(Prospect), NEW ages \in [Lead -> 0..Window + 1],
         Len(leads) <= Top, Ranked(leads, ranking), MovesOn(leads, ranking, ages),
         age' \in [Lead -> 0..Window + 1],
         batch' = [pc |-> pc, board |-> ranking, leads |-> leads, ages |-> ages, outcomes |-> << >>,
                   recorded |-> << >>, executed |-> << >>, alert |-> "none"]
  PROVE  BatchInv'
  <1>1. /\ batch'.pc = pc /\ batch'.board = ranking /\ batch'.ages = ages /\ batch'.leads = leads
        /\ batch'.outcomes = << >> /\ batch'.recorded = << >> /\ batch'.executed = << >>
    OBVIOUS
  <1>3. TypeOK'
    <2>1. Len(leads) \in Nat /\ Len(<< >>) = 0
      OBVIOUS
    <2>2. << >> \in Seq(Outcome) /\ << >> \in Seq([prospect: Prospect, bought: BOOLEAN])
      OBVIOUS
    <2>3. pc \in {"idle", "confirm", "retry", "review", "execute", "done", "raised"}
      OBVIOUS
    <2>4. QED
      BY <2>1, <2>2, <2>3 DEF TypeOK
  <1>4. LeadsRotate'
    <2>1. Ranked(batch'.leads, batch'.board) /\ MovesOn(batch'.leads, batch'.board, batch'.ages)
      BY <1>1
    <2>2. LeadsAreDistinct' /\ RotationMovesOn'
      BY <2>1 DEF LeadsAreDistinct, RotationMovesOn, Ranked, MovesOn
    <2>3. QED
      BY <2>2 DEF LeadsRotate
  <1>5. Len(Hits(<< >>)) \in Nat
    BY HitsPlaces
  <1>6. OutcomesFollow' /\ RecordIsComplete' /\ ExecutedAreHits'
    BY <1>1, <1>5 DEF OutcomesFollow, RecordIsComplete, ExecutedAreHits
  <1>7. QED
    BY <1>3, <1>4, <1>6 DEF BatchInv

LEMMA SweepInv ==
  ASSUME BatchInv, Sweep
  PROVE  BatchInv'
  <1>1. PICK ages \in [Lead -> 0..Window + 1] : age' = ages
    BY OlderType, TypeFields DEF Sweep, BatchInv
  <1>2. PICK ranking \in Boards :
          batch' = [NoBatch EXCEPT !.pc = "confirm", !.board = ranking, !.ages = ages,
                     !.leads = EntriesAt(SelectLeads(ranking, Recent(ages)),
                                 {i \in DOMAIN SelectLeads(ranking, Recent(ages)) :
                                    SelectLeads(ranking, Recent(ages))[i] \in Allowed})]
    BY <1>1 DEF Sweep
  <1> DEFINE chosen == SelectLeads(ranking, Recent(ages))
             leads == EntriesAt(chosen, {i \in DOMAIN chosen : chosen[i] \in Allowed})
  <1>3. batch' = [pc |-> "confirm", board |-> ranking, leads |-> leads, ages |-> ages,
                  outcomes |-> << >>, recorded |-> << >>, executed |-> << >>, alert |-> "none"]
    BY <1>2 DEF NoBatch
  <1>4. ranking \in Seq(Prospect) /\ ages \in [Lead -> Nat]
    BY BatchAssumption
  <1>5. /\ leads \in Seq(Prospect) /\ Len(leads) <= Top
        /\ Ranked(leads, ranking) /\ MovesOn(leads, ranking, ages)
    BY <1>4, SelectionRanked
  <1> HIDE DEF leads, chosen
  <1>6. QED
    BY <1>1, <1>3, <1>4, <1>5, FreshInv

LEMMA MissedInv ==
  ASSUME BatchInv, Missed
  PROVE  BatchInv'
  <1> DEFINE ages == [l \in Lead |-> Window + 1]
  <1>1. age' \in [Lead -> 0..Window + 1] /\ ages \in [Lead -> 0..Window + 1]
    BY OlderType, TypeFields, BatchAssumption DEF Missed, BatchInv
  <1>2. batch' = [pc |-> "raised", board |-> << >>, leads |-> << >>, ages |-> ages,
                  outcomes |-> << >>, recorded |-> << >>, executed |-> << >>, alert |-> "none"]
    BY DEF Missed, NoBatch
  <1>3. Ranked(<< >>, << >>) /\ MovesOn(<< >>, << >>, ages)
    <2>1. [i \in {} |-> 0] \in [DOMAIN << >> -> DOMAIN << >>]
      OBVIOUS
    <2>2. QED
      BY <2>1 DEF Ranked, MovesOn
  <1>4. Len(<< >>) <= Top /\ << >> \in Seq(Prospect)
    BY BatchAssumption
  <1> HIDE DEF ages
  <1>5. QED
    BY <1>1, <1>2, <1>3, <1>4, FreshInv

(* Another outcome joins those of the leads before it. *)
LEMMA ConfirmInv ==
  ASSUME BatchInv, Confirm
  PROVE  BatchInv'
  <1>1. /\ Fields /\ age \in [Lead -> 0..Window + 1]
        /\ Len(batch.leads) <= Top /\ Len(batch.outcomes) <= Len(batch.leads)
    BY TypeFields DEF BatchInv
  <1>2. PICK o \in Outcome :
          /\ o.prospect = batch.leads[Pos]
          /\ o.hit => o.status = "CONFIRMED"
          /\ batch' = [batch EXCEPT !.pc = "confirm", !.outcomes = Append(batch.outcomes, o)]
    BY DEF Confirm
  <1>3. /\ age' = age /\ batch.pc \in {"confirm", "retry"} /\ Pos <= Len(batch.leads)
    BY DEF Confirm, Confirming
  <1>4. /\ batch'.pc = "confirm" /\ batch'.outcomes = Append(batch.outcomes, o)
        /\ batch'.board = batch.board /\ batch'.leads = batch.leads /\ batch'.ages = batch.ages
        /\ batch'.recorded = batch.recorded /\ batch'.executed = batch.executed
        /\ batch'.alert = batch.alert
    BY <1>1, <1>2 DEF Fields
  <1>5. /\ batch.outcomes \in Seq(Outcome) /\ Len(batch.outcomes) \in Nat
        /\ Len(batch.leads) \in Nat /\ Pos = Len(batch.outcomes) + 1
    <2>1. batch.outcomes \in Seq(Outcome) /\ batch.leads \in Seq(Prospect)
      BY <1>1 DEF Fields
    <2>2. QED
      BY <2>1 DEF Pos
  <1>6. /\ batch'.outcomes \in Seq(Outcome) /\ Len(batch'.outcomes) = Pos
        /\ DOMAIN batch'.outcomes = 1..Pos /\ batch'.outcomes[Pos] = o
        /\ \A i \in 1..Len(batch.outcomes) : batch'.outcomes[i] = batch.outcomes[i]
    BY <1>4, <1>5
  <1>7. TypeOK'
    <2>1. Len(batch'.leads) <= Top /\ Len(batch'.outcomes) <= Len(batch'.leads)
      BY <1>1, <1>3, <1>4, <1>6
    <2>2. batch' \in [pc: {"idle", "confirm", "retry", "review", "execute", "done", "raised"},
                      board: Seq(Prospect), leads: Seq(Prospect), ages: [Lead -> 0..Window + 1],
                      outcomes: Seq(Outcome), recorded: Seq(Outcome),
                      executed: Seq([prospect: Prospect, bought: BOOLEAN]),
                      alert: {"none", "nothing was bought"}]
      BY <1>2, <1>4, <1>6 DEF BatchInv, TypeOK
    <2>3. QED
      BY <1>1, <1>3, <2>1, <2>2 DEF TypeOK
  <1>8. LeadsRotate'
    BY <1>4, RotationStands DEF BatchInv
  <1>9. OutcomesFollow'
    <2> SUFFICES ASSUME NEW i \in 1..Pos
                 PROVE  /\ batch'.outcomes[i].prospect = batch.leads[i]
                        /\ batch'.outcomes[i].hit => batch'.outcomes[i].status = "CONFIRMED"
      BY <1>4, <1>6 DEF OutcomesFollow
    <2>1. CASE i = Pos
      BY <1>2, <1>6, <2>1
    <2>2. CASE i \in 1..Len(batch.outcomes)
      <3>1. DOMAIN batch.outcomes = 1..Len(batch.outcomes)
        BY <1>5
      <3>2. QED
        BY <1>6, <2>2, <3>1 DEF BatchInv, OutcomesFollow
    <2>3. QED
      BY <1>5, <2>1, <2>2
  <1>10. RecordIsComplete'
    BY <1>4 DEF RecordIsComplete
  <1>11. ExecutedAreHits'
    <2>1. batch'.executed = << >>
      BY <1>3, <1>4 DEF BatchInv, ExecutedAreHits
    <2>2. Len(Hits(batch'.outcomes)) \in Nat
      BY <1>6, HitsPlaces
    <2>3. QED
      BY <1>4, <2>1, <2>2 DEF ExecutedAreHits
  <1>12. QED
    BY <1>7, <1>8, <1>9, <1>10, <1>11 DEF BatchInv

(* A step that leaves leads and outcomes alone keeps what is said of them.  *)
LEMMA OutcomesStand ==
  ASSUME BatchInv, batch'.outcomes = batch.outcomes, batch'.leads = batch.leads,
         batch'.board = batch.board, batch'.ages = batch.ages
  PROVE  OutcomesFollow' /\ LeadsRotate' /\ Hits(batch'.outcomes) = Hits(batch.outcomes)
  <1>1. LeadsRotate'
    BY RotationStands DEF BatchInv
  <1>2. OutcomesFollow'
    BY DEF BatchInv, OutcomesFollow
  <1>3. QED
    BY <1>1, <1>2

(* Waiting out a rate limit, giving up, and the review move the pc alone. *)
LEMMA TurnInv ==
  ASSUME BatchInv, RateLimited \/ ConfirmRaises \/ Review
  PROVE  BatchInv'
  <1>1. /\ Fields /\ age \in [Lead -> 0..Window + 1]
        /\ Len(batch.leads) <= Top /\ Len(batch.outcomes) <= Len(batch.leads)
    BY TypeFields DEF BatchInv
  <1>2. PICK pc \in {"retry", "raised", "execute"} :
          /\ batch' = [batch EXCEPT !.pc = pc]
          /\ pc = "execute" => batch.pc = "review"
    BY DEF RateLimited, ConfirmRaises, Review
  <1>3. age' = age /\ batch.pc \in {"confirm", "retry", "review"}
    BY DEF RateLimited, ConfirmRaises, Review, Confirming
  <1>4. /\ batch'.pc = pc /\ batch'.outcomes = batch.outcomes
        /\ batch'.board = batch.board /\ batch'.leads = batch.leads /\ batch'.ages = batch.ages
        /\ batch'.recorded = batch.recorded /\ batch'.executed = batch.executed
        /\ batch'.alert = batch.alert
    BY <1>1, <1>2 DEF Fields
  <1>5. TypeOK'
    <2>1. batch' \in [pc: {"idle", "confirm", "retry", "review", "execute", "done", "raised"},
                      board: Seq(Prospect), leads: Seq(Prospect), ages: [Lead -> 0..Window + 1],
                      outcomes: Seq(Outcome), recorded: Seq(Outcome),
                      executed: Seq([prospect: Prospect, bought: BOOLEAN]),
                      alert: {"none", "nothing was bought"}]
      BY <1>2 DEF BatchInv, TypeOK
    <2>2. QED
      BY <1>1, <1>3, <1>4, <2>1 DEF TypeOK
  <1>6. OutcomesFollow' /\ LeadsRotate' /\ Hits(batch'.outcomes) = Hits(batch.outcomes)
    BY <1>4, OutcomesStand
  <1>7. RecordIsComplete'
    BY <1>2, <1>4 DEF BatchInv, RecordIsComplete
  <1>8. ExecutedAreHits'
    <2>1. batch'.executed = << >>
      BY <1>3, <1>4 DEF BatchInv, ExecutedAreHits
    <2>2. Len(Hits(batch'.outcomes)) \in Nat
      BY <1>1, <1>6, HitsPlaces DEF Fields
    <2>3. QED
      BY <1>4, <2>1, <2>2 DEF ExecutedAreHits
  <1>9. QED
    BY <1>5, <1>6, <1>7, <1>8 DEF BatchInv

(* Every outcome goes on record, and the leads in it start a new age. *)
LEMMA RecordInv ==
  ASSUME BatchInv, Record
  PROVE  BatchInv'
  <1>1. /\ Fields /\ age \in [Lead -> 0..Window + 1]
        /\ Len(batch.leads) <= Top /\ Len(batch.outcomes) <= Len(batch.leads)
    BY TypeFields DEF BatchInv
  <1>2. /\ batch' = [batch EXCEPT !.pc = "review", !.recorded = batch.outcomes]
        /\ batch.pc = "confirm" /\ Len(batch.outcomes) + 1 > Len(batch.leads)
    BY DEF Record, RowsOf, Pos
  <1>3. age' \in [Lead -> 0..Window + 1]
    BY <1>1, BatchAssumption DEF Record, RowsOf
  <1>4. /\ batch'.pc = "review" /\ batch'.outcomes = batch.outcomes
        /\ batch'.board = batch.board /\ batch'.leads = batch.leads /\ batch'.ages = batch.ages
        /\ batch'.recorded = batch.outcomes /\ batch'.executed = batch.executed
        /\ batch'.alert = batch.alert
    BY <1>1, <1>2 DEF Fields
  <1>5. TypeOK'
    <2>1. batch' \in [pc: {"idle", "confirm", "retry", "review", "execute", "done", "raised"},
                      board: Seq(Prospect), leads: Seq(Prospect), ages: [Lead -> 0..Window + 1],
                      outcomes: Seq(Outcome), recorded: Seq(Outcome),
                      executed: Seq([prospect: Prospect, bought: BOOLEAN]),
                      alert: {"none", "nothing was bought"}]
      BY <1>2 DEF BatchInv, TypeOK
    <2>2. QED
      BY <1>1, <1>3, <1>4, <2>1 DEF TypeOK
  <1>6. OutcomesFollow' /\ LeadsRotate' /\ Hits(batch'.outcomes) = Hits(batch.outcomes)
    BY <1>4, OutcomesStand
  <1>7. RecordIsComplete'
    <2>1. Len(batch.outcomes) \in Nat /\ Len(batch.leads) \in Nat
      <3>1. batch.outcomes \in Seq(Outcome) /\ batch.leads \in Seq(Prospect)
        BY <1>1 DEF Fields
      <3>2. QED
        BY <3>1
    <2>2. QED
      BY <1>1, <1>2, <1>4, <2>1 DEF RecordIsComplete
  <1>8. ExecutedAreHits'
    <2>1. batch'.executed = << >>
      BY <1>2, <1>4 DEF BatchInv, ExecutedAreHits
    <2>2. Len(Hits(batch'.outcomes)) \in Nat
      BY <1>1, <1>6, HitsPlaces DEF Fields
    <2>3. QED
      BY <1>4, <2>1, <2>2 DEF ExecutedAreHits
  <1>9. QED
    BY <1>5, <1>6, <1>7, <1>8 DEF BatchInv

(* The next hit on record is executed. *)
LEMMA ExecuteInv ==
  ASSUME BatchInv, ExecuteHit
  PROVE  BatchInv'
  <1>1. /\ Fields /\ age \in [Lead -> 0..Window + 1]
        /\ Len(batch.leads) <= Top /\ Len(batch.outcomes) <= Len(batch.leads)
    BY TypeFields DEF BatchInv
  <1> DEFINE hits == Hits(batch.outcomes)
             n == Len(batch.executed) + 1
  <1>2. PICK bought \in BOOLEAN :
          batch' = [batch EXCEPT !.executed =
                      Append(batch.executed, [prospect |-> hits[n].prospect, bought |-> bought])]
    BY DEF ExecuteHit
  <1>3. age' = age /\ batch.pc = "execute" /\ Len(batch.executed) < Len(hits)
    BY DEF ExecuteHit
  <1> DEFINE x == [prospect |-> hits[n].prospect, bought |-> bought]
  <1>4. /\ hits \in Seq(Outcome) /\ Len(hits) \in Nat /\ Len(batch.executed) \in Nat
        /\ batch.executed \in Seq([prospect: Prospect, bought: BOOLEAN])
    <2>1. /\ batch.outcomes \in Seq(Outcome)
          /\ batch.executed \in Seq([prospect: Prospect, bought: BOOLEAN])
      BY <1>1 DEF Fields
    <2>2. hits \in Seq(Outcome) /\ Len(hits) \in Nat
      BY <2>1, HitsPlaces
    <2>3. QED
      BY <2>1, <2>2
  <1> HIDE DEF hits
  <1>5. n \in 1..Len(hits)
    BY <1>3, <1>4
  <1>6. x \in [prospect: Prospect, bought: BOOLEAN] /\ x.prospect = hits[n].prospect
    <2>1. hits[n] \in Outcome
      BY <1>4, <1>5
    <2>2. QED
      BY <2>1 DEF Outcome
  <1> HIDE DEF x
  <1>7. /\ batch'.pc = "execute" /\ batch'.outcomes = batch.outcomes
        /\ batch'.board = batch.board /\ batch'.leads = batch.leads /\ batch'.ages = batch.ages
        /\ batch'.recorded = batch.recorded /\ batch'.executed = Append(batch.executed, x)
        /\ batch'.alert = batch.alert
    BY <1>1, <1>2, <1>3 DEF Fields, x
  <1>8. /\ batch'.executed \in Seq([prospect: Prospect, bought: BOOLEAN])
        /\ Len(batch'.executed) = n /\ DOMAIN batch'.executed = 1..n /\ batch'.executed[n] = x
        /\ \A k \in 1..Len(batch.executed) : batch'.executed[k] = batch.executed[k]
    BY <1>4, <1>6, <1>7
  <1>9. TypeOK'
    <2>1. batch' \in [pc: {"idle", "confirm", "retry", "review", "execute", "done", "raised"},
                      board: Seq(Prospect), leads: Seq(Prospect), ages: [Lead -> 0..Window + 1],
                      outcomes: Seq(Outcome), recorded: Seq(Outcome),
                      executed: Seq([prospect: Prospect, bought: BOOLEAN]),
                      alert: {"none", "nothing was bought"}]
      BY <1>2, <1>7, <1>8 DEF BatchInv, TypeOK
    <2>2. QED
      BY <1>1, <1>3, <1>7, <2>1 DEF TypeOK
  <1>10. OutcomesFollow' /\ LeadsRotate' /\ Hits(batch'.outcomes) = hits
    BY <1>7, OutcomesStand DEF hits
  <1>11. RecordIsComplete'
    BY <1>3, <1>7 DEF BatchInv, RecordIsComplete
  <1>12. ExecutedAreHits'
    <2>1. \A k \in 1..n : batch'.executed[k].prospect = hits[k].prospect
      <3> SUFFICES ASSUME NEW k \in 1..n
                   PROVE  batch'.executed[k].prospect = hits[k].prospect
        OBVIOUS
      <3>1. CASE k = n
        BY <1>6, <1>8, <3>1
      <3>2. CASE k \in 1..Len(batch.executed)
        <4>1. k \in DOMAIN batch.executed
          BY <1>4, <3>2
        <4>2. batch.executed[k].prospect = hits[k].prospect
          BY <4>1 DEF BatchInv, ExecutedAreHits, hits
        <4>3. QED
          BY <1>8, <3>2, <4>2
      <3>3. QED
        BY <1>4, <3>1, <3>2
    <2>2. n <= Len(hits)
      BY <1>5
    <2>3. QED
      BY <1>7, <1>8, <1>10, <2>1, <2>2 DEF ExecutedAreHits
  <1>13. QED
    BY <1>9, <1>10, <1>11, <1>12 DEF BatchInv

(* The alert is written when every hit was executed. *)
LEMMA AlertInv ==
  ASSUME BatchInv, Alert
  PROVE  BatchInv'
  <1>1. /\ Fields /\ age \in [Lead -> 0..Window + 1]
        /\ Len(batch.leads) <= Top /\ Len(batch.outcomes) <= Len(batch.leads)
    BY TypeFields DEF BatchInv
  <1>2. PICK alert \in {"none", "nothing was bought"} :
          batch' = [batch EXCEPT !.pc = "done", !.alert = alert]
    BY DEF Alert
  <1>3. age' = age /\ batch.pc = "execute" /\ Len(batch.executed) = Len(Hits(batch.outcomes))
    BY DEF Alert
  <1>4. /\ batch'.pc = "done" /\ batch'.outcomes = batch.outcomes
        /\ batch'.board = batch.board /\ batch'.leads = batch.leads /\ batch'.ages = batch.ages
        /\ batch'.recorded = batch.recorded /\ batch'.executed = batch.executed
    BY <1>1, <1>2 DEF Fields
  <1>5. TypeOK'
    <2>1. batch' \in [pc: {"idle", "confirm", "retry", "review", "execute", "done", "raised"},
                      board: Seq(Prospect), leads: Seq(Prospect), ages: [Lead -> 0..Window + 1],
                      outcomes: Seq(Outcome), recorded: Seq(Outcome),
                      executed: Seq([prospect: Prospect, bought: BOOLEAN]),
                      alert: {"none", "nothing was bought"}]
      BY <1>2 DEF BatchInv, TypeOK
    <2>2. QED
      BY <1>1, <1>3, <1>4, <2>1 DEF TypeOK
  <1>6. OutcomesFollow' /\ LeadsRotate' /\ Hits(batch'.outcomes) = Hits(batch.outcomes)
    BY <1>4, OutcomesStand
  <1>7. RecordIsComplete'
    BY <1>3, <1>4 DEF BatchInv, RecordIsComplete
  <1>8. ExecutedAreHits'
    BY <1>3, <1>4, <1>6 DEF BatchInv, ExecutedAreHits
  <1>9. QED
    BY <1>5, <1>6, <1>7, <1>8 DEF BatchInv

LEMMA StutterInv ==
  ASSUME BatchInv, UNCHANGED vars
  PROVE  BatchInv'
  <1>1. batch' = batch /\ age' = age
    BY DEF vars
  <1>2. OutcomesFollow' /\ LeadsRotate' /\ Hits(batch'.outcomes) = Hits(batch.outcomes)
    BY <1>1, OutcomesStand
  <1>3. TypeOK' /\ RecordIsComplete' /\ ExecutedAreHits'
    BY <1>1 DEF BatchInv, TypeOK, RecordIsComplete, ExecutedAreHits
  <1>4. QED
    BY <1>2, <1>3 DEF BatchInv

LEMMA BatchInvariant == Spec => []BatchInv
  <1>1. Init => BatchInv
    BY BatchInit
  <1>2. BatchInv /\ [Next]_vars => BatchInv'
    BY SweepInv, MissedInv, ConfirmInv, TurnInv, RecordInv, ExecuteInv, AlertInv, StutterInv
       DEF Next, Work
  <1>3. QED
    BY <1>1, <1>2, PTL DEF Spec

(* Every reachable batch is a batch within its budget.                      *)
THEOREM TypeCorrect == Spec => []TypeOK
  <1>1. BatchInv => TypeOK
    BY DEF BatchInv
  <1>2. QED
    BY <1>1, BatchInvariant, PTL

(* The budget of every batch goes to distinct leads in rank order, and a    *)
(* lead seen inside the window comes again only when the whole board was.   *)
THEOREM LeadsRotateAlways == Spec => []LeadsRotate
  <1>1. BatchInv => LeadsRotate
    BY DEF BatchInv
  <1>2. QED
    BY <1>1, BatchInvariant, PTL

(* Only what is on record is executed: the confirmed hits, in rank order.   *)
THEOREM ExecutionFollows == Spec => []ExecutionFollowsRecord
  <1>1. BatchInv => ExecutionFollowsRecord
    <2> SUFFICES ASSUME BatchInv, batch.pc \in {"execute", "done"}
                 PROVE  ExecutionFollowsRecord
      BY DEF ExecutionFollowsRecord
    <2> DEFINE records == batch.recorded
               hits == Hits(records)
               done == batch.executed
               H == {i \in DOMAIN records : records[i].hit}
    <2>1. /\ records \in Seq(Outcome) /\ batch.leads \in Seq(Prospect) /\ Len(records) = Len(batch.leads)
          /\ done \in Seq([prospect: Prospect, bought: BOOLEAN])
      BY TypeFields DEF BatchInv, Fields, RecordIsComplete
    <2>2. \A i \in DOMAIN records : /\ records[i].prospect = batch.leads[i]
                                    /\ records[i].hit => records[i].status = "CONFIRMED"
      BY DEF BatchInv, OutcomesFollow, RecordIsComplete
    <2>3. /\ Len(done) <= Len(hits) /\ \A k \in DOMAIN done : done[k].prospect = hits[k].prospect
          /\ batch.pc = "done" => Len(done) = Len(hits)
      BY DEF BatchInv, ExecutedAreHits, RecordIsComplete
    <2> HIDE DEF records, done, hits
    <2>4. /\ Len(hits) \in Nat /\ Len(done) \in Nat /\ Len(records) \in Nat
          /\ DOMAIN records = 1..Len(records) /\ DOMAIN done = 1..Len(done)
      BY <2>1, HitsPlaces DEF hits
    <2>5. PICK at : Places(at, hits, records, H, Len(records))
      BY <2>1, HitsPlaces DEF hits
    <2>6. [i \in DOMAIN records |-> records[i].prospect] = batch.leads
      <3>1. DOMAIN batch.leads = 1..Len(records) /\ batch.leads = [i \in 1..Len(records) |-> batch.leads[i]]
        BY <2>1
      <3>2. QED
        BY <2>2, <2>4, <3>1
    <2> DEFINE p == [k \in DOMAIN done |-> at[k]]
    <2>7. /\ \A k \in 1..Len(hits) : at[k] \in 1..Len(records) /\ at[k] \in H /\ hits[k] = records[at[k]]
          /\ \A j, k \in 1..Len(hits) : j < k => at[j] < at[k]
          /\ \A i \in 1..Len(records) : i \in H => \E k \in 1..Len(hits) : at[k] = i
      BY <2>5 DEF Places
    <2>8. p \in [DOMAIN done -> DOMAIN records]
      BY <2>3, <2>4, <2>7
    <2>9. ASSUME NEW k \in DOMAIN done
          PROVE  /\ records[p[k]].hit /\ records[p[k]].status = "CONFIRMED"
                 /\ done[k].prospect = records[p[k]].prospect
                 /\ \A j \in DOMAIN done : j < k => p[j] < p[k]
                 /\ \A i \in 1..p[k] - 1 : records[i].hit => \E j \in 1..k - 1 : p[j] = i
      <3>1. k \in 1..Len(done) /\ k \in 1..Len(hits) /\ p[k] = at[k]
        BY <2>3, <2>4
      <3>2. at[k] \in 1..Len(records) /\ at[k] \in H /\ hits[k] = records[at[k]]
        BY <2>7, <3>1
      <3>3. records[p[k]].hit /\ records[p[k]].status = "CONFIRMED" /\ done[k].prospect = records[p[k]].prospect
        BY <2>2, <2>3, <3>1, <3>2
      <3>4. ASSUME NEW j \in DOMAIN done, j < k
            PROVE  p[j] < p[k]
        BY <2>3, <2>4, <2>7, <3>1, <3>4
      <3>5. ASSUME NEW i \in 1..p[k] - 1, records[i].hit
            PROVE  \E j \in 1..k - 1 : p[j] = i
        <4>1. i \in 1..Len(records) /\ i \in H /\ i < at[k]
          BY <2>4, <3>1, <3>2, <3>5
        <4>2. PICK j \in 1..Len(hits) : at[j] = i
          BY <2>7, <4>1
        <4>3. j < k
          <5>1. CASE j = k
            BY <3>2, <4>1, <4>2, <5>1
          <5>2. CASE k < j
            <6>1. at[k] < at[j]
              BY <2>7, <3>1, <5>2
            <6>2. QED
              BY <3>2, <4>1, <4>2, <6>1
          <5>3. QED
            BY <2>4, <3>1, <5>1, <5>2
        <4>4. j \in 1..k - 1 /\ j \in DOMAIN done
          BY <2>4, <3>1, <4>3
        <4>5. QED
          BY <4>2, <4>4
      <3>6. QED
        BY <3>3, <3>4, <3>5
    <2>10. ASSUME batch.pc = "done", NEW i \in DOMAIN records, records[i].hit
           PROVE  \E k \in DOMAIN done : p[k] = i
      BY <2>3, <2>4, <2>7, <2>10
    <2> HIDE DEF p
    <2>11. QED
      BY <2>6, <2>8, <2>9, <2>10 DEF ExecutionFollowsRecord, records, done
  <1>2. QED
    BY <1>1, BatchInvariant, PTL
-----------------------------------------------------------------------------
(* The fitted haircut.                                                     *)

(* A history: finitely many pairs, each any number of times. *)
IsHistory(bag) ==
  /\ IsFiniteSet(DOMAIN bag) /\ DOMAIN bag \subseteq Pair
  /\ bag \in [DOMAIN bag -> Nat \ {0}]

Implieds(bag) == {Implied(p) : p \in DOMAIN bag}
AtMost(bag, h) == {p \in DOMAIN bag : Implied(p) <= h}

LEMMA ImpliedType ==
  ASSUME NEW p \in Pair
  PROVE  Implied(p) \in 0..95
<1>1. /\ p.estimate \in 1..100 /\ p.exact \in Int /\ p.haircut \in 0..99
  <2>1. /\ p.estimate \in 1..100 /\ p.exact \in Exacts /\ p.haircut \in 0..99
    BY DEF Pair
  <2>2. p.exact \in 0..100
    BY <2>1, CalibrationAssumption
  <2> QED
    BY <2>1, <2>2
<1> DEFINE e == p.estimate
           x == p.exact * (100 - SaleFee - p.haircut)
<1>2. x \in Int /\ e \in Nat \ {0}
  BY <1>1, SMT DEF SaleFee
<1>3. x \div e \in Int
  BY <1>2, Rounding DEF RoundDown
<1> HIDE DEF e, x
<1>4. Clamped(100 - SaleFee - (x \div e)) \in 0..95
  BY <1>3 DEF Clamped, SaleFee, MaxHaircut
<1> QED
  BY <1>4 DEF Implied, e, x

LEMMA CountType ==
  ASSUME NEW bag, IsHistory(bag), NEW S \in SUBSET DOMAIN bag
  PROVE  /\ CountIn(bag, S) \in Nat /\ Samples(bag) \in Nat
         /\ Samples(bag) = CountIn(bag, S) + CountIn(bag, DOMAIN bag \ S)
         /\ CountIn(bag, DOMAIN bag \ S) \in Nat
<1>1. \A p \in DOMAIN bag : bag[p] \in Nat
  BY DEF IsHistory
<1> QED
  BY <1>1, SumPart DEF IsHistory, CountIn, Samples

(* More pairs, no lesser count. *)
LEMMA CountGrows ==
  ASSUME NEW bag, IsHistory(bag), NEW S \in SUBSET DOMAIN bag, NEW R \in SUBSET S
  PROVE  CountIn(bag, R) <= CountIn(bag, S)
<1>1. IsFiniteSet(S) /\ \A p \in S : bag[p] \in Nat
  BY FS_Subset DEF IsHistory
<1> QED
  BY <1>1, SumPart DEF CountIn

(* The k-th haircut in order is the least with k pairs up to it.           *)
LEMMA OrderedIs ==
  ASSUME NEW bag, IsHistory(bag), NEW k \in 1..Samples(bag)
  PROVE  /\ Ordered(bag)[k] \in Implieds(bag) /\ Implieds(bag) \subseteq 0..95
         /\ CountIn(bag, AtMost(bag, Ordered(bag)[k])) >= k
         /\ \A h \in Implieds(bag) : CountIn(bag, AtMost(bag, h)) >= k => Ordered(bag)[k] <= h
<1> DEFINE H == {h \in Implieds(bag) : CountIn(bag, AtMost(bag, h)) >= k}
<1>1. Implieds(bag) \subseteq 0..95
  BY ImpliedType DEF IsHistory, Implieds
<1>2. IsFiniteSet(Implieds(bag))
  <2>1. IsFiniteSet(0..95)
    <3>1. 0 \in Int /\ 95 \in Int
      OBVIOUS
    <3> QED
      BY <3>1, FS_Interval
  <2> QED
    BY <1>1, <2>1, FS_Subset
<1>3. H # {}
  <2>1. Samples(bag) \in Nat /\ CountIn(bag, {}) \in Nat
    BY CountType
  <2>2. DOMAIN bag # {}
    <3>1. CountIn(bag, {}) = 0
      BY SumNothing DEF CountIn
    <3> QED
      BY <2>1, <3>1 DEF Samples
  <2>3. Implieds(bag) # {} /\ Implieds(bag) \in SUBSET Int
    BY <1>1, <2>2 DEF Implieds
  <2> DEFINE m == Max(Implieds(bag))
  <2>4. m \in Implieds(bag) /\ \A h \in Implieds(bag) : h <= m
    BY <1>2, <2>3, MaxIs
  <2> HIDE DEF m
  <2>5. AtMost(bag, m) = DOMAIN bag
    BY <2>4 DEF AtMost, Implieds
  <2>6. CountIn(bag, AtMost(bag, m)) >= k
    BY <2>1, <2>5 DEF Samples
  <2> QED
    BY <2>4, <2>6
<1>4. H \in SUBSET Int /\ IsFiniteSet(H)
  BY <1>1, <1>2, FS_Subset
<1>5. Ordered(bag)[k] = Min(H)
  BY DEF Ordered, Implieds, AtMost
<1>6. Min(H) \in H /\ \A h \in H : Min(H) <= h
  BY <1>3, <1>4, MinIs
<1> QED
  BY <1>1, <1>5, <1>6

(* The conservative median: more than half of the pairs imply it or less,  *)
(* and no lesser haircut has as many.                                      *)
LEMMA MedianIs ==
  ASSUME NEW bag, IsHistory(bag), Samples(bag) >= 1
  PROVE  LET M == ConservativeMedian(bag) IN
         /\ M \in Implieds(bag) /\ Implieds(bag) \subseteq 0..95
         /\ 2 * CountIn(bag, AtMost(bag, M)) > Samples(bag)
         /\ \A h \in Implieds(bag) : 2 * CountIn(bag, AtMost(bag, h)) > Samples(bag) => M <= h
<1> DEFINE n == Samples(bag)
           k == n \div 2
           O == Ordered(bag)
<1>1. n \in Nat /\ \A S \in SUBSET DOMAIN bag : CountIn(bag, S) \in Nat
  BY CountType
<1>2. k \in Nat /\ k + 1 \in 1..n /\ n \in {2 * k, 2 * k + 1} /\ (n % 2 = 1 => n = 2 * k + 1) /\ (n % 2 # 1 => n = 2 * k)
  <2> HIDE DEF n
  <2>1. n \in Nat /\ n >= 1
    BY <1>1 DEF n
  <2> QED
    BY <2>1
<1> HIDE DEF n, k, O
<1>3. /\ O[k + 1] \in Implieds(bag) /\ Implieds(bag) \subseteq 0..95
      /\ CountIn(bag, AtMost(bag, O[k + 1])) >= k + 1
      /\ \A h \in Implieds(bag) : CountIn(bag, AtMost(bag, h)) >= k + 1 => O[k + 1] <= h
  BY <1>2, OrderedIs DEF n, O
<1>4. ConservativeMedian(bag) = O[k + 1]
  <2>1. CASE n % 2 = 1
    BY <2>1 DEF ConservativeMedian, n, k, O
  <2>2. CASE n % 2 # 1
    <3>1. k \in 1..n
      BY <1>1, <1>2, <2>2
    <3>2. /\ O[k] \in Implieds(bag)
          /\ \A h \in Implieds(bag) : CountIn(bag, AtMost(bag, h)) >= k => O[k] <= h
      BY <3>1, OrderedIs DEF n, O
    <3>3. AtMost(bag, O[k + 1]) \in SUBSET DOMAIN bag
      BY DEF AtMost
    <3>4. CountIn(bag, AtMost(bag, O[k + 1])) >= k
      BY <1>1, <1>2, <1>3, <3>3
    <3>5. O[k] <= O[k + 1] /\ O[k] \in Int /\ O[k + 1] \in Int
      BY <1>3, <3>2, <3>4
    <3> DEFINE P == {O[k], O[k + 1]}
    <3>6. P \in SUBSET Int /\ P # {} /\ IsFiniteSet(P)
      BY <3>5, PairFinite
    <3>7. Max(P) \in P /\ \A x \in P : x <= Max(P)
      BY <3>6, MaxIs
    <3>8. Max(P) = O[k + 1]
      BY <3>5, <3>7
    <3>9. ConservativeMedian(bag) = Max(P)
      BY <2>2 DEF ConservativeMedian, n, k, O
    <3> QED
      BY <3>8, <3>9
  <2> QED
    BY <2>1, <2>2
<1>5. \A h : AtMost(bag, h) \in SUBSET DOMAIN bag
  BY DEF AtMost
<1> QED
  BY <1>1, <1>2, <1>3, <1>4, <1>5 DEF n

-----------------------------------------------------------------------------
(* What the record says.                                                   *)

(* A history of estimates that were what their own haircut makes them.     *)
IsRecord(bag) == IsHistory(bag) /\ \A p \in DOMAIN bag : p.estimate = Estimate(p.haircut)

(* Its own haircut taken out, a pair implies what makes the estimate its    *)
(* confirmation. *)
LEMMA ImpliedIs ==
  ASSUME NEW p \in Pair, p.estimate = Estimate(p.haircut)
  PROVE  /\ p.exact \in 0..100 /\ Implied(p) \in 0..95
         /\ Implied(p) = IF p.exact <= 92 THEN 92 - p.exact ELSE 0
<1>1. /\ p.estimate \in 1..100 /\ p.exact \in 0..100 /\ p.haircut \in 0..99
  <2>1. /\ p.estimate \in 1..100 /\ p.exact \in Exacts /\ p.haircut \in 0..99
    BY DEF Pair
  <2>2. p.exact \in 0..100
    BY <2>1, CalibrationAssumption
  <2> QED
    BY <2>1, <2>2
<1>2. p.estimate = 100 - SaleFee - p.haircut
  BY <1>1 DEF Estimate, SaleFee
<1> DEFINE e == p.estimate
           x == p.exact
<1>3. Implied(p) = Clamped(100 - SaleFee - ((x * e) \div e))
  BY <1>2 DEF Implied
<1>4. (x * e) \div e = x
  <2>1. e \in Nat \ {0} /\ x \in Nat
    BY <1>1
  <2> HIDE DEF e, x
  <2> DEFINE q == (x * e) \div e
  <2>2. x * e \in Nat /\ e * x = x * e
    BY <2>1, Product
  <2>3. q \in Int /\ e * q <= e * x /\ e * x < e * (q + 1)
    BY <2>1, <2>2, Rounding DEF RoundDown
  <2> HIDE DEF q
  <2>4. CASE x + 1 <= q
    <3>1. e * (x + 1) <= e * q /\ e * (x + 1) = e * x + e /\ e * q \in Int /\ e * x \in Int
      BY <2>1, <2>3, <2>4, Monotone, SMT
    <3> QED
      BY <2>1, <2>3, <3>1
  <2>5. CASE q + 1 <= x
    <3>1. e * (q + 1) <= e * x /\ e * (q + 1) \in Int /\ e * x \in Int
      BY <2>1, <2>3, <2>5, Monotone, SMT
    <3> QED
      BY <2>3, <3>1
  <2> QED
    BY <2>1, <2>3, <2>4, <2>5 DEF q
<1> QED
  BY <1>1, <1>3, <1>4 DEF Clamped, SaleFee, MaxHaircut

(* More than half of a record that measured what a haircut leaves fit it.  *)
LEMMA RecordTracks ==
  ASSUME NEW bag, IsRecord(bag), NEW today \in 0..92,
         2 * CountIn(bag, {p \in DOMAIN bag : p.exact = today}) > Samples(bag), Samples(bag) >= 1
  PROVE  ConservativeMedian(bag) = 92 - today
<1> DEFINE M == ConservativeMedian(bag)
           T == {p \in DOMAIN bag : p.exact = today}
           n == Samples(bag)
           h == 92 - today
<1>1. /\ M \in Implieds(bag) /\ Implieds(bag) \subseteq 0..95
      /\ 2 * CountIn(bag, AtMost(bag, M)) > n
      /\ \A x \in Implieds(bag) : 2 * CountIn(bag, AtMost(bag, x)) > n => M <= x
  BY MedianIs DEF IsRecord
<1>2. \A p \in DOMAIN bag : p.exact \in 0..100 /\ Implied(p) = IF p.exact <= 92 THEN 92 - p.exact ELSE 0
  BY ImpliedIs DEF IsRecord, IsHistory
<1>3. T \in SUBSET DOMAIN bag /\ \A p \in T : Implied(p) = h
  BY <1>2
<1>4. /\ CountIn(bag, T) \in Nat /\ n \in Nat
      /\ n = CountIn(bag, T) + CountIn(bag, DOMAIN bag \ T)
      /\ CountIn(bag, DOMAIN bag \ T) \in Nat
  BY <1>3, CountType DEF IsRecord
<1>5. h \in Implieds(bag) /\ M <= h
  <2>1. T # {}
    <3>1. CountIn(bag, {}) = 0
      BY SumNothing DEF CountIn
    <3>2. 2 * CountIn(bag, T) > n
      OBVIOUS
    <3> HIDE DEF T
    <3> QED
      BY <1>4, <3>1, <3>2
  <2>2. h \in Implieds(bag)
    BY <1>3, <2>1 DEF Implieds
  <2>3. T \in SUBSET AtMost(bag, h) /\ AtMost(bag, h) \in SUBSET DOMAIN bag
    BY <1>3, <1>1, <2>2 DEF AtMost
  <2>4. CountIn(bag, T) <= CountIn(bag, AtMost(bag, h)) /\ CountIn(bag, AtMost(bag, h)) \in Nat
    BY <2>3, CountGrows, CountType DEF IsRecord
  <2> QED
    BY <1>1, <1>4, <2>2, <2>4
<1>6. CASE M < h
  <2>1. AtMost(bag, M) \in SUBSET (DOMAIN bag \ T)
    BY <1>1, <1>3, <1>5, <1>6 DEF AtMost
  <2>2. CountIn(bag, AtMost(bag, M)) <= CountIn(bag, DOMAIN bag \ T) /\ CountIn(bag, AtMost(bag, M)) \in Nat
    BY <2>1, CountGrows, CountType DEF IsRecord
  <2> QED
    BY <1>1, <1>4, <2>2
<1>7. M \in Int /\ h \in Int
  BY <1>1
<1> QED
  BY <1>5, <1>6, <1>7

(* Fewer than half of a record came in below what its median estimates.    *)
LEMMA RecordIsConservative ==
  ASSUME NEW bag, IsRecord(bag), Samples(bag) >= 1
  PROVE  2 * CountIn(bag, {p \in DOMAIN bag : p.exact < Estimate(ConservativeMedian(bag))}) < Samples(bag)
<1> DEFINE M == ConservativeMedian(bag)
           D == {p \in DOMAIN bag : p.exact < Estimate(M)}
           n == Samples(bag)
<1>1. M \in 0..95 /\ 2 * CountIn(bag, AtMost(bag, M)) > n
  BY MedianIs DEF IsRecord
<1>2. \A p \in DOMAIN bag : p.exact \in 0..100 /\ Implied(p) = IF p.exact <= 92 THEN 92 - p.exact ELSE 0
  BY ImpliedIs DEF IsRecord, IsHistory
<1>3. AtMost(bag, M) \in SUBSET DOMAIN bag
  BY DEF AtMost
<1>4. /\ CountIn(bag, AtMost(bag, M)) \in Nat /\ n \in Nat
      /\ n = CountIn(bag, AtMost(bag, M)) + CountIn(bag, DOMAIN bag \ AtMost(bag, M))
      /\ CountIn(bag, DOMAIN bag \ AtMost(bag, M)) \in Nat
  BY <1>3, CountType DEF IsRecord
<1>5. D \in SUBSET (DOMAIN bag \ AtMost(bag, M))
  <2> SUFFICES ASSUME NEW p \in DOMAIN bag, p.exact < Estimate(M) PROVE ~(Implied(p) <= M)
    BY DEF AtMost
  <2> QED
    BY <1>1, <1>2 DEF Estimate, SaleFee
<1>6. CountIn(bag, D) <= CountIn(bag, DOMAIN bag \ AtMost(bag, M)) /\ CountIn(bag, D) \in Nat
  <2>1. DOMAIN bag \ AtMost(bag, M) \in SUBSET DOMAIN bag /\ D \in SUBSET DOMAIN bag
    OBVIOUS
  <2> HIDE DEF D
  <2> QED
    BY <1>5, <2>1, CountGrows, CountType DEF IsRecord
<1> HIDE DEF D
<1> QED
  BY <1>1, <1>4, <1>6 DEF D

(* One more pair is one more sample.                                       *)
LEMMA RecordedIs ==
  ASSUME NEW bag, IsRecord(bag), NEW pair \in Pair, pair.estimate = Estimate(pair.haircut)
  PROVE  IsRecord(Recorded(bag, pair)) /\ Samples(Recorded(bag, pair)) = Samples(bag) + 1
<1> DEFINE D == DOMAIN bag
           E == D \cup {pair}
           new == Recorded(bag, pair)
           old == [p \in E |-> IF p \in D THEN bag[p] ELSE 0]
           one == [p \in E |-> IF p = pair THEN 1 ELSE 0]
<1>1. IsFiniteSet(E) /\ IsFiniteSet(D) /\ D \in SUBSET E
  BY FS_AddElement DEF IsRecord, IsHistory
<1>2. DOMAIN new = E /\ \A p \in E : /\ old[p] \in Nat /\ one[p] \in Nat
                                     /\ new[p] = old[p] + one[p] /\ new[p] \in Nat \ {0}
  BY DEF Recorded, IsRecord, IsHistory
<1>3. IsRecord(new)
  <2>1. new = [p \in E |-> new[p]]
    BY DEF Recorded
  <2> HIDE DEF new
  <2> QED
    BY <1>1, <1>2, <2>1 DEF IsRecord, IsHistory
<1>4. SumOver(E, new) = SumOver(E, old) + SumOver(E, one)
  <2> HIDE DEF E, old, one, new
  <2>1. Added(E, old, one, new)
    BY <1>2 DEF Added
  <2> QED
    BY <1>1, <2>1, SumAdds
<1>5. SumOver(E, old) = SumOver(D, bag)
  <2>1. SumOver(E, old) = SumOver(D, old) + SumOver(E \ D, old) /\ SumOver(D, old) \in Nat
    BY <1>1, <1>2, SumPart
  <2>2. SumOver(D, old) = SumOver(D, bag)
    BY <1>1, SumSame
  <2>3. SumOver(E \ D, old) = 0
    <3>1. IsFiniteSet(E \ D) /\ \A x \in E \ D : old[x] \in Nat /\ old[x] <= 0
      BY <1>1, <1>2, FS_Subset
    <3>2. SumOver(E \ D, old) <= 0 * Cardinality(E \ D) /\ SumOver(E \ D, old) \in Nat
      BY <3>1, SumBounded, SumNat
    <3>3. Cardinality(E \ D) \in Nat
      BY <3>1, FS_CardinalityType
    <3> QED
      BY <3>2, <3>3
  <2> QED
    BY <2>1, <2>2, <2>3
<1>6. SumOver(E, one) = 1
  <2> DEFINE P == {pair}
  <2>1. P \in SUBSET E /\ one[pair] = 1
    OBVIOUS
  <2>2. SumOver(E, one) = SumOver(P, one) + SumOver(E \ P, one)
    BY <1>1, <1>2, <2>1, SumPart
  <2>3. SumOver(P, one) = 1
    BY <2>1, SumOne
  <2>4. SumOver(E \ P, one) = 0
    <3>1. IsFiniteSet(E \ P) /\ \A x \in E \ P : one[x] \in Nat /\ one[x] <= 0
      BY <1>1, <1>2, FS_Subset
    <3>2. SumOver(E \ P, one) <= 0 * Cardinality(E \ P) /\ SumOver(E \ P, one) \in Nat
      BY <3>1, SumBounded, SumNat
    <3>3. Cardinality(E \ P) \in Nat
      BY <3>1, FS_CardinalityType
    <3> QED
      BY <3>2, <3>3
  <2> QED
    BY <2>2, <2>3, <2>4
<1> QED
  BY <1>2, <1>3, <1>4, <1>5, <1>6 DEF Samples, CountIn

-----------------------------------------------------------------------------
(* What is applied, and the loop around it.                                *)

LEMMA AppliedType ==
  ASSUME NEW q \in Quality, IsRecord(rows[q])
  PROVE  /\ Applied(q) \in 0..99 /\ Estimate(Applied(q)) \in 0..92
         /\ Samples(rows[q]) \in Nat
<1>1. Samples(rows[q]) \in Nat
  BY CountType DEF IsRecord
<1>2. Applied(q) \in 0..99
  <2>1. CASE Reliable(rows[q])
    <3>1. Samples(rows[q]) >= 1
      BY <1>1, <2>1, CalibrationAssumption DEF Reliable
    <3>2. ConservativeMedian(rows[q]) \in 0..95
      BY <3>1, MedianIs DEF IsRecord
    <3> QED
      BY <2>1, <3>2 DEF Applied
  <2>2. CASE ~Reliable(rows[q])
    BY <2>2, CalibrationAssumption DEF Applied
  <2> QED
    BY <2>1, <2>2
<1> QED
  BY <1>1, <1>2 DEF Estimate, SaleFee

EvidenceInv ==
  /\ market \in [Quality -> Exacts]
  /\ rows = [q \in Quality |-> rows[q]]
  /\ \A q \in Quality : IsRecord(rows[q])
  /\ shown \subseteq Quality

LEMMA EvidenceStarts == LoopInit => EvidenceInv
<1> SUFFICES ASSUME LoopInit PROVE EvidenceInv
  OBVIOUS
<1>1. IsRecord(EmptyBag)
  BY FS_EmptySet DEF EmptyBag, SetToBag, IsRecord, IsHistory
<1> QED
  BY <1>1 DEF LoopInit, EvidenceInv

LEMMA EvidenceDrifts == EvidenceInv /\ MarketMoves => EvidenceInv'
  BY DEF EvidenceInv, MarketMoves

(* What a batch makes of the history of a quality.                         *)
LEMMA BatchIs ==
  ASSUME EvidenceInv, Batch, NEW q \in Quality
  PROVE  /\ market' = market /\ IsRecord(rows'[q])
         /\ \/ rows'[q] = rows[q]
            \/ q \in shown' /\ Samples(rows'[q]) = Samples(rows[q]) + 1
<1> DEFINE above == {x \in Quality : Estimate(Applied(x)) > 0 /\ Estimate(Applied(x)) >= Cost}
           new == [estimate |-> Estimate(Applied(q)), exact |-> market[q], haircut |-> Applied(q)]
<1>1. /\ shown' = above /\ market' = market
      /\ rows'[q] = IF q \in above /\ Samples(rows[q]) < MaxRows THEN Recorded(rows[q], new) ELSE rows[q]
  BY DEF Batch
<1>2. IsRecord(rows[q]) /\ market[q] \in Exacts
  BY DEF EvidenceInv
<1>3. CASE q \in above /\ Samples(rows[q]) < MaxRows
  <2>1. new.estimate \in 1..100 /\ new.haircut \in 0..99 /\ new.exact \in Exacts
    BY <1>2, <1>3, AppliedType
  <2>2. new \in Pair /\ new.estimate = Estimate(new.haircut)
    BY <2>1 DEF Pair
  <2> HIDE DEF new
  <2>3. IsRecord(Recorded(rows[q], new)) /\ Samples(Recorded(rows[q], new)) = Samples(rows[q]) + 1
    BY <1>2, <2>2, RecordedIs
  <2> QED
    BY <1>1, <1>3, <2>3
<1>4. CASE ~(q \in above /\ Samples(rows[q]) < MaxRows)
  BY <1>1, <1>2, <1>4
<1> QED
  BY <1>3, <1>4

LEMMA EvidenceBatch == EvidenceInv /\ Batch => EvidenceInv'
<1> SUFFICES ASSUME EvidenceInv, Batch PROVE EvidenceInv'
  OBVIOUS
<1>1. \A q \in Quality : IsRecord(rows'[q])
  BY BatchIs
<1>2. market' = market /\ rows' = [q \in Quality |-> rows'[q]] /\ shown' \subseteq Quality
  BY DEF Batch
<1> QED
  BY <1>1, <1>2 DEF EvidenceInv

LEMMA EvidenceTypes == EvidenceInv => LoopTypeOK
<1> SUFFICES ASSUME EvidenceInv PROVE LoopTypeOK
  OBVIOUS
<1>1. \A q \in Quality : IsABag(rows[q]) /\ BagToSet(rows[q]) \subseteq Pair
  BY DEF EvidenceInv, IsRecord, IsHistory, IsABag, BagToSet
<1> QED
  BY <1>1 DEF EvidenceInv, LoopTypeOK

LEMMA EvidenceTracked == EvidenceInv => EstimatesTrackEvidence
<1> SUFFICES ASSUME EvidenceInv, NEW q \in Quality,
                    Samples(rows[q]) >= MinReliable,
                    2 * CountIn(rows[q], {p \in DOMAIN rows[q] : p.exact = market[q]}) > Samples(rows[q]),
                    market[q] <= 100 - SaleFee
             PROVE  Estimate(Applied(q)) = market[q]
  BY DEF EstimatesTrackEvidence
<1>1. IsRecord(rows[q]) /\ market[q] \in Exacts
  BY DEF EvidenceInv
<1>2. market[q] \in 0..92 /\ Samples(rows[q]) >= 1
  <2>1. market[q] \in 0..100 /\ MinReliable >= 1 /\ MinReliable \in Nat
    <3>1. market[q] \in 0..100
      BY <1>1, CalibrationAssumption
    <3> QED
      BY <3>1, CalibrationAssumption
  <2>2. Samples(rows[q]) \in Nat
    BY <1>1, AppliedType
  <2> QED
    BY <2>1, <2>2 DEF SaleFee
<1>3. ConservativeMedian(rows[q]) = 92 - market[q]
  BY <1>1, <1>2, RecordTracks
<1>4. Applied(q) = 92 - market[q]
  BY <1>3 DEF Applied, Reliable
<1> QED
  BY <1>2, <1>4 DEF Estimate, SaleFee

LEMMA EvidenceConservative == EvidenceInv => HaircutIsConservative
<1> SUFFICES ASSUME EvidenceInv, NEW q \in Quality, Samples(rows[q]) >= MinReliable
             PROVE  2 * CountIn(rows[q], {p \in DOMAIN rows[q] : p.exact < Estimate(Applied(q))}) < Samples(rows[q])
  BY DEF HaircutIsConservative
<1>1. IsRecord(rows[q])
  BY DEF EvidenceInv
<1>2. Samples(rows[q]) >= 1
  <2>1. MinReliable \in Nat /\ MinReliable >= 1 /\ Samples(rows[q]) \in Nat
    BY <1>1, AppliedType, CalibrationAssumption
  <2> QED
    BY <2>1
<1>3. Applied(q) = ConservativeMedian(rows[q])
  BY DEF Applied, Reliable
<1> QED
  BY <1>1, <1>2, <1>3, RecordIsConservative

(* A haircut moves only when a batch takes the history of its quality past  *)
(* the sample floor. *)
LEMMA BatchMovesWithEvidence ==
  ASSUME EvidenceInv, Batch, NEW q \in Quality, Applied(q)' # Applied(q)
  PROVE  Samples(rows[q])' >= MinReliable /\ q \in shown'
<1>1. rows'[q] # rows[q]
  BY DEF Applied
<1>2. q \in shown' /\ Samples(rows'[q]) = Samples(rows[q]) + 1
  BY <1>1, BatchIs
<1>3. Samples(rows[q]) \in Nat /\ MinReliable \in Nat
  BY AppliedType, CalibrationAssumption DEF EvidenceInv
<1>4. CASE Samples(rows'[q]) < MinReliable
  <2>1. ~Reliable(rows[q]) /\ ~Reliable(rows'[q])
    BY <1>2, <1>3, <1>4 DEF Reliable
  <2>2. Applied(q)' = Applied(q)
    BY <2>1 DEF Applied
  <2> QED
    BY <2>2
<1> QED
  BY <1>2, <1>3, <1>4

-----------------------------------------------------------------------------
(* What was imported.                                                      *)

RegistryInv == payload \in Payloads /\ registry = Import(payload)

LEMMA PayloadIs ==
  ASSUME RegistryInv
  PROVE  /\ IsFiniteSet(payload) /\ StatedOnce(payload) /\ \A e \in payload : IsEntry(e)
         /\ DOMAIN registry = {"skins", "roster", "extraordinary"}
         /\ Skins = SkinIds(payload)
         /\ Collections = {s[2] : s \in Skins}
         /\ \A c \in Collections : registry.roster[c] = Roster(payload, c)
         /\ \A s \in Skins : registry.skins[s] = Skin(payload, s)
         /\ registry.extraordinary = {c \in Collections : SkinsAt(c, Extraordinary) # {}}
<1>1. IsFiniteSet(payload) /\ StatedOnce(payload) /\ \A e \in payload : IsEntry(e)
  BY PayloadAssumption DEF RegistryInv
<1> DEFINE skins == [s \in SkinIds(payload) |-> Skin(payload, s)]
           collections == {s[2] : s \in DOMAIN skins}
           extra == {c \in collections : \E s \in DOMAIN skins :
                           skins[s].home = c /\ skins[s].rarity = Extraordinary}
           roster == [c \in collections |-> Roster(payload, c)]
<1>2. registry = [skins |-> skins, roster |-> roster, extraordinary |-> extra]
  BY DEF RegistryInv, Import
<1>3. DOMAIN registry = {"skins", "roster", "extraordinary"}
  BY <1>2
<1>4. registry.skins = skins /\ registry.roster = roster /\ registry.extraordinary = extra
  BY <1>2
<1>5. Skins = SkinIds(payload) /\ \A s \in Skins : registry.skins[s] = Skin(payload, s)
  BY <1>4 DEF Skins
<1>6. Collections = {s[2] : s \in Skins} /\ \A c \in Collections : registry.roster[c] = Roster(payload, c)
  BY <1>4 DEF Collections, Skins
<1>7. registry.extraordinary = {c \in Collections : SkinsAt(c, Extraordinary) # {}}
  BY <1>4 DEF Collections, Skins, SkinsAt
<1> QED
  BY <1>1, <1>3, <1>5, <1>6, <1>7

(* Skin s of the registry is a paint that entry e states.                  *)
Stating(s, e) ==
  /\ e \in payload /\ e \notin Faulty(payload)
  /\ s = <<e.id, s[2]>> /\ s[1] = e.id /\ s[2] \in e.collections /\ s[2] \in Nat /\ e.id \in Nat
  /\ registry.skins[s].home = s[2] /\ registry.skins[s].name = e.name
  /\ registry.skins[s].paint = e.paint /\ registry.skins[s].qualities = e.qualities
  /\ e.rarity = {registry.skins[s].rarity} /\ registry.skins[s].rarity \in Rarities

LEMMA ImportedIs ==
  ASSUME RegistryInv, NEW e \in payload, e \notin Faulty(payload), NEW c \in e.collections
  PROVE  <<e.id, c>> \in Skins /\ Stating(<<e.id, c>>, e)
<1> DEFINE s == <<e.id, c>>
<1>1. IsEntry(e) /\ StatedOnce(payload)
  BY PayloadIs
<1>2. s \in SkinIds(payload)
  BY DEF SkinIds, Usable
<1>3. s \in Skins /\ registry.skins[s] = Skin(payload, s)
  BY <1>2, PayloadIs
<1>4. Entry(payload, s) = e
  <2>1. \E f \in payload : f.id = s[1]
    OBVIOUS
  <2>2. Entry(payload, s) \in payload /\ Entry(payload, s).id = e.id
    BY <2>1 DEF Entry
  <2> QED
    BY <1>1, <2>2 DEF StatedOnce
<1>5. e.rarity # {}
  BY DEF Faulty
<1>6. Only(e.rarity) \in e.rarity /\ e.rarity = {Only(e.rarity)} /\ Only(e.rarity) \in Rarities
  BY <1>1, <1>5 DEF Only, IsEntry
<1>7. c \in Nat /\ e.id \in Nat
  BY <1>1 DEF IsEntry
<1>8. registry.skins[s] = [home |-> c, name |-> e.name, paint |-> e.paint, rarity |-> Only(e.rarity),
                           range |-> Only(e.range), qualities |-> e.qualities]
  BY <1>3, <1>4 DEF Skin
<1> QED
  BY <1>3, <1>6, <1>7, <1>8 DEF Stating

LEMMA SkinIsStated ==
  ASSUME RegistryInv, NEW s \in Skins
  PROVE  \E e \in payload : Stating(s, e)
<1>1. s \in SkinIds(payload)
  BY PayloadIs
<1>2. PICK e \in Usable(payload) : \E c \in e.collections : s = <<e.id, c>>
  BY <1>1 DEF SkinIds
<1>3. PICK c \in e.collections : s = <<e.id, c>>
  BY <1>2
<1>4. e \in payload /\ e \notin Faulty(payload)
  BY DEF Usable
<1> QED
  BY <1>3, <1>4, ImportedIs

LEMMA SkinsFinite ==
  ASSUME RegistryInv
  PROVE  IsFiniteSet(Skins)
<1> DEFINE ids == [e \in Usable(payload) |-> {<<e.id, c>> : c \in e.collections}]
<1>1. IsFiniteSet(Usable(payload))
  BY PayloadIs, FS_Subset DEF Usable
<1>2. ASSUME NEW e \in Usable(payload) PROVE IsFiniteSet(ids[e])
  <2>1. IsFiniteSet(e.collections)
    BY PayloadIs DEF Usable, IsEntry
  <2> DEFINE f == [c \in e.collections |-> <<e.id, c>>]
  <2>2. IsFiniteSet({f[c] : c \in e.collections})
    BY <2>1, ImageFinite
  <2>3. {f[c] : c \in e.collections} = ids[e]
    OBVIOUS
  <2> QED
    BY <2>2, <2>3
<1>3. Skins = UNION {ids[e] : e \in Usable(payload)}
  BY PayloadIs DEF SkinIds
<1> HIDE DEF ids
<1>4. IsFiniteSet({ids[e] : e \in Usable(payload)})
  BY <1>1, ImageFinite
<1> QED
  BY <1>2, <1>3, <1>4, FS_UNION

(* The registry's own checks never fail on what was imported.              *)
LEMMA ImportIsValid == RegistryInv => RequireValid
<1> SUFFICES ASSUME RegistryInv PROVE RequireValid
  OBVIOUS
<1>1. \A s \in Skins : registry.skins[s].home = s[2] /\ s[2] \in Collections
  BY SkinIsStated, PayloadIs DEF Stating
<1>2. \A c \in Collections : registry.roster[c] = {s \in Skins : s[2] = c}
  BY PayloadIs DEF Roster
<1>3. \A d \in Collections : Members(d) \subseteq registry.roster[d]
  BY <1>1, <1>2 DEF Members
<1>4. \A d \in registry.extraordinary : SkinsAt(d, Extraordinary) # {}
  BY PayloadIs
<1> QED
  BY <1>1, <1>2, <1>3, <1>4 DEF RequireValid, Errors

(* Nothing is left out of what is stated without a fault.                  *)
LEMMA ImportFaithful == RegistryInv => ImportIsFaithful
<1> SUFFICES ASSUME RegistryInv, Faulty(payload) = {},
                    NEW e \in payload, NEW c \in e.collections, NEW r \in e.rarity
             PROVE  /\ <<e.id, c>> \in OutputPool(c, r - 1) \/ r = 1
                    /\ Cardinality(SkinsAt(c, r))
                         = Cardinality({f \in payload : c \in f.collections /\ r \in f.rarity})
  BY ImportIsValid DEF ImportIsFaithful
<1>1. r \in Rarities /\ r - 1 + 1 = r
  BY PayloadIs DEF IsEntry, Rarities
<1>2. <<e.id, c>> \in SkinsAt(c, r)
  <2>1. <<e.id, c>> \in Skins /\ Stating(<<e.id, c>>, e)
    BY ImportedIs
  <2> QED
    BY <2>1 DEF Stating, SkinsAt
<1>3. <<e.id, c>> \in OutputPool(c, r - 1)
  BY <1>1, <1>2 DEF OutputPool
<1> DEFINE F == {f \in payload : c \in f.collections /\ r \in f.rarity}
           S == SkinsAt(c, r)
           g == [f \in F |-> <<f.id, c>>]
<1>4. \A f \in F : g[f] \in S
  <2> SUFFICES ASSUME NEW f \in F PROVE g[f] \in S
    OBVIOUS
  <2>1. <<f.id, c>> \in Skins /\ Stating(<<f.id, c>>, f)
    BY ImportedIs
  <2> QED
    BY <2>1 DEF Stating, SkinsAt
<1>5. \A s \in S : \E f \in F : g[f] = s
  <2> SUFFICES ASSUME NEW s \in S PROVE \E f \in F : g[f] = s
    OBVIOUS
  <2>1. s \in Skins /\ registry.skins[s].home = c /\ registry.skins[s].rarity = r
    BY DEF SkinsAt
  <2>2. PICK f \in payload : Stating(s, f)
    BY <2>1, SkinIsStated
  <2> QED
    BY <2>1, <2>2 DEF Stating
<1>6. \A f, h \in F : g[f] = g[h] => f = h
  <2>1. StatedOnce(payload)
    BY PayloadIs
  <2> QED
    BY <2>1 DEF StatedOnce
<1>7. IsFiniteSet(F)
  BY PayloadIs, FS_Subset
<1> HIDE DEF S
<1>8. g \in Bijection(F, S)
  <2> HIDE DEF F
  <2>1. g \in [F -> S]
    BY <1>4
  <2> HIDE DEF g
  <2> QED
    BY <2>1, <1>5, <1>6 DEF Bijection, Injection, Surjection, IsInjective
<1>9. Cardinality(S) = Cardinality(F)
  <2> HIDE DEF F, g
  <2>1. ExistsBijection(F, S)
    BY <1>8 DEF ExistsBijection
  <2> QED
    BY <1>7, <2>1, FS_Bijection
<1> QED
  BY <1>3, <1>9 DEF S

(* The row of an item resolves to its own skin or to none.                 *)
LEMMA IdentityCertain == RegistryInv => IdentityIsNeverGuessed
<1> SUFFICES ASSUME RegistryInv, NEW e \in payload, NEW r \in e.rarity, NEW q \in e.qualities,
                    e.paint # {},
                    \A f \in {f \in payload : f.name = e.name /\ f.id # e.id} : f.paint \notin {{}, e.paint}
             PROVE  Identify([name |-> e.name, paint |-> e.paint, rarity |-> r, quality |-> q])
                      = IF Cardinality({s \in Skins : s[1] = e.id}) = 1 THEN {s \in Skins : s[1] = e.id} ELSE {}
  BY DEF IdentityIsNeverGuessed
<1> DEFINE row == [name |-> e.name, paint |-> e.paint, rarity |-> r, quality |-> q]
           own == {s \in Skins : s[1] = e.id}
           stated == {s \in SkinsNamed(row.name) : registry.skins[s].paint # {}}
           named == IF row.paint # {} /\ stated # {} THEN {s \in stated : registry.skins[s].paint = row.paint}
                    ELSE SkinsNamed(row.name)
           found == {s \in named : /\ registry.skins[s].rarity = row.rarity
                                   /\ row.quality \in registry.skins[s].qualities}
<1>0. row.name = e.name /\ row.paint = e.paint /\ row.rarity = r /\ row.quality = q
  OBVIOUS
<1>1. ASSUME NEW s \in own
      PROVE  /\ registry.skins[s].name = e.name /\ registry.skins[s].paint = e.paint
             /\ registry.skins[s].rarity = r /\ q \in registry.skins[s].qualities
  <2>1. PICK f \in payload : Stating(s, f)
    BY SkinIsStated
  <2>2. f = e
    BY <2>1, PayloadIs DEF Stating, StatedOnce
  <2> QED
    BY <2>1, <2>2 DEF Stating
<1>2. ASSUME NEW s \in SkinsNamed(e.name), s \notin own
      PROVE  registry.skins[s].paint \notin {{}, e.paint}
  <2>1. PICK f \in payload : Stating(s, f)
    BY SkinIsStated DEF SkinsNamed
  <2>2. s \in Skins /\ f.name = e.name /\ f.id # e.id
    BY <1>2, <2>1 DEF Stating, SkinsNamed
  <2> QED
    BY <2>1, <2>2 DEF Stating
<1>3. own \subseteq SkinsNamed(e.name)
  BY <1>1 DEF SkinsNamed
<1>4. stated = SkinsNamed(e.name)
  BY <1>0, <1>1, <1>2
<1>5. found = own
  <2>1. CASE stated = {}
    BY <1>0, <1>3, <1>4, <2>1
  <2>2. CASE stated # {}
    <3>1. named = own
      BY <1>0, <1>1, <1>2, <1>3, <1>4, <2>2
    <3> QED
      BY <1>0, <1>1, <3>1
  <2> QED
    BY <2>1, <2>2
<1>6. Identify(row) = IF Cardinality(found) = 1 THEN found ELSE {}
  BY DEF Identify
<1> HIDE DEF found, own, row
<1>7. Identify(row) = IF Cardinality(own) = 1 THEN own ELSE {}
  BY <1>5, <1>6
<1> QED
  BY <1>7 DEF own, row

-----------------------------------------------------------------------------
(* What is on sale, cheapest first.                                        *)

(* Offers of one collection: told apart by the skin and its copy. *)
AreOffers(O) ==
  /\ IsFiniteSet(O)
  /\ \A o \in O : o.price \in Nat /\ o.skin[1] \in Nat /\ o.nth \in Nat
  /\ \A o, p \in O : o.skin[1] = p.skin[1] /\ o.nth = p.nth => o = p

AheadIn(O) == {p \in O \X O : Ahead(p[1], p[2])}

LEMMA SomeOffers ==
  ASSUME NEW O, AreOffers(O), NEW P \in SUBSET O
  PROVE  AreOffers(P) /\ IsFiniteSet(P) /\ Cardinality(P) \in Nat /\ Cardinality(P) <= Cardinality(O)
<1>1. IsFiniteSet(P) /\ Cardinality(P) <= Cardinality(O)
  BY FS_Subset DEF AreOffers
<1> QED
  BY <1>1, FS_CardinalityType DEF AreOffers

LEMMA AheadOrders ==
  ASSUME NEW O, AreOffers(O)
  PROVE  /\ Orders(AheadIn(O), O)
         /\ \A n \in Nat : CheapestUnits(O, n) = First(O, AheadIn(O), n)
         /\ \A o, p \in O : <<o, p>> \in AheadIn(O) => o.price <= p.price
<1>1. \A o \in O : o.price \in Nat /\ o.skin[1] \in Nat /\ o.nth \in Nat /\ ~Ahead(o, o)
  BY DEF AreOffers, Ahead
<1>2. Orders(AheadIn(O), O)
  <2>1. ASSUME NEW x \in O, NEW y \in O, x # y
        PROVE  <<x, y>> \in AheadIn(O) <=> <<y, x>> \notin AheadIn(O)
    <3>1. ~(x.skin[1] = y.skin[1] /\ x.nth = y.nth)
      BY <2>1 DEF AreOffers
    <3>2. Ahead(x, y) <=> ~Ahead(y, x)
      BY <1>1, <3>1 DEF Ahead
    <3> QED
      BY <3>2 DEF AheadIn
  <2>2. ASSUME NEW x \in O, NEW y \in O, NEW z \in O, <<x, y>> \in AheadIn(O), <<y, z>> \in AheadIn(O)
        PROVE  <<x, z>> \in AheadIn(O)
    <3>1. Ahead(x, y) /\ Ahead(y, z)
      BY <2>2 DEF AheadIn
    <3>2. Ahead(x, z)
      BY <1>1, <3>1 DEF Ahead
    <3> QED
      BY <3>2 DEF AheadIn
  <2> QED
    BY <2>1, <2>2 DEF Orders
<1>3. \A o \in O : {p \in O : Ahead(p, o)} = Below(O, AheadIn(O), o)
  BY <1>1 DEF Below, AheadIn
<1>4. \A n \in Nat : CheapestUnits(O, n) = First(O, AheadIn(O), n)
  BY <1>3 DEF CheapestUnits, First
<1>5. \A o, p \in O : <<o, p>> \in AheadIn(O) => o.price <= p.price
  BY <1>1 DEF AheadIn, Ahead
<1> QED
  BY <1>2, <1>4, <1>5

LEMMA CheapestIs ==
  ASSUME NEW O, AreOffers(O), NEW n \in Nat
  PROVE  /\ CheapestUnits(O, n) \in SUBSET O /\ AreOffers(CheapestUnits(O, n))
         /\ Cardinality(CheapestUnits(O, n)) = IF n <= Cardinality(O) THEN n ELSE Cardinality(O)
         /\ Cardinality(O) <= n => CheapestUnits(O, n) = O
<1>1. /\ First(O, AheadIn(O), n) \in SUBSET O
      /\ Cardinality(First(O, AheadIn(O), n)) = IF n <= Cardinality(O) THEN n ELSE Cardinality(O)
      /\ Cardinality(O) <= n => First(O, AheadIn(O), n) = O
  BY AheadOrders, FirstIs DEF AreOffers
<1>2. CheapestUnits(O, n) = First(O, AheadIn(O), n)
  BY AheadOrders
<1>3. AreOffers(CheapestUnits(O, n))
  BY <1>1, <1>2, SomeOffers
<1> QED
  BY <1>1, <1>2, <1>3

LEMMA BillIs ==
  ASSUME NEW O, AreOffers(O), NEW P \in SUBSET O
  PROVE  Bill(P) = SumOver(P, [u \in O |-> u.price]) /\ Bill(P) \in Nat
<1> DEFINE f == [u \in O |-> u.price]
           g == [u \in P |-> u.price]
<1>1. IsFiniteSet(P) /\ \A u \in P : g[u] = f[u] /\ g[u] \in Nat
  BY SomeOffers DEF AreOffers
<1> HIDE DEF f, g
<1>2. SumOver(P, g) = SumOver(P, f) /\ SumOver(P, g) \in Nat
  BY <1>1, SumSame, SumNat
<1> QED
  BY <1>2 DEF Bill, f, g

(* The cheapest n are the least bill for n.                                *)
LEMMA BillLeast ==
  ASSUME NEW O, AreOffers(O), NEW T \in SUBSET O, NEW n \in Nat, n <= Cardinality(T)
  PROVE  Bill(CheapestUnits(O, n)) <= Bill(T)
<1> DEFINE f == [u \in O |-> u.price]
           F == First(O, AheadIn(O), n)
<1>1. /\ IsFiniteSet(O) /\ Orders(AheadIn(O), O) /\ CheapestUnits(O, n) = F
      /\ \A o, p \in O : <<o, p>> \in AheadIn(O) => f[o] <= f[p]
      /\ \A o \in O : f[o] \in Nat
  BY AheadOrders DEF AreOffers
<1>2. Bill(T) = SumOver(T, f)
  BY BillIs
<1>3. Bill(CheapestUnits(O, n)) = SumOver(CheapestUnits(O, n), f)
  <2>1. CheapestUnits(O, n) \in SUBSET O
    BY CheapestIs
  <2> QED
    BY <2>1, BillIs
<1> HIDE DEF f
<1>4. SumOver(F, f) <= SumOver(T, f)
  BY <1>1, FirstIsLeast
<1> QED
  BY <1>1, <1>2, <1>3, <1>4

(* ... also when they are taken from the cheapest of a contract's worth.   *)
LEMMA TakenLeast ==
  ASSUME NEW O, AreOffers(O), NEW size \in Nat, NEW k \in Nat, k <= size,
         NEW T \in SUBSET O, Cardinality(T) = k
  PROVE  /\ k <= Cardinality(CheapestUnits(O, size))
         /\ Bill(CheapestUnits(CheapestUnits(O, size), k)) <= Bill(T)
<1> DEFINE stock == CheapestUnits(O, size)
           Q == CheapestUnits(O, k)
<1>1. Cardinality(T) <= Cardinality(O) /\ Cardinality(O) \in Nat
  BY SomeOffers
<1>2. /\ stock \in SUBSET O /\ AreOffers(stock)
      /\ Cardinality(stock) = IF size <= Cardinality(O) THEN size ELSE Cardinality(O)
  BY CheapestIs
<1>3. Q \in SUBSET O /\ Cardinality(Q) = k
  BY <1>1, CheapestIs
<1>4. Q \in SUBSET stock
  <2> SUFFICES ASSUME NEW o \in O, Cardinality({p \in O : Ahead(p, o)}) < k
               PROVE  Cardinality({p \in O : Ahead(p, o)}) < size
    BY DEF CheapestUnits
  <2>1. Cardinality({p \in O : Ahead(p, o)}) \in Nat
    <3>1. {p \in O : Ahead(p, o)} \in SUBSET O
      OBVIOUS
    <3> QED
      BY <3>1, SomeOffers
  <2> QED
    BY <2>1
<1> HIDE DEF stock, Q
<1>5. Bill(CheapestUnits(stock, k)) <= Bill(Q)
  BY <1>2, <1>3, <1>4, BillLeast
<1>6. Bill(Q) <= Bill(T)
  BY BillLeast DEF Q
<1>7. Bill(CheapestUnits(stock, k)) \in Nat /\ Bill(Q) \in Nat /\ Bill(T) \in Nat
  <2>1. CheapestUnits(stock, k) \in SUBSET stock
    BY <1>2, CheapestIs
  <2> QED
    BY <1>2, <1>3, <2>1, BillIs
<1> QED
  BY <1>1, <1>2, <1>5, <1>6, <1>7 DEF stock

-----------------------------------------------------------------------------
(* What a sweep shows depends on the registry, the quotes and the haircuts. *)
CellOf(rule, asks, at, haircuts, r, q, w) ==
  [rarity |-> r, size |-> rule.counts[r], quality |-> q, wear |-> w, asks |-> asks, at |-> at, haircut |-> haircuts[q]]

Sketched(cell) == Pure(cell, Stock(cell)) \cup Mixed(cell, Stock(cell)) \cup Unsupported(cell)

LEMMA SweepSame ==
  ASSUME registry' = registry, NEW rule, NEW asks, NEW at, NEW haircuts
  PROVE  SweepProspects(rule, asks, at, haircuts)' = SweepProspects(rule, asks, at, haircuts)
<1>1. Skins' = Skins /\ Collections' = Collections
  BY DEF Skins, Collections
<1>2. \A c, r : SkinsAt(c, r)' = SkinsAt(c, r) /\ OutputPool(c, r)' = OutputPool(c, r)
  BY <1>1 DEF SkinsAt, OutputPool
<1>3. \A s, q, w : FloatRange(s)' = FloatRange(s) /\ Name(s, q, w)' = Name(s, q, w)
  BY DEF FloatRange, Name
<1>4. \A cell, c : Eligible(cell, c)' = Eligible(cell, c)
  BY <1>2 DEF Eligible, EligibleInputs
<1>5. \A cell, c : Supported(cell, c)' <=> Supported(cell, c)
  BY <1>2 DEF Supported
<1>6. \A cell : Eligibles(cell)' = Eligibles(cell)
  BY <1>1, <1>2 DEF Eligibles
<1>7. \A cell : Considered(cell)' = Considered(cell)
  BY <1>4, <1>5, <1>6 DEF Considered
<1>8. \A cell, s : Quote(cell, s)' = Quote(cell, s)
  BY <1>3 DEF Quote
<1>9. \A cell, c : Purchasable(cell, c)' = Purchasable(cell, c)
  BY <1>3, <1>4, <1>8 DEF Purchasable
<1>10. \A cell, c : Offers(cell, c)' = Offers(cell, c)
  BY <1>3, <1>8, <1>9 DEF Offers
<1>11. \A cell : Stock(cell)' = Stock(cell)
  BY <1>7, <1>10 DEF Stock, Units
<1>12. \A cell, counts : /\ Pools(cell, counts)' = Pools(cell, counts) /\ Size(cell, counts)' = Size(cell, counts)
                         /\ Results(cell, counts)' = Results(cell, counts)
  BY <1>2 DEF Pools, Size, Results
<1>13. \A cell, counts, c : Weight(cell, counts, c)' = Weight(cell, counts, c)
  BY <1>12 DEF Weight
<1>14. \A cell, y, total : Made(cell, y, total)' = Made(cell, y, total)
  BY <1>3 DEF Made
<1>15. \A cell, counts, total : Unvalued(cell, counts, total)' = Unvalued(cell, counts, total)
  BY <1>12, <1>14 DEF Unvalued
<1>16. \A cell, counts, results : MassOf(cell, counts, results)' = MassOf(cell, counts, results)
  BY <1>13 DEF MassOf
<1>17. \A cell, counts, total, results :
         Gross(cell, counts, total, results)' = Gross(cell, counts, total, results)
  BY <1>13, <1>14 DEF Gross
<1>18. \A cell, counts, total :
         /\ Value(cell, counts, total)' = Value(cell, counts, total)
         /\ FeeUnknown(cell, counts, total)' <=> FeeUnknown(cell, counts, total)
         /\ TooUnpriced(cell, counts, total)' <=> TooUnpriced(cell, counts, total)
  BY <1>12, <1>14, <1>15, <1>16, <1>17 DEF Value, FeeUnknown, TooUnpriced
<1>19. \A cell, taken, counts : Sketch(cell, taken, counts)' = Sketch(cell, taken, counts)
  BY <1>18 DEF Sketch
<1>20. \A cell : Unsupported(cell)' = Unsupported(cell)
  BY <1>5, <1>6 DEF Unsupported
<1>21. \A cell, stock : Pure(cell, stock)' = Pure(cell, stock) /\ Mixed(cell, stock)' = Mixed(cell, stock)
  BY <1>19 DEF Pure, Mixed
<1>22. \A cell : Sketched(cell)' = Sketched(cell)
  BY <1>11, <1>20, <1>21 DEF Sketched
<1> DEFINE cellOf(r, q, w) == CellOf(rule, asks, at, haircuts, r, q, w)
           W == UNION {Sketched(cellOf(r, q, w)) : r \in DOMAIN rule.counts, q \in DOMAIN haircuts, w \in Wears}
<1>23. W = SweepProspects(rule, asks, at, haircuts)
  BY DEF SweepProspects, Sketched, CellOf
<1>24. W' = SweepProspects(rule, asks, at, haircuts)'
  BY DEF SweepProspects, Sketched, CellOf
<1>25. W' = W
  BY <1>22
<1> HIDE DEF W
<1> QED
  BY <1>23, <1>24, <1>25

-----------------------------------------------------------------------------
(* What the search keeps to, step by step.                                 *)
BoardInv ==
  board # {} =>
    /\ quotes \in Catalogues
    /\ \E rule \in Resolve(quotes.at) : board = SweepProspects(rule, quotes.asks, quotes.at, Haircuts)

DiscoveryInv == RegistryInv /\ EvidenceInv /\ BoardInv

(* Haircuts follow the history alone.                                      *)
LEMMA HaircutsSame == rows' = rows => Haircuts' = Haircuts
<1> SUFFICES ASSUME rows' = rows PROVE Haircuts' = Haircuts
  OBVIOUS
<1>1. \A q : Applied(q)' = Applied(q)
  BY DEF Applied
<1> QED
  BY <1>1 DEF Haircuts

LEMMA BoardStays ==
  ASSUME BoardInv, registry' = registry, rows' = rows, quotes' = quotes, board' = board
  PROVE  BoardInv'
<1> SUFFICES ASSUME board # {} PROVE BoardInv'
  BY DEF BoardInv
<1>1. PICK rule \in Resolve(quotes.at) : board = SweepProspects(rule, quotes.asks, quotes.at, Haircuts)
  BY DEF BoardInv
<1>2. Haircuts' = Haircuts
  BY HaircutsSame
<1> DEFINE asks == quotes.asks
           at == quotes.at
<1>3. SweepProspects(rule, asks, at, Haircuts)' = SweepProspects(rule, asks, at, Haircuts)
  BY <1>2, SweepSame
<1> QED
  BY <1>1, <1>3 DEF BoardInv

LEMMA DiscoveryStarts == DiscoveryInit => DiscoveryInv
<1> SUFFICES ASSUME DiscoveryInit PROVE DiscoveryInv
  OBVIOUS
<1>1. EvidenceInv
  BY EvidenceStarts DEF DiscoveryInit
<1> QED
  BY <1>1 DEF DiscoveryInit, DiscoveryInv, RegistryInv, BoardInv

(* A batch forgets what was swept; all that moves the haircuts is a batch.  *)
LEMMA DiscoveryKept == DiscoveryInv /\ [DiscoveryNext]_discoveryVars => DiscoveryInv'
<1> SUFFICES ASSUME DiscoveryInv, [DiscoveryNext]_discoveryVars PROVE DiscoveryInv'
  OBVIOUS
<1>0. RegistryInv /\ EvidenceInv /\ BoardInv
  BY DEF DiscoveryInv
<1>1. registry' = registry /\ RegistryInv'
  <2>1. registry' = registry /\ payload' = payload
    BY DEF DiscoveryNext, discoveryVars, SweepAgain, SweptBatch, Drift
  <2>2. Import(payload)' = Import(payload)
    BY <2>1
  <2> QED
    BY <1>0, <2>1, <2>2 DEF RegistryInv
<1>2. CASE SweepAgain
  <2>1. rows' = rows /\ EvidenceInv'
    BY <1>0, <1>2 DEF SweepAgain, EvidenceInv
  <2>2. PICK catalogue \in Catalogues : \E rule \in Resolve(catalogue.at) :
          quotes' = catalogue /\ board' = SweepProspects(rule, catalogue.asks, catalogue.at, Haircuts)
    BY <1>2 DEF SweepAgain
  <2> DEFINE asks == catalogue.asks
             at == catalogue.at
  <2>3. PICK rule \in Resolve(at) : quotes' = catalogue /\ board' = SweepProspects(rule, asks, at, Haircuts)
    BY <2>2
  <2>4. SweepProspects(rule, asks, at, Haircuts)' = SweepProspects(rule, asks, at, Haircuts)
    BY <1>1, <2>1, HaircutsSame, SweepSame
  <2>5. BoardInv'
    BY <2>3, <2>4 DEF BoardInv
  <2> QED
    BY <1>1, <2>1, <2>5 DEF DiscoveryInv
<1>3. CASE SweptBatch
  <2>1. EvidenceInv'
    BY <1>0, <1>3, EvidenceBatch DEF SweptBatch
  <2>2. BoardInv'
    BY <1>3 DEF SweptBatch, BoardInv
  <2> QED
    BY <1>1, <2>1, <2>2 DEF DiscoveryInv
<1>4. CASE Drift \/ UNCHANGED discoveryVars
  <2>1. EvidenceInv'
    <3>1. CASE Drift
      BY <1>0, <3>1, EvidenceDrifts DEF Drift
    <3>2. CASE UNCHANGED discoveryVars
      BY <1>0, <3>2 DEF discoveryVars, EvidenceInv
    <3> QED
      BY <1>4, <3>1, <3>2
  <2>2. rows' = rows /\ quotes' = quotes /\ board' = board
    BY <1>4 DEF Drift, MarketMoves, discoveryVars
  <2>3. BoardInv'
    BY <1>0, <1>1, <2>2, BoardStays
  <2> QED
    BY <1>1, <2>1, <2>3 DEF DiscoveryInv
<1> QED
  BY <1>2, <1>3, <1>4 DEF DiscoveryNext

LEMMA DiscoveryInvariant == DiscoverySpec => []DiscoveryInv
<1>1. DiscoveryInit => DiscoveryInv
  BY DiscoveryStarts
<1>2. DiscoveryInv /\ [DiscoveryNext]_discoveryVars => DiscoveryInv'
  BY DiscoveryKept
<1> QED
  BY <1>1, <1>2, PTL DEF DiscoverySpec

-----------------------------------------------------------------------------
(* What a cell of the sweep is, and what is on sale in it.                 *)
IsCell(cell) ==
  /\ cell.rarity \in Rarities /\ cell.size \in Nat \ {0} /\ cell.quality \in Quality /\ cell.wear \in Wears
  /\ \A n \in DOMAIN cell.asks : cell.asks[n].price \in Nat /\ cell.asks[n].units \in Nat
  /\ cell.haircut \in 0..99

LEMMA PoolIs ==
  ASSUME RegistryInv, NEW c, NEW r
  PROVE  /\ IsFiniteSet(SkinsAt(c, r)) /\ IsFiniteSet(OutputPool(c, r))
         /\ \A s \in SkinsAt(c, r) : s \in Skins /\ s[2] = c /\ registry.skins[s].home = c /\ registry.skins[s].rarity = r
         /\ \A s \in OutputPool(c, r) : /\ s \in Skins /\ registry.skins[s].home = c
                                        /\ registry.skins[s].rarity = r + 1
<1>1. SkinsAt(c, r) \in SUBSET Skins /\ OutputPool(c, r) \in SUBSET Skins
  BY DEF SkinsAt, OutputPool
<1>2. IsFiniteSet(SkinsAt(c, r)) /\ IsFiniteSet(OutputPool(c, r))
  BY <1>1, SkinsFinite, FS_Subset
<1>3. \A s \in Skins : registry.skins[s].home = s[2]
  BY SkinIsStated DEF Stating
<1> QED
  BY <1>2, <1>3 DEF SkinsAt, OutputPool

LEMMA OffersAre ==
  ASSUME RegistryInv, NEW cell, IsCell(cell), NEW c
  PROVE  AreOffers(Offers(cell, c)) /\ \A o \in Offers(cell, c) : o.skin[2] = c
<1> DEFINE P == Purchasable(cell, c)
           units == [s \in P |-> {s} \X (1..Quote(cell, s).units)]
           pairs == UNION {units[s] : s \in P}
           offer == [p \in pairs |-> [skin |-> p[1], nth |-> p[2], price |-> Quote(cell, p[1]).price,
                                      z |-> Assumed(FloatRange(p[1]), cell.wear)]]
<1>1. P \in SUBSET SkinsAt(c, cell.rarity)
  BY DEF Purchasable, Eligible, EligibleInputs
<1>2. IsFiniteSet(P) /\ \A s \in P : s \in Skins /\ s[2] = c
  BY <1>1, PoolIs, FS_Subset
<1>3. \A s \in P : Quote(cell, s).price \in Nat /\ Quote(cell, s).units \in Nat
  BY DEF Purchasable, Quote, IsCell
<1>4. ASSUME NEW s \in P PROVE IsFiniteSet(units[s])
  <2>1. IsFiniteSet(1..Quote(cell, s).units)
    BY <1>3, FS_Interval
  <2>2. IsFiniteSet({s})
    BY FS_Singleton
  <2> QED
    BY <2>1, <2>2, FS_Product
<1>5. \A p \in pairs : p[1] \in P /\ p[2] \in 1..Quote(cell, p[1]).units /\ p = <<p[1], p[2]>>
  OBVIOUS
<1>6. pairs = UNION {{s} \X (1..Quote(cell, s).units) : s \in P}
  OBVIOUS
<1> HIDE DEF units
<1>7. IsFiniteSet(pairs)
  <2>1. IsFiniteSet({units[s] : s \in P})
    BY <1>2, ImageFinite
  <2> QED
    BY <1>4, <2>1, FS_UNION
<1> HIDE DEF pairs, P
<1>8. Offers(cell, c) = {offer[p] : p \in pairs}
  BY <1>6 DEF Offers, P
<1>9. IsFiniteSet(Offers(cell, c))
  <2> HIDE DEF offer
  <2> QED
    BY <1>7, <1>8, ImageFinite
<1>10. ASSUME NEW o \in Offers(cell, c)
       PROVE  \E p \in pairs : /\ o = offer[p] /\ o.skin = p[1] /\ o.nth = p[2] /\ p[1][2] = c
                               /\ o.price = Quote(cell, p[1]).price /\ o.price \in Nat
                               /\ p[1] \in Skins /\ p[2] \in Nat /\ p = <<p[1], p[2]>>
  <2>1. PICK p \in pairs : o = offer[p]
    BY <1>8
  <2>2. p[1] \in P /\ p[2] \in Nat /\ p = <<p[1], p[2]>>
    BY <1>3, <1>5
  <2> QED
    BY <1>2, <1>3, <2>1, <2>2
<1>11. \A s \in Skins : s = <<s[1], s[2]>> /\ s[1] \in Nat
  BY SkinIsStated DEF Stating
<1>12. \A o \in Offers(cell, c) : o.price \in Nat /\ o.skin[1] \in Nat /\ o.nth \in Nat /\ o.skin[2] = c
  BY <1>10, <1>11
<1>13. ASSUME NEW o \in Offers(cell, c), NEW u \in Offers(cell, c), o.skin[1] = u.skin[1], o.nth = u.nth
       PROVE  o = u
  <2>1. PICK p \in pairs : o = offer[p] /\ o.skin = p[1] /\ o.nth = p[2] /\ p[1][2] = c /\ p[1] \in Skins /\ p = <<p[1], p[2]>>
    BY <1>10
  <2>2. PICK v \in pairs : u = offer[v] /\ u.skin = v[1] /\ u.nth = v[2] /\ v[1][2] = c /\ v[1] \in Skins /\ v = <<v[1], v[2]>>
    BY <1>10
  <2>3. p[1] = v[1]
    BY <1>11, <1>13, <2>1, <2>2
  <2>4. p = v
    BY <1>13, <2>1, <2>2, <2>3
  <2> QED
    BY <2>1, <2>2, <2>4
<1> QED
  BY <1>9, <1>12, <1>13 DEF AreOffers

-----------------------------------------------------------------------------
(* What is sketched, and what a sketch says.                               *)

(* The inputs of counts are on sale, from one collection or from two.      *)
Contracted(cell, counts) ==
  /\ DOMAIN counts \in SUBSET Considered(cell) /\ counts = [c \in DOMAIN counts |-> counts[c]]
  /\ \A c \in DOMAIN counts : counts[c] \in 1..cell.size /\ counts[c] <= Cardinality(Units(cell, c))
  /\ \/ \E c : DOMAIN counts = {c} /\ counts[c] = cell.size
     \/ \E c, d : /\ DOMAIN counts = {c, d} /\ c # d /\ counts[c] + counts[d] = cell.size
                  /\ d \in Fillers(cell, Stock(cell))

All(cell, c) == [d \in {c} |-> cell.size]

LEMMA StockIs ==
  ASSUME RegistryInv, NEW cell, IsCell(cell), NEW c
  PROVE  /\ Units(cell, c) \in SUBSET Offers(cell, c) /\ AreOffers(Units(cell, c))
         /\ Cardinality(Offers(cell, c)) \in Nat
         /\ Cardinality(Units(cell, c)) = IF cell.size <= Cardinality(Offers(cell, c)) THEN cell.size
                                          ELSE Cardinality(Offers(cell, c))
         /\ c \in Considered(cell) => Stock(cell)[c] = Units(cell, c)
         /\ DOMAIN Stock(cell) = Considered(cell)
<1>1. AreOffers(Offers(cell, c)) /\ cell.size \in Nat
  BY OffersAre DEF IsCell
<1>2. Cardinality(Offers(cell, c)) \in Nat
  BY <1>1, FS_CardinalityType DEF AreOffers
<1> QED
  BY <1>1, <1>2, CheapestIs DEF Units, Stock

LEMMA SketchedIs ==
  ASSUME RegistryInv, NEW cell, IsCell(cell), NEW s
  PROVE  s \in Sketched(cell) <=>
           \/ \E c \in Considered(cell) : s = NoSketch(cell, All(cell, c), "depth")
                                          /\ Cardinality(Units(cell, c)) < cell.size
           \/ \E c \in Eligibles(cell) : s = NoSketch(cell, All(cell, c), "rules") /\ ~Supported(cell, c)
           \/ \E counts : Contracted(cell, counts) /\ s = Sketch(cell, Taken(Stock(cell), counts), counts)
<1> DEFINE stock == Stock(cell)
           Sk(counts) == Sketch(cell, Taken(stock, counts), counts)
<1>0. /\ DOMAIN stock = Considered(cell) /\ \A c \in Considered(cell) : stock[c] = Units(cell, c)
      /\ \A c : Cardinality(Units(cell, c)) \in Nat /\ IsFiniteSet(Units(cell, c))
      /\ cell.size \in Nat \ {0}
  BY StockIs DEF IsCell, AreOffers
<1>1. \A c : DOMAIN All(cell, c) = {c} /\ All(cell, c)[c] = cell.size
  BY DEF All
<1>2. s \in Pure(cell, stock) <=>
        \/ \E c \in Considered(cell) : s = NoSketch(cell, All(cell, c), "depth")
                                       /\ Cardinality(Units(cell, c)) < cell.size
        \/ \E c \in Considered(cell) : ~(Cardinality(Units(cell, c)) < cell.size) /\ s = Sk(All(cell, c))
  <2> DEFINE P(c) == IF Cardinality(stock[c]) < cell.size THEN NoSketch(cell, All(cell, c), "depth") ELSE Sk(All(cell, c))
  <2>1. Pure(cell, stock) = {P(c) : c \in DOMAIN stock}
    BY DEF Pure, All
  <2> HIDE DEF Sk
  <2> QED
    BY <1>0, <2>1
<1>3. \A counts : (\E c \in Considered(cell) : ~(Cardinality(Units(cell, c)) < cell.size) /\ counts = All(cell, c))
                    <=> Contracted(cell, counts) /\ \E c : DOMAIN counts = {c} /\ counts[c] = cell.size
  <2>1. ASSUME NEW c \in Considered(cell), ~(Cardinality(Units(cell, c)) < cell.size)
        PROVE  Contracted(cell, All(cell, c))
    <3>1. cell.size <= Cardinality(Units(cell, c)) /\ cell.size \in 1..cell.size
      BY <1>0, <2>1
    <3>2. All(cell, c) = [d \in DOMAIN All(cell, c) |-> All(cell, c)[d]]
      BY DEF All
    <3>3. PICK counts : counts = All(cell, c)
      OBVIOUS
    <3>4. DOMAIN counts = {c} /\ counts[c] = cell.size /\ counts = [d \in DOMAIN counts |-> counts[d]]
      BY <1>1, <3>2, <3>3
    <3>5. DOMAIN counts \in SUBSET Considered(cell)
      BY <3>4
    <3>6. \A d \in DOMAIN counts : counts[d] \in 1..cell.size /\ counts[d] <= Cardinality(Units(cell, d))
      BY <3>1, <3>4
    <3> HIDE DEF stock, Sk
    <3>7. Contracted(cell, counts)
      BY <3>4, <3>5, <3>6 DEF Contracted
    <3> QED
      BY <3>3, <3>7
  <2>2. ASSUME NEW counts, Contracted(cell, counts), NEW c, DOMAIN counts = {c}, counts[c] = cell.size
        PROVE  c \in Considered(cell) /\ ~(Cardinality(Units(cell, c)) < cell.size) /\ counts = All(cell, c)
    <3>1. c \in Considered(cell) /\ cell.size <= Cardinality(Units(cell, c)) /\ counts = [d \in {c} |-> counts[d]]
      BY <2>2 DEF Contracted
    <3>2. [d \in {c} |-> counts[d]] = [d \in {c} |-> cell.size]
      BY <2>2
    <3> QED
      BY <1>0, <3>1, <3>2 DEF All
  <2> QED
    BY <1>1, <2>1, <2>2
<1>4. \A counts : counts \in Splits(cell, stock)
                    <=> Contracted(cell, counts)
                        /\ \E c, d : /\ DOMAIN counts = {c, d} /\ c # d /\ counts[c] + counts[d] = cell.size
                                     /\ d \in Fillers(cell, stock)
  <2>1. Fillers(cell, stock) \in SUBSET Considered(cell)
    BY <1>0 DEF Fillers, Components
  <2> DEFINE G(c, d) == {k \in [{c, d} -> 1..cell.size] :
                           /\ c # d /\ k[c] + k[d] = cell.size
                           /\ k[c] <= Cardinality(stock[c]) /\ k[d] <= Cardinality(stock[d])}
  <2>2. Splits(cell, stock) = UNION {G(c, d) : c \in Components(cell, stock), d \in Fillers(cell, stock)}
    BY DEF Splits
  <2> HIDE DEF G
  <2>3. \A counts : counts \in Splits(cell, stock)
                      <=> \E c \in Components(cell, stock), d \in Fillers(cell, stock) : counts \in G(c, d)
    BY <2>2
  <2>4. ASSUME NEW counts \in Splits(cell, stock)
        PROVE  /\ Contracted(cell, counts)
               /\ \E c, d : /\ DOMAIN counts = {c, d} /\ c # d /\ counts[c] + counts[d] = cell.size
                            /\ d \in Fillers(cell, stock)
    <3>1. PICK c \in Components(cell, stock), d \in Fillers(cell, stock) :
            /\ counts \in [{c, d} -> 1..cell.size]
            /\ c # d /\ counts[c] + counts[d] = cell.size
            /\ counts[c] <= Cardinality(stock[c]) /\ counts[d] <= Cardinality(stock[d])
      BY <2>3 DEF G
    <3>2. c \in Considered(cell) /\ d \in Considered(cell)
      BY <1>0, <2>1 DEF Components
    <3> QED
      BY <1>0, <3>1, <3>2 DEF Contracted
  <2>5. ASSUME NEW counts, Contracted(cell, counts), NEW c, NEW d,
               DOMAIN counts = {c, d}, c # d, counts[c] + counts[d] = cell.size, d \in Fillers(cell, stock)
        PROVE  counts \in Splits(cell, stock)
    <3>1. /\ c \in Considered(cell) /\ d \in Considered(cell) /\ counts \in [{c, d} -> 1..cell.size]
          /\ counts[c] \in 1..cell.size /\ counts[c] <= Cardinality(Units(cell, c)) /\ counts[d] <= Cardinality(Units(cell, d))
      BY <2>5 DEF Contracted
    <3>2. Units(cell, c) # {}
      <4>1. Cardinality(Units(cell, c)) # 0
        BY <1>0, <3>1
      <4> QED
        BY <1>0, <4>1, FS_EmptySet
    <3>3. c \in Components(cell, stock)
      BY <1>0, <3>1, <3>2 DEF Components
    <3> QED
      BY <1>0, <2>5, <2>3, <3>1, <3>3 DEF G
  <2> QED
    BY <2>4, <2>5
<1>5. s \in Mixed(cell, stock) <=> \E counts \in Splits(cell, stock) : s = Sk(counts)
  BY DEF Mixed
<1>6. s \in Unsupported(cell) <=>
        \E c \in Eligibles(cell) : s = NoSketch(cell, All(cell, c), "rules") /\ ~Supported(cell, c)
  BY DEF Unsupported, All
<1>7. Sketched(cell) = Pure(cell, stock) \cup Mixed(cell, stock) \cup Unsupported(cell)
  BY DEF Sketched
<1>8. \A counts : Contracted(cell, counts) =>
        \/ \E c : DOMAIN counts = {c} /\ counts[c] = cell.size
        \/ \E c, d : /\ DOMAIN counts = {c, d} /\ c # d /\ counts[c] + counts[d] = cell.size
                     /\ d \in Fillers(cell, stock)
  BY DEF Contracted
<1>9. \A counts : Sk(counts) = Sketch(cell, Taken(Stock(cell), counts), counts)
  OBVIOUS
<1> HIDE DEF Sk, stock
<1>10. (\/ \E c \in Considered(cell) : ~(Cardinality(Units(cell, c)) < cell.size) /\ s = Sk(All(cell, c))
        \/ \E counts \in Splits(cell, stock) : s = Sk(counts))
       <=> \E counts : Contracted(cell, counts) /\ s = Sk(counts)
  BY <1>3, <1>4, <1>8
<1> QED
  BY <1>2, <1>5, <1>6, <1>7, <1>9, <1>10

LEMMA SketchIs ==
  ASSUME NEW cell, NEW taken, NEW counts, NEW s, s = Sketch(cell, taken, counts)
  PROVE  /\ s.rarity = cell.rarity /\ s.size = cell.size /\ s.quality = cell.quality /\ s.wear = cell.wear
         /\ s.haircut = cell.haircut /\ s.counts = counts
         /\ s.fate \in {"rules", "unpriced", "cost", "lead"}
         /\ s.fate \in {"cost", "lead"} =>
              /\ s.units = taken /\ s.cost = TotalCost(taken) /\ s.value = Value(cell, counts, TotalFloat(taken))
              /\ ~FeeUnknown(cell, counts, TotalFloat(taken)) /\ ~TooUnpriced(cell, counts, TotalFloat(taken))
         /\ s.fate \notin {"cost", "lead"} => s.cost = 0 /\ s.value = 0
         /\ s.fate = "lead" <=> /\ ~FeeUnknown(cell, counts, TotalFloat(taken))
                                /\ ~TooUnpriced(cell, counts, TotalFloat(taken))
                                /\ ~\E cap \in MaxCost : TotalCost(taken) > cap
         /\ s.fate = "rules" <=> FeeUnknown(cell, counts, TotalFloat(taken))
<1> DEFINE total == TotalFloat(taken)
           cost == TotalCost(taken)
           fated(fate) == [NoSketch(cell, counts, fate) EXCEPT
                             !.units = taken, !.cost = cost, !.value = Value(cell, counts, total)]
<1>1. s = IF FeeUnknown(cell, counts, total) THEN NoSketch(cell, counts, "rules")
          ELSE IF TooUnpriced(cell, counts, total) THEN NoSketch(cell, counts, "unpriced")
          ELSE fated(IF \E cap \in MaxCost : cost > cap THEN "cost" ELSE "lead")
  BY DEF Sketch
<1>2. \A fate : LET t == NoSketch(cell, counts, fate) IN
        /\ t.rarity = cell.rarity /\ t.size = cell.size /\ t.quality = cell.quality /\ t.wear = cell.wear
        /\ t.haircut = cell.haircut /\ t.counts = counts /\ t.fate = fate /\ t.cost = 0 /\ t.value = 0
  BY DEF NoSketch
<1>3. \A fate : LET t == fated(fate) IN
        /\ t.rarity = cell.rarity /\ t.size = cell.size /\ t.quality = cell.quality /\ t.wear = cell.wear
        /\ t.haircut = cell.haircut /\ t.counts = counts /\ t.fate = fate
        /\ t.units = taken /\ t.cost = cost /\ t.value = Value(cell, counts, total)
  BY DEF NoSketch
<1> HIDE DEF fated, total, cost
<1>4. CASE FeeUnknown(cell, counts, total)
  BY <1>1, <1>2, <1>4 DEF total
<1>5. CASE ~FeeUnknown(cell, counts, total) /\ TooUnpriced(cell, counts, total)
  BY <1>1, <1>2, <1>5 DEF total
<1>6. CASE ~FeeUnknown(cell, counts, total) /\ ~TooUnpriced(cell, counts, total) /\ \E cap \in MaxCost : cost > cap
  BY <1>1, <1>3, <1>6 DEF total, cost
<1>7. CASE ~FeeUnknown(cell, counts, total) /\ ~TooUnpriced(cell, counts, total) /\ ~\E cap \in MaxCost : cost > cap
  BY <1>1, <1>3, <1>7 DEF total, cost
<1> QED
  BY <1>4, <1>5, <1>6, <1>7

LEMMA NoSketchIs ==
  ASSUME NEW cell, NEW counts, NEW fate, NEW s, s = NoSketch(cell, counts, fate)
  PROVE  /\ s.rarity = cell.rarity /\ s.size = cell.size /\ s.quality = cell.quality /\ s.wear = cell.wear
         /\ s.haircut = cell.haircut /\ s.counts = counts /\ s.fate = fate /\ s.cost = 0 /\ s.value = 0
  BY DEF NoSketch

-----------------------------------------------------------------------------
(* What a contract takes.                                                  *)
LEMMA TakenIs ==
  ASSUME RegistryInv, NEW cell, IsCell(cell), NEW counts, Contracted(cell, counts)
  PROVE  LET taken == Taken(Stock(cell), counts) IN
         /\ DOMAIN taken = DOMAIN counts
         /\ \A c \in DOMAIN counts :
              /\ taken[c] = CheapestUnits(CheapestUnits(Offers(cell, c), cell.size), counts[c])
              /\ taken[c] \in SUBSET Offers(cell, c) /\ AreOffers(taken[c])
              /\ Cardinality(taken[c]) = counts[c]
              /\ taken[c] = {u \in Bought(taken) : u.skin[2] = c}
         /\ \A u \in Bought(taken) : u.skin[2] \in DOMAIN counts
         /\ TotalCost(taken) = Bill(Bought(taken))
<1> DEFINE taken == Taken(Stock(cell), counts)
<1>1. DOMAIN taken = DOMAIN counts
  BY DEF Taken
<1>2. ASSUME NEW c \in DOMAIN counts
      PROVE  /\ taken[c] = CheapestUnits(CheapestUnits(Offers(cell, c), cell.size), counts[c])
             /\ taken[c] \in SUBSET Offers(cell, c) /\ AreOffers(taken[c])
             /\ Cardinality(taken[c]) = counts[c]
             /\ \A u \in taken[c] : u.skin[2] = c
  <2>1. c \in Considered(cell) /\ counts[c] \in Nat /\ counts[c] <= Cardinality(Units(cell, c))
    BY DEF Contracted
  <2>2. taken[c] = CheapestUnits(Units(cell, c), counts[c])
    BY <2>1, StockIs DEF Taken
  <2>3. Units(cell, c) \in SUBSET Offers(cell, c) /\ AreOffers(Units(cell, c))
    BY StockIs
  <2>4. /\ taken[c] \in SUBSET Units(cell, c) /\ AreOffers(taken[c])
        /\ Cardinality(taken[c]) = counts[c]
    BY <2>1, <2>2, <2>3, CheapestIs
  <2> QED
    BY <2>2, <2>3, <2>4, OffersAre DEF Units
<1>3. \A u : u \in Bought(taken) <=> \E c \in DOMAIN counts : u \in taken[c]
  BY <1>1 DEF Bought
<1>4. \A c \in DOMAIN counts : taken[c] = {u \in Bought(taken) : u.skin[2] = c}
  BY <1>2, <1>3
<1>5. \A u \in Bought(taken) : u.skin[2] \in DOMAIN counts
  BY <1>2, <1>3
<1>6. TotalCost(taken) = Bill(Bought(taken))
  BY DEF TotalCost, Bill
<1> QED
  BY <1>1, <1>2, <1>4, <1>5, <1>6

(* A way to buy the inputs, by the collection.                             *)
LEMMA SharesAre ==
  ASSUME RegistryInv, NEW cell, IsCell(cell), NEW K,
         NEW way \in SUBSET UNION {Offers(cell, c) : c \in K}
  PROVE  /\ \A c \in K : /\ {u \in way : u.skin[2] = c} \in SUBSET Offers(cell, c)
                         /\ AreOffers({u \in way : u.skin[2] = c})
         /\ \A u \in way : u.skin[2] \in K
<1>1. \A c : AreOffers(Offers(cell, c)) /\ \A u \in Offers(cell, c) : u.skin[2] = c
  BY OffersAre
<1>2. \A u \in way : \E c \in K : u \in Offers(cell, c)
  OBVIOUS
<1>3. \A c \in K : {u \in way : u.skin[2] = c} \in SUBSET Offers(cell, c)
  BY <1>1, <1>2
<1>4. \A u \in way : u.skin[2] \in K
  BY <1>1, <1>2
<1> QED
  BY <1>1, <1>3, <1>4, SomeOffers

LEMMA BillJoins ==
  ASSUME NEW A, AreOffers(A), NEW B, AreOffers(B), A \cap B = {}
  PROVE  /\ Bill(A \cup B) = Bill(A) + Bill(B) /\ Bill(A) \in Nat /\ Bill(B) \in Nat
         /\ Cardinality(A \cup B) = Cardinality(A) + Cardinality(B)
         /\ IsFiniteSet(A \cup B)
<1> DEFINE f == [u \in A \cup B |-> u.price]
           g == [u \in A |-> u.price]
           h == [u \in B |-> u.price]
<1>1. IsFiniteSet(A) /\ IsFiniteSet(B) /\ \A u \in A \cup B : u.price \in Nat
  BY DEF AreOffers
<1>2. /\ \A u \in A \cup B : f[u] \in Nat
      /\ \A u \in A : g[u] = f[u] /\ g[u] \in Nat
      /\ \A u \in B : h[u] = f[u] /\ h[u] \in Nat
  BY <1>1
<1> HIDE DEF f, g, h
<1>3. SumOver(A \cup B, f) = SumOver(A, f) + SumOver(B, f)
  BY <1>1, <1>2, SumUnion
<1>4. SumOver(A, g) = SumOver(A, f) /\ SumOver(B, h) = SumOver(B, f)
  BY <1>1, <1>2, SumSame
<1>5. SumOver(A, g) \in Nat /\ SumOver(B, h) \in Nat
  BY <1>1, <1>2, SumNat
<1>6. Bill(A \cup B) = SumOver(A \cup B, f) /\ Bill(A) = SumOver(A, g) /\ Bill(B) = SumOver(B, h)
  BY DEF Bill, f, g, h
<1>7. Cardinality(A \cup B) = Cardinality(A) + Cardinality(B) /\ IsFiniteSet(A \cup B)
  <2>1. Cardinality(A \cap B) = 0
    BY FS_EmptySet
  <2>2. Cardinality(A) \in Nat /\ Cardinality(B) \in Nat
    BY <1>1, FS_CardinalityType
  <2>3. /\ IsFiniteSet(A \cup B)
        /\ Cardinality(A \cup B) = Cardinality(A) + Cardinality(B) - Cardinality(A \cap B)
    BY <1>1, FS_Union
  <2> QED
    BY <2>1, <2>2, <2>3
<1> QED
  BY <1>3, <1>4, <1>5, <1>6, <1>7

(* What a contract takes is a way to buy its inputs.                       *)
LEMMA TakenIsAWay ==
  ASSUME RegistryInv, NEW cell, IsCell(cell), NEW counts, Contracted(cell, counts)
  PROVE  LET way == Bought(Taken(Stock(cell), counts))
             K == DOMAIN counts
         IN /\ way \in Ways(cell, K) /\ CountsOf(way, K) = counts
            /\ way \in SUBSET UNION {Offers(cell, c) : c \in K}
            /\ IsFiniteSet(way) /\ Cardinality(way) = cell.size /\ Bill(way) \in Nat
            /\ \A u \in way : u.price \in Nat
<1> DEFINE taken == Taken(Stock(cell), counts)
           way == Bought(taken)
           K == DOMAIN counts
<1>1. /\ DOMAIN taken = K
      /\ \A c \in K : /\ taken[c] \in SUBSET Offers(cell, c) /\ AreOffers(taken[c])
                      /\ Cardinality(taken[c]) = counts[c] /\ taken[c] = {u \in way : u.skin[2] = c}
  BY TakenIs
<1>2. way = UNION {taken[c] : c \in K}
  BY <1>1 DEF Bought
<1>3. /\ cell.size \in Nat /\ counts = [c \in K |-> counts[c]] /\ \A c \in K : counts[c] \in 1..cell.size
      /\ \/ \E c : K = {c} /\ counts[c] = cell.size
         \/ \E c, d : K = {c, d} /\ c # d /\ counts[c] + counts[d] = cell.size
  BY DEF Contracted, IsCell
<1> HIDE DEF taken, way, K
<1>4. /\ IsFiniteSet(way) /\ Cardinality(way) = cell.size /\ Bill(way) \in Nat
      /\ \A u \in way : u.price \in Nat
  <2>1. CASE \E c : K = {c} /\ counts[c] = cell.size
    <3>1. PICK c : K = {c} /\ counts[c] = cell.size
      BY <2>1
    <3>2. way = taken[c] /\ AreOffers(taken[c])
      BY <1>1, <1>2, <3>1
    <3> QED
      BY <1>1, <3>1, <3>2, BillIs DEF AreOffers
  <2>2. CASE \E c, d : K = {c, d} /\ c # d /\ counts[c] + counts[d] = cell.size
    <3>1. PICK c, d : K = {c, d} /\ c # d /\ counts[c] + counts[d] = cell.size
      BY <2>2
    <3>2. way = taken[c] \cup taken[d] /\ taken[c] \cap taken[d] = {}
      BY <1>1, <1>2, <3>1
    <3>3. /\ AreOffers(taken[c]) /\ AreOffers(taken[d])
          /\ Cardinality(taken[c]) = counts[c] /\ Cardinality(taken[d]) = counts[d]
      BY <1>1, <3>1
    <3>4. /\ Bill(way) = Bill(taken[c]) + Bill(taken[d]) /\ Bill(taken[c]) \in Nat /\ Bill(taken[d]) \in Nat
          /\ Cardinality(way) = counts[c] + counts[d] /\ IsFiniteSet(way)
      BY <3>2, <3>3, BillJoins
    <3> QED
      BY <3>1, <3>2, <3>3, <3>4 DEF AreOffers
  <2> QED
    BY <1>3, <2>1, <2>2
<1>5. way \in SUBSET UNION {Offers(cell, c) : c \in K}
  BY <1>1, <1>2
<1>6. \A c \in K : \E u \in way : u.skin[2] = c
  <2> SUFFICES ASSUME NEW c \in K PROVE \E u \in way : u.skin[2] = c
    OBVIOUS
  <2>1. Cardinality(taken[c]) # 0
    BY <1>1, <1>3
  <2>2. taken[c] # {}
    BY <2>1, FS_EmptySet
  <2> QED
    BY <1>1, <2>2
<1>7. way \in Ways(cell, K)
  BY <1>4, <1>5, <1>6 DEF Ways, kSubset
<1>8. CountsOf(way, K) = counts
  <2>1. \A c \in K : Cardinality({u \in way : u.skin[2] = c}) = counts[c]
    BY <1>1
  <2> QED
    BY <1>3, <2>1 DEF CountsOf
<1> QED
  BY <1>4, <1>5, <1>7, <1>8 DEF way, K, taken

-----------------------------------------------------------------------------
(* What is sketched and what it costs.                                     *)

(* Every way to buy a contract's inputs is one the sweep looks at, at no    *)
(* more than it costs.                                                     *)
LEMMA WaySketched ==
  ASSUME RegistryInv, NEW cell, IsCell(cell), NEW c \in Considered(cell), NEW d \in Considered(cell),
         c = d \/ {c, d} \cap Fillers(cell, Stock(cell)) # {}, NEW way \in Ways(cell, {c, d})
  PROVE  LET counts == CountsOf(way, {c, d}) IN
         /\ Contracted(cell, counts)
         /\ TotalCost(Taken(Stock(cell), counts)) <= Bill(way)
<1> DEFINE K == {c, d}
           counts == CountsOf(way, K)
           share == [k \in K |-> {u \in way : u.skin[2] = k}]
           taken == Taken(Stock(cell), counts)
<1>1. /\ way \in SUBSET UNION {Offers(cell, k) : k \in K} /\ Cardinality(way) = cell.size
      /\ \A k \in K : \E u \in way : u.skin[2] = k
  BY DEF Ways, kSubset
<1>2. /\ DOMAIN counts = K /\ counts = [k \in DOMAIN counts |-> counts[k]]
      /\ \A k \in K : counts[k] = Cardinality(share[k])
  BY DEF CountsOf
<1>3. /\ \A k \in K : share[k] \in SUBSET Offers(cell, k) /\ AreOffers(share[k]) /\ share[k] # {}
      /\ \A u \in way : u.skin[2] \in K
  <2>1. \A k \in K : share[k] = {u \in way : u.skin[2] = k}
    OBVIOUS
  <2> HIDE DEF share, K, counts
  <2>2. way \in SUBSET UNION {Offers(cell, k) : k \in K}
    BY <1>1
  <2>3. /\ \A k \in K : /\ {u \in way : u.skin[2] = k} \in SUBSET Offers(cell, k)
                        /\ AreOffers({u \in way : u.skin[2] = k})
        /\ \A u \in way : u.skin[2] \in K
    BY <2>2, SharesAre
  <2>4. \A k \in K : {u \in way : u.skin[2] = k} # {}
    BY <1>1
  <2> QED
    BY <2>1, <2>3, <2>4
<1>4. \A k \in K : counts[k] \in Nat \ {0}
  <2> SUFFICES ASSUME NEW k \in K PROVE counts[k] \in Nat \ {0}
    OBVIOUS
  <2>1. IsFiniteSet(share[k]) /\ share[k] # {}
    BY <1>3 DEF AreOffers
  <2>2. Cardinality(share[k]) \in Nat /\ Cardinality(share[k]) # 0
    BY <2>1, FS_CardinalityType, FS_EmptySet
  <2> QED
    BY <1>2, <2>2
<1>5. way = share[c] \cup share[d] /\ (c # d => share[c] \cap share[d] = {})
  BY <1>3
<1>6. cell.size \in Nat \ {0} /\ \A k : AreOffers(Offers(cell, k))
  BY OffersAre DEF IsCell
<1> HIDE DEF share, counts
<1>7. \/ c = d /\ counts[c] = cell.size
      \/ c # d /\ counts[c] + counts[d] = cell.size
  <2>1. CASE c = d
    BY <1>1, <1>2, <1>5, <2>1
  <2>2. CASE c # d
    <3>1. Cardinality(way) = Cardinality(share[c]) + Cardinality(share[d])
      BY <1>3, <1>5, <2>2, BillJoins
    <3> QED
      BY <1>1, <1>2, <2>2, <3>1
  <2> QED
    BY <2>1, <2>2
<1>8. \A k \in K : counts[k] \in 1..cell.size
  BY <1>4, <1>6, <1>7
<1>9. \A k \in K : /\ counts[k] <= Cardinality(Units(cell, k))
                   /\ Bill(CheapestUnits(CheapestUnits(Offers(cell, k), cell.size), counts[k])) <= Bill(share[k])
  <2> SUFFICES ASSUME NEW k \in K
               PROVE  /\ counts[k] <= Cardinality(Units(cell, k))
                      /\ Bill(CheapestUnits(CheapestUnits(Offers(cell, k), cell.size), counts[k])) <= Bill(share[k])
    OBVIOUS
  <2>1. counts[k] \in Nat /\ counts[k] <= cell.size /\ cell.size \in Nat
    BY <1>6, <1>8
  <2> QED
    BY <1>2, <1>3, <1>6, <2>1, TakenLeast DEF Units
<1>10. Contracted(cell, counts)
  <2>1. CASE c = d
    BY <1>2, <1>7, <1>8, <1>9, <2>1 DEF Contracted
  <2>2. CASE c # d
    <3>1. /\ DOMAIN counts = {c, d} /\ c # d /\ counts[c] + counts[d] = cell.size
          /\ DOMAIN counts = {d, c} /\ d # c /\ counts[d] + counts[c] = cell.size
      BY <1>2, <1>4, <1>7, <2>2
    <3>2. c \in Fillers(cell, Stock(cell)) \/ d \in Fillers(cell, Stock(cell))
      BY <2>2
    <3> QED
      BY <1>2, <1>8, <1>9, <3>1, <3>2 DEF Contracted
  <2> QED
    BY <2>1, <2>2
<1>11. TotalCost(taken) <= Bill(way)
  <2>1. /\ DOMAIN taken = K
        /\ \A k \in K : /\ taken[k] = CheapestUnits(CheapestUnits(Offers(cell, k), cell.size), counts[k])
                        /\ AreOffers(taken[k]) /\ taken[k] = {u \in Bought(taken) : u.skin[2] = k}
        /\ \A u \in Bought(taken) : u.skin[2] \in K
        /\ TotalCost(taken) = Bill(Bought(taken))
    BY <1>2, <1>10, TakenIs
  <2> HIDE DEF taken
  <2>2. Bought(taken) = taken[c] \cup taken[d] /\ (c # d => taken[c] \cap taken[d] = {})
    BY <2>1
  <2>3. Bill(taken[c]) <= Bill(share[c]) /\ Bill(taken[d]) <= Bill(share[d])
    BY <1>9, <2>1
  <2>4. CASE c = d
    BY <1>5, <2>1, <2>2, <2>3, <2>4
  <2>5. CASE c # d
    <3>1. /\ Bill(way) = Bill(share[c]) + Bill(share[d]) /\ Bill(share[c]) \in Nat /\ Bill(share[d]) \in Nat
      BY <1>3, <1>5, <2>5, BillJoins
    <3>2. /\ Bill(Bought(taken)) = Bill(taken[c]) + Bill(taken[d])
          /\ Bill(taken[c]) \in Nat /\ Bill(taken[d]) \in Nat
      BY <2>1, <2>2, <2>5, BillJoins
    <3> QED
      BY <2>1, <2>3, <3>1, <3>2
  <2> QED
    BY <2>4, <2>5
<1> QED
  BY <1>10, <1>11 DEF counts

-----------------------------------------------------------------------------
(* What a sweep shows.                                                     *)
CellIn(catalogue, rule, r, q, w) == CellOf(rule, catalogue.asks, catalogue.at, Haircuts, r, q, w)

LEMMA SweepIs ==
  ASSUME EvidenceInv, NEW catalogue \in Catalogues, NEW rule \in Resolve(catalogue.at)
  PROVE  /\ {rs \in RuleSets : Covers(rs, catalogue.at)} = {rule} /\ Resolve(catalogue.at) = {rule}
         /\ DOMAIN rule.counts \in SUBSET Rarities
         /\ \A r \in DOMAIN rule.counts, q \in Quality, w \in Wears : IsCell(CellIn(catalogue, rule, r, q, w))
         /\ \A s : s \in SweepProspects(rule, catalogue.asks, catalogue.at, Haircuts)
                     <=> \E r \in DOMAIN rule.counts, q \in Quality, w \in Wears :
                           s \in Sketched(CellIn(catalogue, rule, r, q, w))
<1>1. Cardinality(Governing(catalogue.at)) = 1 /\ rule \in Governing(catalogue.at)
  BY DEF Resolve
<1>2. IsFiniteSet(Governing(catalogue.at))
  <2>1. Governing(catalogue.at) \in SUBSET RuleSets
    BY DEF Governing
  <2> QED
    BY <2>1, RuleAssumption, FS_Subset
<1>3. Governing(catalogue.at) = {rule}
  <2>1. \E x : Governing(catalogue.at) = {x}
    BY <1>1, <1>2, FS_Singleton
  <2> QED
    BY <1>1, <2>1
<1>4. Resolve(catalogue.at) = {rule}
  BY <1>1, <1>3 DEF Resolve
<1>5. IsRuleSet(rule)
  BY <1>1, RuleAssumption DEF Governing
<1>6. DOMAIN Haircuts = Quality /\ \A q \in Quality : Haircuts[q] = Applied(q) /\ Applied(q) \in 0..99
  BY AppliedType DEF Haircuts, EvidenceInv
<1>7. ASSUME NEW r \in DOMAIN rule.counts, NEW q \in Quality, NEW w \in Wears
      PROVE  IsCell(CellIn(catalogue, rule, r, q, w))
  <2>1. r \in Rarities /\ rule.counts[r] \in Nat \ {0}
    BY <1>5 DEF IsRuleSet
  <2>2. \A n \in DOMAIN catalogue.asks : catalogue.asks[n].price \in Nat /\ catalogue.asks[n].units \in Nat
    BY DiscoveryAssumption DEF IsCatalogue
  <2> QED
    BY <1>6, <2>1, <2>2 DEF IsCell, CellIn, CellOf
<1> DEFINE S(r, q, w) == Sketched(CellIn(catalogue, rule, r, q, w))
<1>8. SweepProspects(rule, catalogue.asks, catalogue.at, Haircuts)
        = UNION {S(r, q, w) : r \in DOMAIN rule.counts, q \in DOMAIN Haircuts, w \in Wears}
  BY DEF SweepProspects, Sketched, CellIn, CellOf
<1> HIDE DEF S
<1>9. \A s : s \in SweepProspects(rule, catalogue.asks, catalogue.at, Haircuts)
               <=> \E r \in DOMAIN rule.counts, q \in Quality, w \in Wears : s \in S(r, q, w)
  BY <1>6, <1>8
<1> QED
  BY <1>3, <1>4, <1>5, <1>7, <1>9 DEF Governing, IsRuleSet, S

(* Two cells whose inputs ask the same have the same on sale.              *)
SameInputs(a, b) ==
  /\ a.rarity = b.rarity /\ a.size = b.size /\ a.quality = b.quality /\ a.wear = b.wear
  /\ \A s \in Skins : registry.skins[s].rarity = a.rarity =>
       /\ Name(s, a.quality, a.wear) \in DOMAIN a.asks <=> Name(s, a.quality, a.wear) \in DOMAIN b.asks
       /\ Name(s, a.quality, a.wear) \in DOMAIN a.asks =>
            a.asks[Name(s, a.quality, a.wear)] = b.asks[Name(s, a.quality, a.wear)]

LEMMA SameStock ==
  ASSUME NEW a, NEW b, SameInputs(a, b)
  PROVE  /\ Considered(a) = Considered(b) /\ Eligibles(a) = Eligibles(b)
         /\ \A c : (Supported(a, c) <=> Supported(b, c)) /\ Offers(a, c) = Offers(b, c)
         /\ Stock(a) = Stock(b) /\ Fillers(a, Stock(a)) = Fillers(b, Stock(b))
         /\ \A counts : Contracted(a, counts) <=> Contracted(b, counts)
<1>1. a.rarity = b.rarity /\ a.size = b.size /\ a.quality = b.quality /\ a.wear = b.wear
  BY DEF SameInputs
<1>2. /\ Eligibles(a) = Eligibles(b) /\ \A c : Eligible(a, c) = Eligible(b, c)
      /\ \A c : Supported(a, c) <=> Supported(b, c)
  BY <1>1 DEF Eligibles, Eligible, Supported
<1>3. Considered(a) = Considered(b)
  BY <1>2 DEF Considered
<1>4. ASSUME NEW c PROVE Offers(a, c) = Offers(b, c)
  <2> DEFINE P == Purchasable(a, c)
  <2>1. \A s \in Eligible(a, c) :
          /\ Name(s, a.quality, a.wear) \in DOMAIN a.asks <=> Name(s, b.quality, b.wear) \in DOMAIN b.asks
          /\ Name(s, a.quality, a.wear) \in DOMAIN a.asks => Quote(a, s) = Quote(b, s)
    BY <1>1 DEF SameInputs, Quote, Eligible, EligibleInputs, SkinsAt
  <2>2. P = Purchasable(b, c)
    BY <1>1, <1>2, <2>1 DEF Purchasable
  <2>3. \A s \in P : Quote(a, s) = Quote(b, s)
    BY <2>1 DEF Purchasable
  <2> DEFINE A == UNION {{s} \X (1..Quote(a, s).units) : s \in P}
             B == UNION {{s} \X (1..Quote(b, s).units) : s \in P}
             f(p) == [skin |-> p[1], nth |-> p[2], price |-> Quote(a, p[1]).price,
                      z |-> Assumed(FloatRange(p[1]), a.wear)]
             g(p) == [skin |-> p[1], nth |-> p[2], price |-> Quote(b, p[1]).price,
                      z |-> Assumed(FloatRange(p[1]), b.wear)]
  <2>4. Offers(a, c) = {f(p) : p \in A} /\ Offers(b, c) = {g(p) : p \in B}
    BY <2>2 DEF Offers
  <2>5. \A p \in A : p[1] \in P
    OBVIOUS
  <2> HIDE DEF P
  <2>6. A = B
    BY <2>3
  <2> HIDE DEF A, B
  <2>7. \A p \in A : f(p) = g(p)
    BY <1>1, <2>3, <2>5
  <2> HIDE DEF f, g
  <2> QED
    BY <2>4, <2>6, <2>7
<1>5. \A c : Units(a, c) = Units(b, c)
  BY <1>1, <1>4 DEF Units
<1>6. Stock(a) = Stock(b)
  BY <1>3, <1>5 DEF Stock
<1>7. Fillers(a, Stock(a)) = Fillers(b, Stock(b))
  BY <1>6 DEF Fillers, Components
<1>8. ASSUME NEW counts PROVE Contracted(a, counts) <=> Contracted(b, counts)
  BY <1>1, <1>3, <1>5, <1>7 DEF Contracted
<1> QED
  BY <1>2, <1>3, <1>4, <1>6, <1>7, <1>8

-----------------------------------------------------------------------------
(* The sweep finds the cheapest of what is on sale.                        *)
LEMMA CheapestSketched == DiscoveryInv => CheapestIsSketched
<1> SUFFICES ASSUME DiscoveryInv, board # {} PROVE CheapestIsSketched
  BY DEF CheapestIsSketched
<1>1. RegistryInv /\ EvidenceInv /\ quotes \in Catalogues
  BY DEF DiscoveryInv, BoardInv
<1>2. PICK rule \in Resolve(quotes.at) : board = SweepProspects(rule, quotes.asks, quotes.at, Haircuts)
  BY DEF DiscoveryInv, BoardInv
<1> DEFINE swept(r, q, w) == CellIn(quotes, rule, r, q, w)
           bare(r, q, w) == [rarity |-> r, size |-> rule.counts[r], quality |-> q, wear |-> w,
                             asks |-> quotes.asks, at |-> quotes.at, haircut |-> 0]
<1>3. /\ {rs \in RuleSets : Covers(rs, quotes.at)} = {rule} /\ DOMAIN rule.counts \in SUBSET Rarities
      /\ \A r \in DOMAIN rule.counts, q \in Quality, w \in Wears : IsCell(swept(r, q, w))
      /\ \A s : s \in board <=> \E r \in DOMAIN rule.counts, q \in Quality, w \in Wears : s \in Sketched(swept(r, q, w))
  BY <1>1, <1>2, SweepIs
<1>4. \A cell : cell \in Cells <=> \E r \in DOMAIN rule.counts, q \in Quality, w \in Wears : cell = bare(r, q, w)
  <2> DEFINE C(rs) == {[rarity |-> r, size |-> rs.counts[r], quality |-> q, wear |-> w,
                        asks |-> quotes.asks, at |-> quotes.at, haircut |-> 0]
                       : r \in DOMAIN rs.counts, q \in Quality, w \in Wears}
  <2>1. Cells = UNION {C(rs) : rs \in {rs \in RuleSets : Covers(rs, quotes.at)}}
    BY DEF Cells
  <2>2. \A cell : cell \in C(rule)
                    <=> \E r \in DOMAIN rule.counts, q \in Quality, w \in Wears : cell = bare(r, q, w)
    OBVIOUS
  <2> HIDE DEF C, bare
  <2>3. Cells = C(rule)
    BY <1>3, <2>1
  <2> QED
    BY <2>2, <2>3
<1>5. ASSUME NEW r \in DOMAIN rule.counts, NEW q \in Quality, NEW w \in Wears
      PROVE  /\ IsCell(bare(r, q, w)) /\ SameInputs(bare(r, q, w), swept(r, q, w))
             /\ swept(r, q, w).rarity = r /\ swept(r, q, w).quality = q /\ swept(r, q, w).wear = w
             /\ bare(r, q, w).rarity = r /\ bare(r, q, w).quality = q /\ bare(r, q, w).wear = w
             /\ bare(r, q, w).size = swept(r, q, w).size
  <2>1. IsCell(swept(r, q, w))
    BY <1>3
  <2> QED
    BY <2>1 DEF IsCell, SameInputs, CellIn, CellOf
<1> HIDE DEF swept, bare
<1>6. ASSUME NEW r \in DOMAIN rule.counts, NEW q \in Quality, NEW w \in Wears, NEW s \in Sketched(swept(r, q, w))
      PROVE  /\ s.rarity = r /\ s.quality = q /\ s.wear = w /\ s.size = bare(r, q, w).size
             /\ s.fate \in {"lead", "cost"} =>
                  /\ Contracted(swept(r, q, w), s.counts)
                  /\ s.cost = TotalCost(Taken(Stock(swept(r, q, w)), s.counts))
  <2>1. IsCell(swept(r, q, w))
    BY <1>3
  <2>2. CASE \E c, fate : fate \in {"depth", "rules"} /\ s = NoSketch(swept(r, q, w), All(swept(r, q, w), c), fate)
    <3>1. PICK c, fate : fate \in {"depth", "rules"} /\ s = NoSketch(swept(r, q, w), All(swept(r, q, w), c), fate)
      BY <2>2
    <3> QED
      BY <1>5, <3>1, NoSketchIs
  <2>3. CASE \E counts : /\ Contracted(swept(r, q, w), counts)
                         /\ s = Sketch(swept(r, q, w), Taken(Stock(swept(r, q, w)), counts), counts)
    <3>1. PICK counts : /\ Contracted(swept(r, q, w), counts)
                        /\ s = Sketch(swept(r, q, w), Taken(Stock(swept(r, q, w)), counts), counts)
      BY <2>3
    <3> QED
      BY <1>5, <3>1, SketchIs
  <2> QED
    BY <1>1, <2>1, <2>2, <2>3, SketchedIs
<1>7. \A s \in board : \E cell \in Cells : s.rarity = cell.rarity /\ s.size = cell.size
  <2> SUFFICES ASSUME NEW s \in board PROVE \E cell \in Cells : s.rarity = cell.rarity /\ s.size = cell.size
    OBVIOUS
  <2>1. PICK r \in DOMAIN rule.counts, q \in Quality, w \in Wears : s \in Sketched(swept(r, q, w))
    BY <1>3
  <2> QED
    BY <1>4, <1>5, <1>6, <2>1
<1> DEFINE found(cell, K) == {s \in board : /\ s.rarity = cell.rarity /\ s.quality = cell.quality
                                          /\ s.wear = cell.wear /\ DOMAIN s.counts = K}
           Claim(cell, K) ==
             /\ \A way \in Ways(cell, K) : \E s \in found(cell, K) :
                  /\ s.counts = CountsOf(way, K) /\ s.fate # "depth"
                  /\ s.fate \in {"lead", "cost"} => s.cost <= Bill(way)
             /\ \A s \in found(cell, K) : s.fate \in {"lead", "cost"} =>
                  \E way \in Ways(cell, K) : CountsOf(way, K) = s.counts /\ Bill(way) = s.cost
<1>8. ASSUME NEW cell \in Cells, NEW c \in Considered(cell), NEW d \in Considered(cell),
             Cardinality({c, d}) = 1 \/ {c, d} \cap Fillers(cell, Stock(cell)) # {}
      PROVE  Claim(cell, {c, d})
  <2>1. PICK r \in DOMAIN rule.counts, q \in Quality, w \in Wears : cell = bare(r, q, w)
    BY <1>4
  <2> DEFINE b == swept(r, q, w)
             K == {c, d}
  <2>2. /\ IsCell(cell) /\ SameInputs(cell, b) /\ IsCell(b)
        /\ cell.rarity = r /\ cell.quality = q /\ cell.wear = w
    BY <1>3, <1>5, <2>1
  <2>3. /\ Stock(cell) = Stock(b) /\ \A counts : Contracted(cell, counts) <=> Contracted(b, counts)
    BY <2>2, SameStock
  <2>4. c = d \/ K \cap Fillers(cell, Stock(cell)) # {}
    <3>1. CASE Cardinality({c, d}) = 1
      <4>1. \E x : {c, d} = {x}
        BY <3>1, PairFinite, FS_Singleton
      <4> QED
        BY <4>1
    <3> QED
      BY <1>8, <3>1
  <2>5. ASSUME NEW way \in Ways(cell, K)
        PROVE  \E s \in board : /\ s.rarity = r /\ s.quality = q /\ s.wear = w /\ DOMAIN s.counts = K
                                /\ s.counts = CountsOf(way, K) /\ s.fate # "depth"
                                /\ s.fate \in {"lead", "cost"} => s.cost <= Bill(way)
    <3> DEFINE counts == CountsOf(way, K)
               s == Sketch(b, Taken(Stock(b), counts), counts)
    <3>1. Contracted(cell, counts) /\ TotalCost(Taken(Stock(cell), counts)) <= Bill(way)
      BY <1>1, <2>2, <2>4, WaySketched
    <3>2. DOMAIN counts = K
      BY DEF CountsOf
    <3> HIDE DEF counts, s
    <3>3. Contracted(b, counts) /\ TotalCost(Taken(Stock(b), counts)) <= Bill(way)
      BY <2>3, <3>1
    <3>4. s \in Sketched(b)
      BY <1>1, <2>2, <3>3, SketchedIs DEF s
    <3>5. s \in board
      BY <1>3, <3>4
    <3>6. s.rarity = r /\ s.quality = q /\ s.wear = w
      BY <1>6, <3>4
    <3>7. s.counts = counts /\ s.fate # "depth" /\ (s.fate \in {"lead", "cost"} => s.cost <= Bill(way))
      BY <3>3, SketchIs DEF s
    <3> QED
      BY <3>2, <3>5, <3>6, <3>7 DEF counts
  <2>6. ASSUME NEW s \in board, s.rarity = r, s.quality = q, s.wear = w, DOMAIN s.counts = K, s.fate \in {"lead", "cost"}
        PROVE  \E way \in Ways(cell, K) : CountsOf(way, K) = s.counts /\ Bill(way) = s.cost
    <3>1. PICK x \in DOMAIN rule.counts, y \in Quality, z \in Wears : s \in Sketched(swept(x, y, z))
      BY <1>3
    <3>2. x = r /\ y = q /\ z = w
      BY <1>6, <2>6, <3>1
    <3>3. Contracted(b, s.counts) /\ s.cost = TotalCost(Taken(Stock(b), s.counts))
      BY <1>6, <2>6, <3>1, <3>2
    <3>4. Contracted(cell, s.counts) /\ s.cost = TotalCost(Taken(Stock(cell), s.counts))
      BY <2>3, <3>3
    <3> DEFINE way == Bought(Taken(Stock(cell), s.counts))
    <3>5. way \in Ways(cell, DOMAIN s.counts) /\ CountsOf(way, DOMAIN s.counts) = s.counts
      BY <1>1, <2>2, <3>4, TakenIsAWay
    <3>6. Bill(way) = s.cost
      BY <1>1, <2>2, <3>4, TakenIs
    <3> QED
      BY <2>6, <3>5, <3>6
  <2> QED
    BY <2>2, <2>5, <2>6
<1> HIDE DEF Claim
<1>9. ASSUME NEW cell \in Cells, NEW K \in {{c, d} : c \in Considered(cell), d \in Considered(cell)},
             Cardinality(K) = 1 \/ K \cap Fillers(cell, Stock(cell)) # {}
      PROVE  Claim(cell, K)
  BY <1>8, <1>9
<1> QED
  BY <1>7, <1>9 DEF CheapestIsSketched, Claim

-----------------------------------------------------------------------------
(* What a contract's outputs are worth.                                    *)
LEMMA RoundExact ==
  ASSUME NEW n \in Nat \ {0}, NEW k \in Nat
  PROVE  RoundDown(n * k, n) = k
<1> DEFINE x == n * k
           q == RoundDown(x, n)
<1>1. x \in Int
  OBVIOUS
<1>2. n * q <= n * k /\ n * k < n * (q + 1) /\ q \in Int
  BY <1>1, Rounding
<1> HIDE DEF q
<1>3. CASE q < k
  <2>1. n * (q + 1) <= n * k
    BY <1>2, <1>3, Monotone
  <2>2. n * (q + 1) \in Int /\ n * k \in Int
    BY <1>2
  <2> QED
    BY <1>2, <2>1, <2>2
<1>4. CASE k < q
  <2>1. n * (k + 1) <= n * q
    BY <1>2, <1>4, Monotone
  <2>2. n * (k + 1) = n * k + n
    BY SMT
  <2>3. n * k \in Int /\ n * q \in Int
    BY <1>2
  <2> QED
    BY <1>2, <2>1, <2>2, <2>3
<1> QED
  BY <1>2, <1>3, <1>4 DEF q

LEMMA AloneTakesAll ==
  ASSUME NEW cell, NEW counts, Contracted(cell, counts), NEW x, DOMAIN counts = {x}
  PROVE  counts[x] = cell.size
<1>1. CASE \E c : DOMAIN counts = {c} /\ counts[c] = cell.size
  BY <1>1
<1>2. CASE \E c, d : DOMAIN counts = {c, d} /\ c # d
  <2>1. PICK c, d : DOMAIN counts = {c, d} /\ c # d
    BY <1>2
  <2>2. c \in {x} /\ d \in {x}
    BY <2>1
  <2> QED
    BY <2>1, <2>2
<1> QED
  BY <1>1, <1>2 DEF Contracted

LEMMA OutputsAre ==
  ASSUME RegistryInv, NEW cell, IsCell(cell), NEW counts, Contracted(cell, counts)
  PROVE  /\ IsFiniteSet(DOMAIN counts) /\ DOMAIN counts # {} /\ cell.rarity + 1 \in Rarities
         /\ \A c \in DOMAIN counts : /\ counts[c] \in Nat \ {0} /\ IsFiniteSet(OutputPool(c, cell.rarity))
                                     /\ Cardinality(OutputPool(c, cell.rarity)) \in Nat \ {0}
         /\ IsFiniteSet(Results(cell, counts))
         /\ \A y \in Results(cell, counts) : registry.skins[y].home \in DOMAIN counts
<1> DEFINE K == DOMAIN counts
           pool == [c \in K |-> OutputPool(c, cell.rarity)]
<1>1. IsFiniteSet(K) /\ K # {}
  <2>1. \E c, d : K = {c, d}
    <3>1. CASE \E c : K = {c} /\ counts[c] = cell.size
      <4>1. PICK c : K = {c}
        BY <3>1
      <4> QED
        BY <4>1
    <3> QED
      BY <3>1 DEF Contracted
  <2> QED
    BY <2>1, PairFinite
<1>2. \A c \in K : pool[c] # {} /\ counts[c] \in Nat \ {0}
  BY DEF Contracted, Considered, Eligibles
<1>3. \A c \in K : IsFiniteSet(pool[c]) /\ \A y \in pool[c] : registry.skins[y].home = c
  BY PoolIs
<1>4. Results(cell, counts) = UNION {pool[c] : c \in K}
  BY DEF Results
<1>5. cell.rarity + 1 \in Rarities
  <2>1. PICK c \in K : TRUE
    BY <1>1
  <2>2. OutputPool(c, cell.rarity) # {}
    BY <1>2
  <2> QED
    BY <2>2 DEF OutputPool
<1> HIDE DEF pool, K
<1>6. \A c \in K : Cardinality(pool[c]) \in Nat \ {0}
  BY <1>2, <1>3, FS_CardinalityType, FS_EmptySet
<1>7. IsFiniteSet(Results(cell, counts))
  <2>1. IsFiniteSet({pool[c] : c \in K})
    BY <1>1, ImageFinite
  <2>2. \A T \in {pool[c] : c \in K} : IsFiniteSet(T)
    BY <1>3
  <2>3. IsFiniteSet(UNION {pool[c] : c \in K})
    BY <2>1, <2>2, FS_UNION
  <2> QED
    BY <1>4, <2>3
<1>8. \A y \in Results(cell, counts) : registry.skins[y].home \in K
  BY <1>3, <1>4
<1>9. \A c \in K : pool[c] = OutputPool(c, cell.rarity)
  BY DEF pool, K
<1> QED
  BY <1>1, <1>2, <1>3, <1>5, <1>6, <1>7, <1>8, <1>9 DEF K

LEMMA WeightsAre ==
  ASSUME RegistryInv, NEW cell, IsCell(cell), NEW counts, Contracted(cell, counts)
  PROVE  /\ Size(cell, counts) \in Nat \ {0}
         /\ \A c \in DOMAIN counts : Weight(cell, counts, c) \in Nat
         /\ \A y \in Results(cell, counts) : Weight(cell, counts, registry.skins[y].home) \in Nat
<1> DEFINE K == DOMAIN counts
           sizes == [c \in K |-> Cardinality(OutputPool(c, cell.rarity))]
           n == SumOver(K, counts)
<1>1. /\ IsFiniteSet(K) /\ K # {}
      /\ \A c \in K : counts[c] \in Nat \ {0} /\ sizes[c] \in Nat \ {0}
      /\ \A y \in Results(cell, counts) : registry.skins[y].home \in K
      /\ cell.size \in Nat \ {0}
  BY OutputsAre DEF IsCell
<1>2. Size(cell, counts) = cell.size * ProductOver(K, sizes)
  BY DEF Size
<1>3. \A c \in K : Weight(cell, counts, c) = (counts[c] * Size(cell, counts)) \div (n * sizes[c])
  BY DEF Weight, Probability, Pools
<1> HIDE DEF K, sizes, n
<1>4. ProductOver(K, sizes) \in Nat \ {0}
  BY <1>1, ProductPositive
<1>5. n \in Nat \ {0}
  BY <1>1, SumPositive DEF n
<1>6. Size(cell, counts) \in Nat \ {0}
  BY <1>1, <1>2, <1>4, PositiveProduct
<1>7. ASSUME NEW c \in K PROVE Weight(cell, counts, c) \in Nat
  <2>1. counts[c] * Size(cell, counts) \in Nat
    BY <1>1, <1>6, Product
  <2>2. n * sizes[c] \in Nat \ {0}
    BY <1>1, <1>5, PositiveProduct
  <2> DEFINE x == counts[c] * Size(cell, counts)
             d == n * sizes[c]
  <2>3. x \in Int /\ 0 <= x /\ d \in Nat \ {0}
    BY <2>1, <2>2
  <2>4. Weight(cell, counts, c) = RoundDown(x, d)
    BY <1>3 DEF RoundDown
  <2> HIDE DEF x, d
  <2>5. RoundDown(x, d) \in Int /\ 0 <= RoundDown(x, d)
    BY <2>3, Rounding
  <2> QED
    BY <2>4, <2>5
<1> QED
  BY <1>1, <1>6, <1>7 DEF K

LEMMA NetIs ==
  ASSUME NEW cell, IsCell(cell), NEW ask \in Nat, FeeKnown(Schedule, Reference, "SALE", ask, cell.at)
  PROVE  /\ Net(cell, ask) \in Nat
         /\ ask = 100 /\ Fee(Schedule, Reference, "SALE", 100, cell.at) = SaleFee
              => Net(cell, ask) = Estimate(cell.haircut)
<1> DEFINE fee == Fee(Schedule, Reference, "SALE", ask, cell.at)
           cut == ScaledUp(ask, <<cell.haircut, 100>>)
           x == ask - fee - cut
<1>1. fee \in Nat
  BY DiscoveryAssumption, FeeType
<1>2. cell.haircut \in 0..99 /\ <<cell.haircut, 100>> \in Fraction
  BY DEF IsCell, Fraction
<1>3. cut \in Nat
  BY <1>2, Scaling
<1>4. Net(cell, ask) = Max({0, x})
  BY DEF Net
<1>5. x \in Int
  <2> HIDE DEF fee, cut
  <2> QED
    BY <1>1, <1>3
<1>6. ask = 100 => cut = cell.haircut
  <2> SUFFICES ASSUME ask = 100 PROVE cut = cell.haircut
    OBVIOUS
  <2> DEFINE p == 100 * cell.haircut
             d == 100
  <2>1. cut = RoundUp(p, d)
    BY DEF ScaledUp
  <2>2. p \in Int /\ p = 100 * cell.haircut /\ d \in Nat \ {0}
    BY <1>2
  <2> HIDE DEF p, d, cut
  <2>3. RoundUp(p, d) \in Int /\ p <= d * RoundUp(p, d) /\ d * (RoundUp(p, d) - 1) < p
    BY <2>2, Rounding
  <2> QED
    BY <1>2, <2>1, <2>2, <2>3 DEF d
<1> HIDE DEF x
<1>7. Max({0, x}) \in {0, x} /\ 0 <= Max({0, x}) /\ x <= Max({0, x})
  <2>1. IsFiniteSet({0, x})
    BY PairFinite
  <2>2. {0, x} \in SUBSET Int /\ {0, x} # {}
    BY <1>5
  <2> QED
    BY <2>1, <2>2, MaxIs
<1>8. Net(cell, ask) = IF x < 0 THEN 0 ELSE x
  BY <1>4, <1>5, <1>7
<1>9. ask = 100 /\ Fee(Schedule, Reference, "SALE", 100, cell.at) = SaleFee => x = 92 - cell.haircut
  BY <1>6 DEF x, SaleFee
<1>10. Estimate(cell.haircut) = IF 92 - cell.haircut < 0 THEN 0 ELSE 92 - cell.haircut
  BY <1>2 DEF Estimate, SaleFee
<1> QED
  BY <1>5, <1>8, <1>9, <1>10

(* The terms an estimate is the sum of.                                    *)
Term(cell, counts, total, y) ==
  Weight(cell, counts, registry.skins[y].home) * Net(cell, cell.asks[Made(cell, y, total)].price)

LEMMA TermIs ==
  ASSUME RegistryInv, NEW cell, IsCell(cell), NEW counts, Contracted(cell, counts), NEW total,
         ~FeeUnknown(cell, counts, total)
  PROVE  /\ \A y \in Results(cell, counts) \ Unvalued(cell, counts, total) :
              /\ Made(cell, y, total) \in DOMAIN cell.asks
              /\ FeeKnown(Schedule, Reference, "SALE", cell.asks[Made(cell, y, total)].price, cell.at)
              /\ Net(cell, cell.asks[Made(cell, y, total)].price) \in Nat
              /\ Term(cell, counts, total, y) \in Nat
         /\ Value(cell, counts, total) \in Nat
<1> DEFINE V == Results(cell, counts) \ Unvalued(cell, counts, total)
           f == [y \in V |-> Weight(cell, counts, registry.skins[y].home)
                               * Net(cell, cell.asks[Made(cell, y, total)].price)]
<1>1. ASSUME NEW y \in V
      PROVE  /\ Made(cell, y, total) \in DOMAIN cell.asks
             /\ FeeKnown(Schedule, Reference, "SALE", cell.asks[Made(cell, y, total)].price, cell.at)
             /\ Net(cell, cell.asks[Made(cell, y, total)].price) \in Nat
             /\ Term(cell, counts, total, y) \in Nat
  <2>1. Made(cell, y, total) \in DOMAIN cell.asks
    BY DEF Unvalued
  <2>2. cell.asks[Made(cell, y, total)].price \in Nat
    BY <2>1 DEF IsCell
  <2>3. FeeKnown(Schedule, Reference, "SALE", cell.asks[Made(cell, y, total)].price, cell.at)
    BY DEF FeeUnknown
  <2>4. Net(cell, cell.asks[Made(cell, y, total)].price) \in Nat
    BY <2>2, <2>3, NetIs
  <2>5. Weight(cell, counts, registry.skins[y].home) \in Nat
    BY WeightsAre
  <2>6. Term(cell, counts, total, y) \in Nat
    BY <2>4, <2>5, Product DEF Term
  <2> QED
    BY <2>1, <2>3, <2>4, <2>6
<1>2. Value(cell, counts, total) = RoundDown(SumOver(V, f), Size(cell, counts))
  BY DEF Value, Gross
<1>3. \A y \in V : f[y] \in Nat
  BY <1>1 DEF Term
<1>4. IsFiniteSet(V)
  BY OutputsAre, FS_Subset
<1> HIDE DEF f, V
<1>5. SumOver(V, f) \in Nat
  BY <1>3, <1>4, SumNat
<1>6. Value(cell, counts, total) \in Nat
  BY <1>2, <1>5, WeightsAre, Rounding
<1> QED
  BY <1>1, <1>6 DEF V

(* One output at the ask the loop knows is worth what the loop inverts.    *)
LEMMA LoneValueIs ==
  ASSUME RegistryInv, NEW cell, IsCell(cell), NEW counts, Contracted(cell, counts), NEW total,
         ~FeeUnknown(cell, counts, total), Cardinality(Results(cell, counts)) = 1,
         \A y \in Results(cell, counts) : /\ Made(cell, y, total) \in DOMAIN cell.asks
                                          /\ cell.asks[Made(cell, y, total)].price = 100,
         FeeKnown(Schedule, Reference, "SALE", 100, cell.at) =>
           Fee(Schedule, Reference, "SALE", 100, cell.at) = SaleFee
  PROVE  Value(cell, counts, total) = Estimate(cell.haircut)
<1> DEFINE K == DOMAIN counts
           R == Results(cell, counts)
           size == Size(cell, counts)
<1>1. PICK y : R = {y}
  BY OutputsAre, FS_Singleton
<1>2. /\ K # {} /\ \A c \in K : IsFiniteSet(OutputPool(c, cell.rarity)) /\ OutputPool(c, cell.rarity) # {}
      /\ \A c \in K : \A s \in OutputPool(c, cell.rarity) : registry.skins[s].home = c
      /\ \A c \in K : counts[c] \in Nat \ {0}
  <2>1. \A c \in K : Cardinality(OutputPool(c, cell.rarity)) # 0 /\ IsFiniteSet(OutputPool(c, cell.rarity))
    BY OutputsAre
  <2> QED
    BY <2>1, OutputsAre, PoolIs, FS_EmptySet
<1> DEFINE c == registry.skins[y].home
<1>3. K = {c} /\ OutputPool(c, cell.rarity) = {y}
  <2>1. \A d \in K : OutputPool(d, cell.rarity) \in SUBSET R
    BY DEF Results
  <2>2. \A d \in K : OutputPool(d, cell.rarity) = {y}
    BY <1>1, <1>2, <2>1
  <2> QED
    BY <1>2, <2>2
<1>4. counts[c] = cell.size /\ cell.size \in Nat \ {0}
  BY <1>3, AloneTakesAll DEF IsCell
<1> DEFINE sizes == [d \in K |-> Cardinality(OutputPool(d, cell.rarity))]
<1>5. sizes[c] = 1
  <2>1. sizes[c] = Cardinality({y})
    BY <1>3
  <2> QED
    BY <2>1, FS_Singleton
<1>6. ProductOver(K, sizes) = 1
  <2> HIDE DEF sizes, K, c
  <2>1. sizes[c] \in Int
    BY <1>5
  <2>2. ProductOver({c}, sizes) = sizes[c]
    BY <2>1, ProductOne
  <2> QED
    BY <1>3, <1>5, <2>2
<1>7. size = cell.size
  BY <1>4, <1>6 DEF Size
<1>8. SumOver(K, counts) = cell.size
  <2> HIDE DEF K, c
  <2> QED
    BY <1>3, <1>4, SumOne
<1>9. Weight(cell, counts, c) = (counts[c] * size) \div (SumOver(K, counts) * sizes[c])
  BY <1>3 DEF Weight, Probability, Pools
<1> HIDE DEF K, sizes, size
<1>10. Weight(cell, counts, c) = cell.size
  <2>1. cell.size * 1 = cell.size
    BY <1>4
  <2>2. Weight(cell, counts, c) = (cell.size * cell.size) \div cell.size
    BY <1>4, <1>5, <1>7, <1>8, <1>9, <2>1
  <2>3. (cell.size * cell.size) \div cell.size = cell.size
    BY <1>4, RoundExact DEF RoundDown
  <2> QED
    BY <2>2, <2>3
<1>11. Unvalued(cell, counts, total) = {} /\ R \ Unvalued(cell, counts, total) = {y}
  BY <1>1 DEF Unvalued
<1> DEFINE net == Net(cell, cell.asks[Made(cell, y, total)].price)
           f == [s \in {y} |-> Weight(cell, counts, registry.skins[s].home)
                                 * Net(cell, cell.asks[Made(cell, s, total)].price)]
<1>12. net \in Nat /\ net = Estimate(cell.haircut)
  <2>1. FeeKnown(Schedule, Reference, "SALE", 100, cell.at) /\ cell.asks[Made(cell, y, total)].price = 100
    BY <1>1, <1>11, TermIs
  <2> QED
    BY <2>1, NetIs
<1>13. Value(cell, counts, total) = RoundDown(SumOver({y}, f), size)
  BY <1>11 DEF Value, Gross, size
<1>14. f[y] = cell.size * net
  BY <1>10
<1> HIDE DEF f, net
<1>15. SumOver({y}, f) = cell.size * net
  <2>1. f[y] \in Int
    BY <1>4, <1>12, <1>14
  <2> QED
    BY <1>14, <2>1, SumOne
<1>16. RoundDown(cell.size * net, cell.size) = net
  BY <1>4, <1>12, RoundExact
<1> QED
  BY <1>7, <1>12, <1>13, <1>15, <1>16

-----------------------------------------------------------------------------
(* Quotes that go, none of them an input's, keep the contracts and make no  *)
(* estimate higher.                                                        *)
Fewer(a, b) ==
  /\ SameInputs(a, b) /\ a.at = b.at /\ a.haircut = b.haircut
  /\ DOMAIN b.asks \subseteq DOMAIN a.asks /\ \A n \in DOMAIN b.asks : b.asks[n] = a.asks[n]

LEMMA SameOdds ==
  ASSUME NEW a, NEW b, SameInputs(a, b), NEW counts
  PROVE  /\ Size(a, counts) = Size(b, counts) /\ Results(a, counts) = Results(b, counts)
         /\ \A c : Weight(a, counts, c) = Weight(b, counts, c)
         /\ \A y, total : Made(a, y, total) = Made(b, y, total)
<1>1. a.rarity = b.rarity /\ a.size = b.size /\ a.quality = b.quality
  BY DEF SameInputs
<1>2. Size(a, counts) = Size(b, counts)
  BY <1>1 DEF Size
<1> QED
  BY <1>1, <1>2 DEF Results, Weight, Pools, Made

LEMMA UnvaluedGrows ==
  ASSUME RegistryInv, NEW a, IsCell(a), NEW b, Fewer(a, b), NEW counts, Contracted(a, counts), NEW total,
         ~TooUnpriced(b, counts, total)
  PROVE  ~TooUnpriced(a, counts, total)
<1> DEFINE R == Results(a, counts)
           U == Unvalued(a, counts, total)
           W == Unvalued(b, counts, total)
           f == [y \in U |-> Weight(a, counts, registry.skins[y].home)]
           g == [y \in W |-> Weight(b, counts, registry.skins[y].home)]
           m == SumOver(U, f)
           k == SumOver(W, g)
<1>1. /\ Size(a, counts) = Size(b, counts) /\ R = Results(b, counts)
      /\ \A c : Weight(a, counts, c) = Weight(b, counts, c)
      /\ \A y : Made(a, y, total) = Made(b, y, total)
  BY SameOdds DEF Fewer
<1>2. U \in SUBSET W /\ W \in SUBSET R
  BY <1>1 DEF Fewer, Unvalued
<1>3. IsFiniteSet(W) /\ \A y \in R : Weight(a, counts, registry.skins[y].home) \in Nat
  BY <1>2, OutputsAre, WeightsAre, FS_Subset
<1>4. (\A y \in W : g[y] \in Nat) /\ \A y \in U : f[y] = g[y]
  BY <1>1, <1>2, <1>3
<1>5. MassOf(a, counts, U) = m /\ MassOf(b, counts, W) = k
  BY DEF MassOf
<1> HIDE DEF R, U, W, f, g
<1>6. m \in Nat /\ k \in Nat /\ m <= k
  <2>1. IsFiniteSet(U)
    BY <1>2, <1>3, FS_Subset
  <2>2. SumOver(U, f) = SumOver(U, g)
    BY <1>4, <2>1, SumSame
  <2>3. SumOver(U, g) \in Nat /\ SumOver(W, g) \in Nat /\ SumOver(U, g) <= SumOver(W, g)
    BY <1>2, <1>3, <1>4, SumPart
  <2> QED
    BY <2>2, <2>3
<1> DEFINE p == MaxUnpriced[2]
           q == MaxUnpriced[1] * Size(a, counts)
<1>7. p \in Nat \ {0} /\ q \in Int
  <2>1. MaxUnpriced[1] \in Nat /\ MaxUnpriced[2] \in Nat \ {0}
    BY SweepAssumption DEF Fraction
  <2>2. Size(a, counts) \in Nat
    BY WeightsAre
  <2> QED
    BY <2>1, <2>2
<1>8. ~(k * p > q)
  BY <1>1, <1>5 DEF TooUnpriced, W
<1>9. TooUnpriced(a, counts, total) <=> m * p > q
  BY <1>5 DEF TooUnpriced, U
<1> HIDE DEF m, k, p, q
<1>10. p * m <= p * k /\ p * m \in Int /\ p * k \in Int /\ m * p = p * m /\ k * p = p * k
  BY <1>6, <1>7, Monotone
<1> QED
  BY <1>7, <1>8, <1>9, <1>10

LEMMA ValueGrows ==
  ASSUME RegistryInv, NEW a, IsCell(a), NEW b, Fewer(a, b), NEW counts, Contracted(a, counts), NEW total,
         ~FeeUnknown(a, counts, total)
  PROVE  Value(b, counts, total) <= Value(a, counts, total)
<1> DEFINE R == Results(a, counts)
           V == R \ Unvalued(a, counts, total)
           W == Results(b, counts) \ Unvalued(b, counts, total)
           f == [y \in V |-> Weight(a, counts, registry.skins[y].home) * Net(a, a.asks[Made(a, y, total)].price)]
           g == [y \in W |-> Weight(b, counts, registry.skins[y].home) * Net(b, b.asks[Made(b, y, total)].price)]
           size == Size(a, counts)
<1>1. /\ size = Size(b, counts) /\ R = Results(b, counts)
      /\ \A c : Weight(a, counts, c) = Weight(b, counts, c)
      /\ \A y : Made(a, y, total) = Made(b, y, total)
  BY SameOdds DEF Fewer
<1>2. W \in SUBSET V /\ V \in SUBSET R
  BY <1>1 DEF Fewer, Unvalued
<1>3. \A ask : Net(a, ask) = Net(b, ask)
  BY DEF Net, Fewer
<1>4. \A y \in W : f[y] = g[y]
  <2> SUFFICES ASSUME NEW y \in W PROVE f[y] = g[y]
    OBVIOUS
  <2>1. Made(b, y, total) \in DOMAIN b.asks
    BY DEF Unvalued
  <2>2. b.asks[Made(b, y, total)] = a.asks[Made(a, y, total)]
    BY <1>1, <2>1 DEF Fewer
  <2> QED
    BY <1>1, <1>2, <1>3, <2>2
<1>5. IsFiniteSet(V) /\ \A y \in V : f[y] \in Nat
  BY <1>2, OutputsAre, TermIs, FS_Subset DEF Term
<1>6. /\ Value(a, counts, total) = RoundDown(SumOver(V, f), size)
      /\ Value(b, counts, total) = RoundDown(SumOver(W, g), size)
  BY <1>1 DEF Value, Gross
<1>7. size \in Nat \ {0}
  BY WeightsAre
<1> HIDE DEF R, V, W, f, g, size
<1>8. SumOver(W, f) = SumOver(W, g)
  <2>1. IsFiniteSet(W)
    BY <1>2, <1>5, FS_Subset
  <2> QED
    BY <1>4, <2>1, SumSame
<1>9. SumOver(W, f) \in Nat /\ SumOver(V, f) \in Nat /\ SumOver(W, f) <= SumOver(V, f)
  BY <1>2, <1>5, SumPart
<1>10. RoundDown(SumOver(W, f), size) <= RoundDown(SumOver(V, f), size)
  BY <1>7, <1>9, RoundDownMonotone
<1> QED
  BY <1>6, <1>8, <1>10

(* A lead of fewer quotes was one before, at no lower value, if the fee at  *)
(* each quote was known.                                                   *)
LEMMA LeadStays ==
  ASSUME RegistryInv, NEW a, IsCell(a), NEW b, IsCell(b), Fewer(a, b), NEW s \in Sketched(b), s.fate = "lead"
  PROVE  \E t \in Sketched(a) :
           /\ SameSketch(s, t)
           /\ \/ t.fate = "rules"
              \/ t.fate = "lead" /\ s.value <= t.value /\ s.cost = t.cost
<1>1. PICK counts : Contracted(b, counts) /\ s = Sketch(b, Taken(Stock(b), counts), counts)
  BY SketchedIs, NoSketchIs
<1> DEFINE taken == Taken(Stock(b), counts)
           total == TotalFloat(taken)
           t == Sketch(a, taken, counts)
<1>2. /\ Stock(a) = Stock(b) /\ Contracted(a, counts)
      /\ a.rarity = b.rarity /\ a.quality = b.quality /\ a.wear = b.wear
  BY <1>1, SameStock DEF Fewer, SameInputs
<1>3. t \in Sketched(a)
  BY <1>2, SketchedIs
<1>4. /\ s.rarity = b.rarity /\ s.quality = b.quality /\ s.wear = b.wear /\ s.counts = counts
      /\ s.cost = TotalCost(taken) /\ s.value = Value(b, counts, total)
      /\ ~TooUnpriced(b, counts, total) /\ ~\E cap \in MaxCost : TotalCost(taken) > cap
  BY <1>1, SketchIs
<1> HIDE DEF t, total
<1>5. /\ t.rarity = a.rarity /\ t.quality = a.quality /\ t.wear = a.wear /\ t.counts = counts
      /\ t.fate \in {"cost", "lead"} => t.cost = TotalCost(taken) /\ t.value = Value(a, counts, total)
      /\ t.fate = "lead" <=> /\ ~FeeUnknown(a, counts, total) /\ ~TooUnpriced(a, counts, total)
                             /\ ~\E cap \in MaxCost : TotalCost(taken) > cap
      /\ t.fate = "rules" <=> FeeUnknown(a, counts, total)
  BY SketchIs DEF t, total
<1>6. SameSketch(s, t)
  BY <1>2, <1>4, <1>5 DEF SameSketch
<1>7. CASE FeeUnknown(a, counts, total)
  BY <1>3, <1>5, <1>6, <1>7
<1>8. CASE ~FeeUnknown(a, counts, total)
  <2>1. ~TooUnpriced(a, counts, total)
    BY <1>2, <1>4, UnvaluedGrows
  <2>2. Value(b, counts, total) <= Value(a, counts, total)
    BY <1>2, <1>8, ValueGrows
  <2>3. t.fate = "lead"
    BY <1>4, <1>5, <1>8, <2>1
  <2> QED
    BY <1>3, <1>4, <1>5, <1>6, <2>2, <2>3
<1> QED
  BY <1>7, <1>8

-----------------------------------------------------------------------------
(* What is on the board.                                                   *)
LEMMA SketchType ==
  ASSUME RegistryInv, NEW cell, IsCell(cell), NEW s \in Sketched(cell)
  PROVE  /\ s.quality = cell.quality /\ s.wear = cell.wear /\ s.rarity = cell.rarity /\ s.size = cell.size
         /\ s.haircut = cell.haircut
         /\ s.fate \in Fates /\ cell.rarity \in Rarities \ {Extraordinary} /\ s.cost \in Nat /\ s.value \in Nat
         /\ s.fate = "lead" =>
              LET total == TotalFloat(s.units) IN
              /\ Contracted(cell, s.counts) /\ ~FeeUnknown(cell, s.counts, total)
              /\ s.value = Value(cell, s.counts, total)
<1>1. \A c \in Eligibles(cell) : cell.rarity \in Rarities \ {Extraordinary}
  <2> SUFFICES ASSUME NEW c \in Eligibles(cell) PROVE cell.rarity \in Rarities \ {Extraordinary}
    OBVIOUS
  <2>1. OutputPool(c, cell.rarity) # {}
    BY DEF Eligibles
  <2>2. cell.rarity + 1 \in Rarities /\ cell.rarity \in Rarities
    BY <2>1 DEF OutputPool, IsCell
  <2> QED
    BY <2>2 DEF Rarities, Extraordinary
<1>2. CASE \E c \in Eligibles(cell), fate \in {"depth", "rules"} : s = NoSketch(cell, All(cell, c), fate)
  <2>1. PICK c \in Eligibles(cell), fate \in {"depth", "rules"} : s = NoSketch(cell, All(cell, c), fate)
    BY <1>2
  <2> QED
    BY <1>1, <2>1, NoSketchIs DEF Fates
<1>3. CASE \E counts : Contracted(cell, counts) /\ s = Sketch(cell, Taken(Stock(cell), counts), counts)
  <2>1. PICK counts : Contracted(cell, counts) /\ s = Sketch(cell, Taken(Stock(cell), counts), counts)
    BY <1>3
  <2> DEFINE taken == Taken(Stock(cell), counts)
             total == TotalFloat(taken)
  <2>2. TotalCost(taken) \in Nat
    BY <2>1, TakenIs, TakenIsAWay
  <2>3. ~FeeUnknown(cell, counts, total) => Value(cell, counts, total) \in Nat
    BY <2>1, TermIs
  <2>4. cell.rarity \in Rarities \ {Extraordinary}
    <3>1. cell.rarity + 1 \in Rarities /\ cell.rarity \in Rarities
      BY <2>1, OutputsAre DEF IsCell
    <3> QED
      BY <3>1 DEF Rarities, Extraordinary
  <2> HIDE DEF taken
  <2>5. s = Sketch(cell, taken, counts)
    BY <2>1 DEF taken
  <2> QED
    BY <2>1, <2>2, <2>3, <2>4, <2>5, SketchIs DEF Fates
<1>4. Considered(cell) \in SUBSET Eligibles(cell)
  BY DEF Considered
<1> QED
  BY <1>2, <1>3, <1>4, SketchedIs

LEMMA BoardIs ==
  ASSUME DiscoveryInv, NEW s \in board
  PROVE  /\ quotes \in Catalogues /\ RegistryInv
         /\ \E cell : /\ IsCell(cell) /\ s \in Sketched(cell)
                      /\ cell.asks = quotes.asks /\ cell.at = quotes.at /\ cell.haircut = Applied(cell.quality)
<1>1. RegistryInv /\ EvidenceInv /\ quotes \in Catalogues
  BY DEF DiscoveryInv, BoardInv
<1>2. PICK rule \in Resolve(quotes.at) : board = SweepProspects(rule, quotes.asks, quotes.at, Haircuts)
  BY DEF DiscoveryInv, BoardInv
<1>3. PICK r \in DOMAIN rule.counts, q \in Quality, w \in Wears :
        s \in Sketched(CellIn(quotes, rule, r, q, w)) /\ IsCell(CellIn(quotes, rule, r, q, w))
  BY <1>1, <1>2, SweepIs
<1> DEFINE cell == CellIn(quotes, rule, r, q, w)
<1>4. cell.asks = quotes.asks /\ cell.at = quotes.at /\ cell.haircut = Applied(cell.quality)
  BY DEF CellIn, CellOf, Haircuts
<1> QED
  BY <1>1, <1>3, <1>4

LEMMA BoardTypes == DiscoveryInv => DiscoveryTypeOK
<1> SUFFICES ASSUME DiscoveryInv PROVE DiscoveryTypeOK
  OBVIOUS
<1>1. LoopTypeOK /\ payload \in Payloads /\ DOMAIN registry = {"skins", "roster", "extraordinary"}
  BY EvidenceTypes, PayloadIs DEF DiscoveryInv, RegistryInv
<1>2. ASSUME NEW s \in board
      PROVE  /\ s.quality \in Quality /\ s.wear \in Wears /\ s.fate \in Fates
             /\ s.rarity \in Rarities \ {Extraordinary}
             /\ s.cost \in Nat /\ s.value \in Nat
  <2>1. PICK cell : IsCell(cell) /\ s \in Sketched(cell)
    BY BoardIs
  <2> QED
    BY <2>1, BoardIs, SketchType DEF IsCell
<1> QED
  BY <1>1, <1>2 DEF DiscoveryTypeOK

(* The sweep and the loop speak one dialect.                               *)
LEMMA SweepSpeaks == DiscoveryInv => SweepSpeaksCalibration
<1> SUFFICES ASSUME DiscoveryInv, NEW s \in Leads PROVE
      LET outputs == UNION {OutputPool(c, s.rarity) : c \in DOMAIN s.counts}
          total == TotalFloat(s.units)
          Asks(y) == {quotes.asks[n].price : n \in DOMAIN quotes.asks
                                               \cap {Name(y, s.quality, OutputWear(total, s.size, FloatRange(y)))}}
      IN /\ s.haircut = Applied(s.quality)
         /\ Cardinality(outputs) = 1 /\ (\A y \in outputs : Asks(y) = {100})
              => s.value = Estimate(Applied(s.quality))
  BY DEF SweepSpeaksCalibration
<1> DEFINE outputs == UNION {OutputPool(c, s.rarity) : c \in DOMAIN s.counts}
           total == TotalFloat(s.units)
           name(y) == Name(y, s.quality, OutputWear(total, s.size, FloatRange(y)))
           asks(y) == {quotes.asks[n].price : n \in DOMAIN quotes.asks \cap {name(y)}}
<1>1. s \in board /\ s.fate = "lead"
  BY DEF Leads
<1>2. PICK cell : /\ IsCell(cell) /\ s \in Sketched(cell)
                  /\ cell.asks = quotes.asks /\ cell.at = quotes.at /\ cell.haircut = Applied(cell.quality)
  BY <1>1, BoardIs
<1>3. /\ s.quality = cell.quality /\ s.rarity = cell.rarity /\ s.size = cell.size /\ s.haircut = cell.haircut
      /\ Contracted(cell, s.counts) /\ ~FeeUnknown(cell, s.counts, total)
      /\ s.value = Value(cell, s.counts, total)
  BY <1>1, <1>2, BoardIs, SketchType
<1>4. outputs = Results(cell, s.counts) /\ \A y : name(y) = Made(cell, y, total)
  BY <1>3 DEF Results, Made
<1>5. ASSUME Cardinality(outputs) = 1, \A y \in outputs : asks(y) = {100}
      PROVE  s.value = Estimate(Applied(s.quality))
  <2>1. \A y \in outputs : name(y) \in DOMAIN quotes.asks /\ quotes.asks[name(y)].price = 100
    <3> SUFFICES ASSUME NEW y \in outputs
                 PROVE  name(y) \in DOMAIN quotes.asks /\ quotes.asks[name(y)].price = 100
      OBVIOUS
    <3>1. asks(y) = {100}
      BY <1>5
    <3> HIDE DEF name, outputs
    <3>2. PICK n \in DOMAIN quotes.asks \cap {name(y)} : quotes.asks[n].price = 100
      BY <3>1
    <3> QED
      BY <3>2
  <2>2. FeeKnown(Schedule, Reference, "SALE", 100, cell.at) =>
          Fee(Schedule, Reference, "SALE", 100, cell.at) = SaleFee
    BY <1>1, <1>2, BoardIs, DiscoveryAssumption DEF IsCatalogue
  <2>3. \A y \in Results(cell, s.counts) : /\ Made(cell, y, total) \in DOMAIN cell.asks
                                           /\ cell.asks[Made(cell, y, total)].price = 100
    BY <1>2, <1>4, <2>1
  <2>4. Cardinality(Results(cell, s.counts)) = 1
    BY <1>4, <1>5
  <2> HIDE DEF total
  <2>5. Value(cell, s.counts, total) = Estimate(cell.haircut)
    BY <1>1, <1>2, <1>3, <2>2, <2>3, <2>4, BoardIs, LoneValueIs
  <2> QED
    BY <1>2, <1>3, <2>5
<1> QED
  BY <1>2, <1>3, <1>5

-----------------------------------------------------------------------------
(* The depth of an input.                                                  *)
CostOrder(Q) == {p \in Q \X Q : \/ p[1].cost < p[2].cost
                                \/ p[1].cost = p[2].cost /\ p[1].id < p[2].id}

LEMMA CheapestListings ==
  ASSUME NEW Q, AreListings(Q), NEW n \in Nat, n <= Cardinality(Q)
  PROVE  /\ Cheapest(Q, n) \in kSubset(n, Q)
         /\ \A T \in kSubset(n, Q) : Spent(T) \in Nat /\ Spent(Cheapest(Q, n)) <= Spent(T)
<1> DEFINE B == CostOrder(Q)
           f == [l \in Q |-> l.cost]
<1>1. \A l \in Q : l.id \in Nat /\ l.cost \in Nat
  BY DEF AreListings
<1>2. Orders(B, Q)
  <2>1. ASSUME NEW x \in Q, NEW y \in Q, x # y PROVE <<x, y>> \in B <=> <<y, x>> \notin B
    <3>1. x.id # y.id
      BY <2>1 DEF AreListings
    <3> QED
      BY <1>1, <3>1 DEF CostOrder
  <2>2. ASSUME NEW x \in Q, NEW y \in Q, NEW z \in Q, <<x, y>> \in B, <<y, z>> \in B PROVE <<x, z>> \in B
    BY <1>1, <2>2 DEF CostOrder
  <2> QED
    BY <2>1, <2>2 DEF Orders
<1>3. Cheapest(Q, n) = First(Q, B, n)
  <2>1. ASSUME NEW l \in Q
        PROVE  {k \in Q : k.cost < l.cost \/ (k.cost = l.cost /\ k.id < l.id)} = Below(Q, B, l)
    BY <1>1 DEF Below, CostOrder
  <2> HIDE DEF B
  <2> QED
    BY <2>1 DEF Cheapest, First
<1>4. IsFiniteSet(Q) /\ (\A l \in Q : f[l] \in Nat) /\ \A x, y \in Q : <<x, y>> \in B => f[x] <= f[y]
  BY <1>1 DEF AreListings, CostOrder
<1>5. ASSUME NEW T \in SUBSET Q PROVE Spent(T) = SumOver(T, f) /\ Spent(T) \in Nat
  <2> DEFINE g == [l \in T |-> l.cost]
  <2>1. IsFiniteSet(T)
    BY <1>4, FS_Subset
  <2>2. \A l \in T : g[l] = f[l] /\ g[l] \in Nat
    BY <1>1
  <2>3. Spent(T) = SumOver(T, g)
    BY DEF Spent
  <2> HIDE DEF f, g
  <2> QED
    BY <2>1, <2>2, <2>3, SumSame, SumNat
<1> HIDE DEF B, f
<1>6. First(Q, B, n) \in SUBSET Q /\ Cardinality(First(Q, B, n)) = n
  BY <1>2, <1>4, FirstIs
<1>7. ASSUME NEW T \in kSubset(n, Q) PROVE Spent(T) \in Nat /\ Spent(Cheapest(Q, n)) <= Spent(T)
  <2>1. T \in SUBSET Q /\ n <= Cardinality(T)
    BY DEF kSubset
  <2>2. SumOver(First(Q, B, n), f) <= SumOver(T, f)
    BY <1>2, <1>4, <2>1, FirstIsLeast
  <2> QED
    BY <1>3, <1>5, <1>6, <2>1, <2>2
<1> QED
  BY <1>3, <1>6, <1>7 DEF kSubset

(* A mean rounded up is within a price exactly when the sum is.            *)
LEMMA MeanWithin ==
  ASSUME NEW x \in Nat, NEW n \in Nat \ {0}, NEW unit \in Int
  PROVE  RoundUp(x, n) <= unit <=> x <= n * unit
<1> DEFINE u == RoundUp(x, n)
<1>1. u \in Int /\ x <= n * u /\ n * (u - 1) < x /\ n * unit \in Int
  BY Rounding
<1> HIDE DEF u
<1>2. CASE u <= unit
  <2>1. n * u <= n * unit /\ n * u \in Int
    BY <1>1, <1>2, Monotone
  <2> QED
    BY <1>1, <1>2, <2>1 DEF u
<1>3. CASE unit <= u - 1
  <2>1. n * unit <= n * (u - 1) /\ n * (u - 1) \in Int
    BY <1>1, <1>3, Monotone
  <2> QED
    BY <1>1, <1>3, <2>1 DEF u
<1> QED
  BY <1>1, <1>2, <1>3

LEMMA DeepClear == DiscoveryInv => DeepLeadsClear
<1> SUFFICES ASSUME DiscoveryInv, NEW lead \in Leads, NEW listings \in Listings, NEW floor \in Floors,
                    NEW skin \in Skins
             PROVE
      LET slot == [skin |-> skin, quality |-> lead.quality, purse |-> Purse,
                   low |-> {BandLow[lead.wear]}, high |-> {BandHigh[lead.wear]}]
          qualifying == QualifyingListings(listings, slot)
          unit == EntryTargetUnitCost(lead, floor)
          evidence == AssessInputDepth(qualifying, lead.size, unit)
          purchases == kSubset(lead.size, qualifying)
      IN /\ evidence.passed <=> \E T \in purchases : Spent(T) <= lead.size * unit
         /\ evidence.passed => floor[1] * Spent(Cheapest(qualifying, lead.size)) <= floor[2] * lead.value
  BY DEF DeepLeadsClear
<1> DEFINE slot == [skin |-> skin, quality |-> lead.quality, purse |-> Purse,
                    low |-> {BandLow[lead.wear]}, high |-> {BandHigh[lead.wear]}]
           Q == QualifyingListings(listings, slot)
           n == lead.size
           unit == EntryTargetUnitCost(lead, floor)
           passed == AssessInputDepth(Q, n, unit).passed
           C == Cheapest(Q, n)
<1>1. n \in Nat \ {0} /\ lead.value \in Nat
  <2>1. lead \in board
    BY DEF Leads
  <2>2. PICK cell : IsCell(cell) /\ lead \in Sketched(cell)
    BY <2>1, BoardIs
  <2> QED
    BY <2>1, <2>2, BoardIs, SketchType DEF IsCell
<1>2. AreListings(Q)
  <2>1. AreListings(listings) /\ Q \in SUBSET listings
    BY DiscoveryAssumption DEF QualifyingListings
  <2> HIDE DEF Q
  <2>2. IsFiniteSet(Q)
    BY <2>1, FS_Subset DEF AreListings
  <2> QED
    BY <2>1, <2>2 DEF AreListings
<1>3. Cardinality(Q) \in Nat
  <2> HIDE DEF Q
  <2> QED
    BY <1>2, FS_CardinalityType DEF AreListings
<1>4. floor[1] \in Nat \ {0} /\ floor[2] \in Nat \ {0}
  BY DiscoveryAssumption
<1> DEFINE budget == EntryTargetCost(lead, floor)
           worth == lead.value * floor[2]
<1>5. worth \in Nat /\ budget = RoundDown(worth, floor[1]) /\ unit = RoundDown(budget, n)
  BY <1>1, <1>4, Product DEF EntryTargetCost, EntryTargetUnitCost
<1> HIDE DEF Q, n, unit, budget, worth
<1>6. /\ budget \in Int /\ floor[1] * budget <= worth
      /\ unit \in Int /\ n * unit <= budget
  <2>1. budget \in Int /\ floor[1] * budget <= worth
    <3> DEFINE d == floor[1]
    <3>1. d \in Nat \ {0} /\ worth \in Int
      BY <1>4, <1>5
    <3> HIDE DEF d
    <3>2. RoundDown(worth, d) \in Int /\ d * RoundDown(worth, d) <= worth
      BY <3>1, Rounding
    <3> QED
      BY <1>5, <3>2 DEF d
  <2> QED
    BY <1>1, <1>5, <2>1, Rounding
<1>7. passed = IF Cardinality(Q) < n THEN FALSE ELSE RoundUp(Spent(C), n) <= unit
  BY DEF AssessInputDepth, Mean, RoundUp
<1>8. CASE Cardinality(Q) < n
  <2>1. \A T : T \notin kSubset(n, Q)
    <3> SUFFICES ASSUME NEW T \in kSubset(n, Q) PROVE FALSE
      OBVIOUS
    <3>1. T \in SUBSET Q /\ Cardinality(T) = n
      BY DEF kSubset
    <3>2. Cardinality(T) <= Cardinality(Q)
      BY <1>2, <3>1, FS_Subset DEF AreListings
    <3> QED
      BY <1>1, <1>3, <1>8, <3>1, <3>2
  <2>2. ~passed
    BY <1>7, <1>8
  <2> QED
    BY <2>1, <2>2 DEF n, Q, unit
<1>9. CASE ~(Cardinality(Q) < n)
  <2>1. /\ C \in kSubset(n, Q) /\ Spent(C) \in Nat
        /\ \A T \in kSubset(n, Q) : Spent(T) \in Nat /\ Spent(C) <= Spent(T)
    BY <1>1, <1>2, <1>3, <1>9, CheapestListings
  <2>2. passed <=> Spent(C) <= n * unit
    BY <1>1, <1>6, <1>7, <1>9, <2>1, MeanWithin
  <2>3. n * unit \in Int
    BY <1>1, <1>6
  <2> HIDE DEF passed, C
  <2>4. passed <=> \E T \in kSubset(n, Q) : Spent(T) <= n * unit
    BY <2>1, <2>2, <2>3
  <2>5. passed => floor[1] * Spent(C) <= floor[2] * lead.value
    <3> SUFFICES ASSUME passed PROVE floor[1] * Spent(C) <= floor[2] * lead.value
      OBVIOUS
    <3>1. Spent(C) <= budget
      BY <1>6, <2>1, <2>2, <2>3
    <3>2. floor[1] * Spent(C) <= floor[1] * budget
      BY <1>4, <1>6, <2>1, <3>1, Monotone
    <3>3. floor[1] * Spent(C) \in Int /\ floor[1] * budget \in Int /\ worth = floor[2] * lead.value
      BY <1>1, <1>4, <1>6, <2>1 DEF worth
    <3> QED
      BY <1>5, <1>6, <3>2, <3>3
  <2> QED
    BY <2>4, <2>5 DEF passed, C, n, Q, unit
<1> QED
  BY <1>8, <1>9

-----------------------------------------------------------------------------
(* No step moves an estimate without news.                                 *)
LEMMA StepMovesWithEvidence ==
  ASSUME DiscoveryInv, [DiscoveryNext]_discoveryVars
  PROVE  [\A q \in Quality : Applied(q)' # Applied(q) => Samples(rows[q])' >= MinReliable /\ q \in shown']_loop
<1> SUFFICES ASSUME ~UNCHANGED loop, NEW q \in Quality, Applied(q)' # Applied(q)
             PROVE  Samples(rows[q])' >= MinReliable /\ q \in shown'
  OBVIOUS
<1>1. ~(rows' = rows)
  BY DEF Applied
<1>2. SweptBatch
  BY <1>1 DEF DiscoveryNext, discoveryVars, SweepAgain, Drift, MarketMoves
<1> QED
  BY <1>2, BatchMovesWithEvidence DEF DiscoveryInv, SweptBatch

LEMMA StepIsNoGoodNews ==
  ASSUME DiscoveryInv, DiscoveryNext, board # {}, board' # {}, quotes'.at = quotes.at,
         DOMAIN quotes'.asks \subseteq DOMAIN quotes.asks,
         \A n \in DOMAIN quotes'.asks : quotes'.asks[n] = quotes.asks[n],
         NEW s \in board', s.fate = "lead",
         \A n \in DOMAIN quotes.asks \ DOMAIN quotes'.asks : \A i \in Skins :
           registry.skins[i].name = n[1] => registry.skins[i].rarity # s.rarity
  PROVE  \E t \in board : /\ SameSketch(s, t)
                          /\ \/ t.fate = "rules"
                             \/ t.fate = "lead" /\ s.value <= t.value /\ s.cost = t.cost
<1>1. RegistryInv /\ EvidenceInv /\ quotes \in Catalogues
  BY DEF DiscoveryInv, BoardInv
<1>2. CASE SweepAgain
  <2>1. PICK catalogue \in Catalogues : \E rule \in Resolve(catalogue.at) :
          quotes' = catalogue /\ board' = SweepProspects(rule, catalogue.asks, catalogue.at, Haircuts)
    BY <1>2 DEF SweepAgain
  <2>2. PICK rule \in Resolve(catalogue.at) :
          quotes' = catalogue /\ board' = SweepProspects(rule, catalogue.asks, catalogue.at, Haircuts)
    BY <2>1
  <2>3. PICK before \in Resolve(quotes.at) : board = SweepProspects(before, quotes.asks, quotes.at, Haircuts)
    BY DEF DiscoveryInv, BoardInv
  <2>4. before = rule
    <3>1. Resolve(quotes.at) = {before}
      BY <1>1, SweepIs
    <3> QED
      BY <2>2, <3>1
  <2>5. PICK r \in DOMAIN rule.counts, q \in Quality, w \in Wears :
          s \in Sketched(CellIn(catalogue, rule, r, q, w)) /\ IsCell(CellIn(catalogue, rule, r, q, w))
    BY <1>1, <2>2, SweepIs
  <2> DEFINE a == CellIn(quotes, rule, r, q, w)
             b == CellIn(catalogue, rule, r, q, w)
  <2>6. IsCell(a)
    BY <1>1, <2>3, <2>4, SweepIs
  <2>7. /\ a.rarity = r /\ a.quality = q /\ a.wear = w /\ a.asks = quotes.asks
        /\ b.rarity = r /\ b.quality = q /\ b.wear = w /\ b.asks = catalogue.asks
        /\ a.size = b.size /\ a.haircut = b.haircut /\ a.at = quotes.at /\ b.at = catalogue.at
    BY DEF CellIn, CellOf
  <2> HIDE DEF a, b
  <2>8. s.rarity = r
    BY <1>1, <2>5, <2>7, SketchType DEF b
  <2>9. SameInputs(a, b)
    <3> SUFFICES ASSUME NEW i \in Skins, registry.skins[i].rarity = r
                 PROVE  /\ Name(i, q, w) \in DOMAIN quotes.asks <=> Name(i, q, w) \in DOMAIN catalogue.asks
                        /\ Name(i, q, w) \in DOMAIN quotes.asks =>
                             quotes.asks[Name(i, q, w)] = catalogue.asks[Name(i, q, w)]
      BY <2>7 DEF SameInputs
    <3>1. Name(i, q, w)[1] = registry.skins[i].name
      BY DEF Name
    <3> QED
      BY <2>2, <2>8, <3>1
  <2>10. Fewer(a, b)
    BY <2>2, <2>7, <2>9 DEF Fewer
  <2>11. PICK t \in Sketched(a) :
           /\ SameSketch(s, t)
           /\ \/ t.fate = "rules"
              \/ t.fate = "lead" /\ s.value <= t.value /\ s.cost = t.cost
    BY <1>1, <2>5, <2>6, <2>10, LeadStays DEF b
  <2>12. t \in board
    BY <1>1, <2>3, <2>4, SweepIs DEF a
  <2> QED
    BY <2>11, <2>12
<1>3. CASE SweptBatch
  BY <1>3 DEF SweptBatch
<1>4. CASE Drift
  <2>1. s \in board
    BY <1>4 DEF Drift
  <2>2. s.value \in Nat
    BY <2>1, BoardTypes DEF DiscoveryTypeOK
  <2> QED
    BY <2>1, <2>2 DEF SameSketch
<1> QED
  BY <1>2, <1>3, <1>4 DEF DiscoveryNext

-----------------------------------------------------------------------------
(* Sketches and histories stay of their types: rarities that have a next,   *)
(* haircuts and estimates in their ranges, no value below zero.            *)
THEOREM DiscoveryTypeCorrect == DiscoverySpec => []DiscoveryTypeOK
<1>1. DiscoveryInv => DiscoveryTypeOK
  BY BoardTypes
<1> QED
  BY <1>1, DiscoveryInvariant, PTL

(* What was imported is what the snapshot states, and a row is never taken *)
(* for its namesake's.                                                     *)
THEOREM ItemsIdentified == DiscoverySpec => []ItemsAreIdentified
<1>1. DiscoveryInv => ItemsAreIdentified
  BY ImportFaithful, IdentityCertain DEF DiscoveryInv, ItemsAreIdentified
<1> QED
  BY <1>1, DiscoveryInvariant, PTL

(* The haircut a sweep runs under has its fixed point at what the market    *)
(* pays, errs on the safe side, and is the one the sweep's leads carry.    *)
THEOREM HaircutsFollow == DiscoverySpec => []HaircutsFollowTheRecord
<1>1. DiscoveryInv => HaircutsFollowTheRecord
  BY EvidenceTracked, EvidenceConservative, SweepSpeaks DEF DiscoveryInv, HaircutsFollowTheRecord
<1> QED
  BY <1>1, DiscoveryInvariant, PTL

(* The sweep misses no contract, prices each at the least it costs, and a  *)
(* lead that the depth gate passes returns what was asked of it.           *)
THEOREM LeadsBuyable == DiscoverySpec => []LeadsAreBuyable
<1>1. DiscoveryInv => LeadsAreBuyable
  BY CheapestSketched, DeepClear DEF LeadsAreBuyable
<1> QED
  BY <1>1, DiscoveryInvariant, PTL

(* An estimate moves with evidence past the sample floor, and upwards only  *)
(* with a quote that comes.                                                *)
THEOREM NewsMoves == DiscoverySpec => OnlyNewsMoves
<1> DEFINE A == \A q \in Quality : Applied(q)' # Applied(q) => Samples(rows[q])' >= MinReliable /\ q \in shown'
           B == LET gone == DOMAIN quotes.asks \ DOMAIN quotes'.asks IN
                board # {} /\ board' # {} /\ quotes'.at = quotes.at
                  /\ DOMAIN quotes'.asks \subseteq DOMAIN quotes.asks
                  /\ (\A n \in DOMAIN quotes'.asks : quotes'.asks[n] = quotes.asks[n])
                => \A s \in board' :
                     /\ s.fate = "lead"
                     /\ \A n \in gone : \A i \in Skins :
                          registry.skins[i].name = n[1] => registry.skins[i].rarity # s.rarity
                     => \E t \in board :
                          /\ SameSketch(s, t)
                          /\ \/ t.fate = "rules"
                             \/ t.fate = "lead" /\ s.value <= t.value /\ s.cost = t.cost
<1>1. DiscoveryInv /\ [DiscoveryNext]_discoveryVars => [A]_loop
  BY StepMovesWithEvidence
<1>2. DiscoveryInv /\ [DiscoveryNext]_discoveryVars => [B]_discoveryVars
  <2> SUFFICES ASSUME DiscoveryInv, DiscoveryNext PROVE B
    OBVIOUS
  <2> QED
    BY StepIsNoGoodNews
<1>3. AnecdotesSteerNothing <=> [][A]_loop
  BY PTL DEF AnecdotesSteerNothing
<1>4. NoNewsIsNoGoodNews <=> [][B]_discoveryVars
  BY PTL DEF NoNewsIsNoGoodNews
<1> HIDE DEF A, B
<1> QED
  BY <1>1, <1>2, <1>3, <1>4, DiscoveryInvariant, PTL DEF DiscoverySpec, OnlyNewsMoves
=============================================================================
