-------------------------- MODULE LiveScanProofs ---------------------------
(***************************************************************************)
(* A live scan for every venue, market, retry policy and request budget:   *)
(* its requests are patient within the policy, its names within the        *)
(* budget, its client is closed; silence is not an empty market, and a     *)
(* card is made of listings that were seen again.  And the search, for     *)
(* every stock of listings, shape and budget: what Solve returns is a      *)
(* choice of real listings, and the cheapest there is in its bands.        *)
(***************************************************************************)
EXTENDS LiveScan, FoldProofs

-----------------------------------------------------------------------------
(* What sorting a set by a total order returns.                            *)

(* Numbers in growing order. *)
LEMMA NumbersListed ==
  ASSUME NEW I \in SUBSET Int, IsFiniteSet(I)
  PROVE  Lists(InOrder(I, LAMBDA j, k : j < k), I)
  <1> DEFINE B == {p \in I \X I : p[1] < p[2]}
             order == InOrder(I, LAMBDA j, k : j < k)
  <1>1. Orders(B, I)
    BY DEF Orders
  <1>2. \A x \in I : {y \in I \ {x} : y < x} = Below(I, B, x)
    BY DEF Below
  <1>3. /\ DOMAIN order = 1..Cardinality(I)
        /\ \A k \in 1..Cardinality(I) :
             order[k] = CHOOSE x \in I : Cardinality({y \in I \ {x} : y < x}) = k - 1
    BY DEF InOrder
  <1> HIDE DEF B, order
  <1>4. ASSUME NEW k \in 1..Cardinality(I), NEW x \in I, Cardinality(Below(I, B, x)) = k - 1
        PROVE  order[k] \in I /\ Cardinality(Below(I, B, order[k])) = k - 1
    <2>1. Cardinality({y \in I \ {x} : y < x}) = k - 1
      BY <1>2, <1>4
    <2>2. order[k] \in I /\ Cardinality({y \in I \ {order[k]} : y < order[k]}) = k - 1
      BY <1>3, <2>1
    <2>3. QED
      BY <1>2, <2>2
  <1>5. Lists(order, I)
    BY <1>1, <1>3, <1>4, OrderedLists
  <1>6. QED
    BY <1>5 DEF order

(* Positions, too, and no more of them than there are. *)
LEMMA PositionsListed ==
  ASSUME NEW n \in Nat, NEW I \in SUBSET (1..n)
  PROVE  Lists(InOrder(I, LAMBDA j, k : j < k), I) /\ Cardinality(I) <= n
  <1>1. IsFiniteSet(1..n) /\ Cardinality(1..n) = n
    BY FS_Interval
  <1>2. IsFiniteSet(I) /\ Cardinality(I) <= n
    BY <1>1, FS_Subset
  <1>3. I \in SUBSET Int
    OBVIOUS
  <1>4. Lists(InOrder(I, LAMBDA j, k : j < k), I)
    BY ONLY <1>2, <1>3, NumbersListed
  <1> DEFINE order == InOrder(I, LAMBDA j, k : j < k)
  <1>5. Lists(order, I)
    BY ONLY <1>4
  <1> HIDE DEF order
  <1>6. QED
    BY <1>2, <1>5 DEF order

(* Picked keeps to the entries of s, and has no more of them.               *)
LEMMA PickedEntries ==
  ASSUME NEW X, NEW s \in Seq(X), NEW I \in SUBSET (DOMAIN s)
  PROVE  Picked(s, I) \in Seq(X) /\ Len(Picked(s, I)) <= Len(s)
  <1> DEFINE order == InOrder(I, LAMBDA j, k : j < k)
  <1>1. DOMAIN s = 1..Len(s) /\ Len(s) \in Nat
    OBVIOUS
  <1>2. Lists(order, I) /\ Cardinality(I) <= Len(s)
    BY <1>1, PositionsListed
  <1>3. Picked(s, I) = [k \in 1..Cardinality(I) |-> s[order[k]]]
    BY DEF Picked
  <1> HIDE DEF order
  <1>4. \A k \in 1..Cardinality(I) : s[order[k]] \in X
    BY <1>1, <1>2 DEF Lists
  <1>5. QED
    BY <1>2, <1>3, <1>4 DEF Lists

-----------------------------------------------------------------------------
(* The names to price, chosen collection by collection.                    *)

(* The collections of these rows. *)
Homes(rows) == {Home[rows[k].skin] : k \in DOMAIN rows}

LEMMA LiquidityLists ==
  ASSUME NEW rows \in Seq(Offer)
  PROVE  Lists(ByLiquidity(rows), Homes(rows)) /\ Homes(rows) \subseteq DOMAIN Pool
  <1> DEFINE S == Homes(rows)
             Less(c, d) == \/ Count(rows, c) > Count(rows, d)
                           \/ Count(rows, c) = Count(rows, d) /\ c <= d
             B == {p \in S \X S : Less(p[1], p[2])}
             order == ByLiquidity(rows)
  <1>1. DOMAIN rows = 1..Len(rows) /\ Len(rows) \in Nat /\ IsFiniteSet(DOMAIN rows)
    <2>1. DOMAIN rows = 1..Len(rows) /\ Len(rows) \in Nat
      OBVIOUS
    <2>2. QED
      BY <2>1, FS_Interval
  <1>2. S \subseteq DOMAIN Pool /\ DOMAIN Pool \subseteq Nat
    <2>1. \A k \in DOMAIN rows : rows[k] \in Offer
      OBVIOUS
    <2>2. QED
      BY <2>1, ScanAssumption DEF Homes
  <1>3. IsFiniteSet(S)
    <2> DEFINE h == [k \in DOMAIN rows |-> Home[rows[k].skin]]
    <2>1. h \in Surjection(DOMAIN rows, S)
      BY DEF Surjection, Homes
    <2> HIDE DEF h, S
    <2>2. QED
      BY <1>1, <2>1, FS_Surjection
  <1>4. \A c \in S : Count(rows, c) \in Nat
    <2> SUFFICES ASSUME NEW c \in S
                 PROVE  Count(rows, c) \in Nat
      OBVIOUS
    <2>1. {k \in DOMAIN rows : Home[rows[k].skin] = c} \in SUBSET DOMAIN rows
      OBVIOUS
    <2>2. IsFiniteSet({k \in DOMAIN rows : Home[rows[k].skin] = c})
      BY <1>1, <2>1, FS_Subset
    <2>3. QED
      BY <2>2, FS_CardinalityType DEF Count
  <1> HIDE DEF S
  <1>5. Orders(B, S)
    <2>1. \A c \in S : c \in Nat /\ Count(rows, c) \in Nat
      BY <1>2, <1>4
    <2>2. \A c, d \in S : <<c, d>> \in B <=> Less(c, d)
      OBVIOUS
    <2> HIDE DEF B
    <2>3. \A c, d \in S : c # d => (Less(c, d) <=> ~Less(d, c))
      BY <2>1
    <2>4. \A c, d, e \in S : Less(c, d) /\ Less(d, e) => Less(c, e)
      BY <2>1
    <2> HIDE DEF Less
    <2>5. QED
      BY <2>2, <2>3, <2>4 DEF Orders
  <1>6. \A x \in S : {y \in S \ {x} : Less(y, x)} = Below(S, B, x)
    BY DEF Below
  <1>7. /\ DOMAIN order = 1..Cardinality(S)
        /\ \A k \in 1..Cardinality(S) :
             order[k] = CHOOSE x \in S : Cardinality({y \in S \ {x} : Less(y, x)}) = k - 1
    BY DEF InOrder, ByLiquidity, S, Homes
  <1> HIDE DEF B, order, Less
  <1>8. ASSUME NEW k \in 1..Cardinality(S), NEW x \in S, Cardinality(Below(S, B, x)) = k - 1
        PROVE  order[k] \in S /\ Cardinality(Below(S, B, order[k])) = k - 1
    <2>1. Cardinality({y \in S \ {x} : Less(y, x)}) = k - 1
      BY <1>6, <1>8
    <2>2. order[k] \in S /\ Cardinality({y \in S \ {order[k]} : Less(y, order[k])}) = k - 1
      BY <1>7, <2>1
    <2>3. QED
      BY <1>6, <2>2
  <1>9. Lists(order, S)
    BY <1>3, <1>5, <1>7, <1>8, OrderedLists
  <1>10. QED
    BY <1>2, <1>9 DEF S, order

LEMMA NamesFinite ==
  ASSUME NEW c \in DOMAIN Pool
  PROVE  IsFiniteSet(Names(c)) /\ Cardinality(Names(c)) \in Nat
  <1>1. IsFiniteSet(Pool[c])
    BY ScanAssumption
  <1>2. IsFiniteSet(Wears)
    <2>1. 1 \in Int /\ 5 \in Int
      OBVIOUS
    <2>2. QED
      BY <2>1, FS_Interval DEF Wears
  <1>3. IsFiniteSet(Pool[c] \X Wears)
    BY <1>1, <1>2, FS_Product
  <1>4. Names(c) \in SUBSET (Pool[c] \X Wears)
    BY DEF Names, Reachable
  <1>5. IsFiniteSet(Names(c))
    BY <1>3, <1>4, FS_Subset
  <1>6. QED
    BY <1>5, FS_CardinalityType

(* What one more collection makes of the names so far. *)
Grown(w, c) ==
  IF Names(c) = {} \/ ~FitsBudget(w.names, c) THEN w
  ELSE [names |-> w.names \cup Names(c), priced |-> w.priced \cup {c}]

NoNames == [names |-> {}, priced |-> {}]

(* f is the walk that Wanted takes over the first n collections.            *)
IsWalk(f, order, n) ==
  f = [m \in 0..n |-> IF m = 0 THEN NoNames ELSE Grown(f[m - 1], order[m])]

LEMMA WalkExists ==
  ASSUME NEW order
  PROVE  \A n \in Nat : \E f : IsWalk(f, order, n)
  <1> DEFINE S == {n \in Nat : \E f : IsWalk(f, order, n)}
  <1>1. 0 \in S
    <2>1. IsWalk([m \in 0..0 |-> NoNames], order, 0)
      BY DEF IsWalk
    <2>2. QED
      BY <2>1
  <1>2. ASSUME NEW n \in S \cap Nat
        PROVE  n + 1 \in S
    <2>1. PICK f : IsWalk(f, order, n)
      OBVIOUS
    <2> DEFINE g == [m \in 0..n + 1 |-> IF m <= n THEN f[m] ELSE Grown(f[m - 1], order[m])]
    <2>2. \A m \in 0..n + 1 : g[m] = IF m = 0 THEN NoNames ELSE Grown(g[m - 1], order[m])
      <3>1. \A m \in 0..n : f[m] = IF m = 0 THEN NoNames ELSE Grown(f[m - 1], order[m])
        BY <2>1 DEF IsWalk
      <3>2. \A m \in 0..n : g[m] = f[m]
        OBVIOUS
      <3>3. g[n + 1] = Grown(f[n], order[n + 1])
        <4>1. n + 1 \in 0..n + 1 /\ ~(n + 1 <= n) /\ (n + 1) - 1 = n
          OBVIOUS
        <4>2. QED
          BY <4>1
      <3> HIDE DEF g
      <3> SUFFICES ASSUME NEW m \in 0..n + 1
                   PROVE  g[m] = IF m = 0 THEN NoNames ELSE Grown(g[m - 1], order[m])
        OBVIOUS
      <3>4. CASE m \in 0..n
        <4>1. m # 0 => m - 1 \in 0..n
          BY <3>4
        <4>2. QED
          BY <3>1, <3>2, <3>4, <4>1
      <3>5. CASE m = n + 1
        <4>1. m # 0 /\ m - 1 = n /\ n \in 0..n
          BY <3>5
        <4>2. g[n] = f[n]
          BY <3>2, <4>1
        <4>3. QED
          BY <3>3, <3>5, <4>1, <4>2
      <3>6. QED
        BY <3>4, <3>5
    <2>3. g = [m \in 0..n + 1 |-> g[m]]
      OBVIOUS
    <2> HIDE DEF g
    <2>4. IsWalk(g, order, n + 1)
      BY <2>2, <2>3 DEF IsWalk
    <2>5. QED
      BY <2>4
  <1> HIDE DEF S
  <1>3. \A n \in Nat : n \in S
    BY <1>1, <1>2, Induction
  <1>4. QED
    BY <1>3 DEF S

(* The names of the priced collections fit, and no other would have.        *)
Fits(w, C) ==
  /\ w.priced \subseteq DOMAIN Pool
  /\ w.names = UNION {Names(c) : c \in w.priced}
  /\ IsFiniteSet(w.names) /\ Cardinality(w.names) \in Nat /\ Cardinality(w.names) <= MaxWanted
  /\ \A c \in C : c \in w.priced \/ Names(c) = {} \/ ~FitsBudget(w.names, c)

LEMMA GrownFits ==
  ASSUME NEW w, NEW C \in SUBSET DOMAIN Pool, Fits(w, C), NEW d \in DOMAIN Pool
  PROVE  Fits(Grown(w, d), C \cup {d})
  <1>0. /\ MaxWanted \in Nat
        /\ \A c \in DOMAIN Pool : IsFiniteSet(Names(c)) /\ Cardinality(Names(c)) \in Nat
    BY ScanAssumption, NamesFinite
  <1>1. CASE Names(d) = {} \/ ~FitsBudget(w.names, d)
    BY <1>1 DEF Grown, Fits
  <1>2. CASE Names(d) # {} /\ FitsBudget(w.names, d)
    <2> DEFINE v == Grown(w, d)
    <2>1. v.names = w.names \cup Names(d) /\ v.priced = w.priced \cup {d}
      BY <1>2 DEF Grown
    <2> HIDE DEF v
    <2>2. /\ IsFiniteSet(v.names)
          /\ Cardinality(v.names) = Cardinality(w.names) + Cardinality(Names(d))
                                      - Cardinality(w.names \cap Names(d))
      BY <1>0, <2>1, FS_Union DEF Fits
    <2>3. Cardinality(w.names \cap Names(d)) \in Nat /\ Cardinality(v.names) \in Nat
      <3>1. w.names \cap Names(d) \in SUBSET Names(d)
        OBVIOUS
      <3>2. IsFiniteSet(w.names \cap Names(d))
        BY <1>0, <3>1, FS_Subset
      <3>3. QED
        BY <2>2, <3>2, FS_CardinalityType
    <2>4. Cardinality(v.names) <= MaxWanted
      BY <1>0, <1>2, <2>2, <2>3 DEF Fits, FitsBudget
    <2>5. Cardinality(w.names) <= Cardinality(v.names)
      <3>1. w.names \in SUBSET v.names
        BY <2>1
      <3>2. QED
        BY <2>2, <3>1, FS_Subset
    <2>6. v.names = UNION {Names(c) : c \in v.priced}
      BY <2>1 DEF Fits
    <2>7. ASSUME NEW c \in C \cup {d}
          PROVE  c \in v.priced \/ Names(c) = {} \/ ~FitsBudget(v.names, c)
      <3>1. CASE c = d
        BY <2>1, <3>1
      <3>2. CASE c \in C
        <4>1. c \in w.priced \/ Names(c) = {} \/ ~FitsBudget(w.names, c)
          BY <3>2 DEF Fits
        <4>2. ~FitsBudget(w.names, c) => ~FitsBudget(v.names, c)
          BY <1>0, <2>3, <2>5, <3>2 DEF FitsBudget, Fits
        <4>3. QED
          BY <2>1, <4>1, <4>2
      <3>3. QED
        BY <3>1, <3>2
    <2>8. v.priced \subseteq DOMAIN Pool
      BY <2>1 DEF Fits
    <2>9. Fits(v, C \cup {d})
      BY <2>2, <2>3, <2>4, <2>6, <2>7, <2>8 DEF Fits
    <2>10. QED
      BY <2>9 DEF v
  <1>3. QED
    BY <1>1, <1>2

LEMMA WalkFits ==
  ASSUME NEW order, NEW N \in Nat, \A k \in 1..N : order[k] \in DOMAIN Pool,
         NEW f, IsWalk(f, order, N)
  PROVE  Fits(f[N], {order[k] : k \in 1..N})
  <1> DEFINE C(n) == {order[k] : k \in 1..n}
             S == {n \in Nat : n <= N => Fits(f[n], C(n))}
  <1>1. 0 \in S
    <2>1. f[0] = NoNames
      BY DEF IsWalk
    <2>2. IsFiniteSet({}) /\ Cardinality({}) = 0
      BY FS_EmptySet
    <2>3. MaxWanted \in Nat
      BY ScanAssumption
    <2>4. Fits(NoNames, C(0))
      BY <2>2, <2>3 DEF Fits, NoNames
    <2>5. QED
      BY <2>1, <2>4
  <1>2. ASSUME NEW n \in S \cap Nat
        PROVE  n + 1 \in S
    <2> SUFFICES ASSUME n + 1 <= N
                 PROVE  Fits(f[n + 1], C(n + 1))
      OBVIOUS
    <2>1. Fits(f[n], C(n)) /\ C(n) \in SUBSET DOMAIN Pool
      OBVIOUS
    <2>2. f[n + 1] = Grown(f[n], order[n + 1])
      <3>1. n + 1 \in 0..N /\ n + 1 # 0 /\ (n + 1) - 1 = n
        OBVIOUS
      <3>2. QED
        BY <3>1 DEF IsWalk
    <2>3. order[n + 1] \in DOMAIN Pool
      OBVIOUS
    <2>4. C(n + 1) = C(n) \cup {order[n + 1]}
      OBVIOUS
    <2> HIDE DEF C
    <2>5. QED
      BY <2>1, <2>2, <2>3, <2>4, GrownFits
  <1> HIDE DEF S
  <1>3. \A n \in Nat : n \in S
    BY <1>1, <1>2, Induction
  <1>4. QED
    BY <1>3 DEF S

(* What Wanted chooses among the collections of the rows.                   *)
LEMMA WantedFits ==
  ASSUME NEW rows \in Seq(Offer)
  PROVE  Fits(Wanted(rows), Homes(rows))
  <1> DEFINE order == ByLiquidity(rows)
             N == Len(order)
             W(h) == h = [m \in 0..N |->
                           IF m = 0 THEN [names |-> {}, priced |-> {}]
                           ELSE IF Names(order[m]) = {} \/ ~FitsBudget(h[m - 1].names, order[m])
                                THEN h[m - 1]
                           ELSE [names |-> h[m - 1].names \cup Names(order[m]),
                                 priced |-> h[m - 1].priced \cup {order[m]}]]
             f == CHOOSE h : W(h)
  <1>1. Wanted(rows) = f[N]
    BY DEF Wanted
  <1>2. Lists(order, Homes(rows)) /\ Homes(rows) \subseteq DOMAIN Pool
    BY LiquidityLists
  <1>3. N = Cardinality(Homes(rows)) /\ N \in Nat
    <2>1. order = [k \in 1..Cardinality(Homes(rows)) |-> order[k]] /\ Cardinality(Homes(rows)) \in Nat
      BY <1>2 DEF Lists, ByLiquidity, InOrder
    <2> HIDE DEF order
    <2>2. QED
      BY <2>1
  <1> HIDE DEF order, N
  <1>4. \E h : W(h)
    <2>1. PICK h : IsWalk(h, order, N)
      BY <1>3, WalkExists
    <2>2. W(h)
      BY <2>1 DEF IsWalk, Grown, NoNames
    <2> HIDE DEF W
    <2>3. QED
      BY <2>2
  <1> HIDE DEF W
  <1>5. W(f)
    BY <1>4
  <1> HIDE DEF f
  <1>6. IsWalk(f, order, N)
    BY <1>5 DEF W, IsWalk, Grown, NoNames
  <1>7. \A k \in 1..N : order[k] \in DOMAIN Pool
    BY <1>2, <1>3 DEF Lists
  <1>8. Fits(f[N], {order[k] : k \in 1..N})
    BY <1>3, <1>6, <1>7, WalkFits
  <1>9. Homes(rows) = {order[k] : k \in 1..N}
    BY <1>2, <1>3 DEF Lists
  <1>10. QED
    BY <1>1, <1>8, <1>9

-----------------------------------------------------------------------------
(* The inductive invariant, part by part.                                   *)

CallPcs == {"idle", "send", "wait", "answered", "failed"}

(* A request's waits are one less than its attempts, and bounded.           *)
CallInv ==
  /\ call \in [pc: CallPcs, attempt: 0..MaxAttempts, error: Errors \cup {"none"},
               stated: RetryAfters, waits: Seq([long: Int, told: BOOLEAN])]
  /\ call.pc = "idle" => call = Idle
  /\ call.pc # "idle" => call.attempt >= 1 /\ Len(call.waits) = call.attempt - 1
  /\ call.pc = "wait" => call.attempt < MaxAttempts
  /\ \A k \in DOMAIN call.waits :
       4 * call.waits[k].long > 5 * MaxDelay => call.waits[k].told

FetchInv ==
  /\ DOMAIN fetch = {"pc", "query", "limit", "rows", "served", "pages", "at", "status"}
  /\ fetch.pc \in {"idle", "fetching", "ok", "refused"} /\ fetch.status \in Statuses \cup {"none"}
  /\ fetch.limit \in Nat /\ fetch.rows \in Seq(Offer) /\ fetch.served \in Nat
  /\ fetch.pages \in Nat /\ fetch.at \in Nat
  /\ QuietIsNotBroken

Pcs == {"start", "fetch", "sales", "asks", "quotes", "loop", "verify"} \cup Terminal

ScanShape ==
  /\ DOMAIN scan = {"pc", "client", "limit", "targets", "listings", "wanted", "priced", "requests",
                    "evidence", "reference", "comp", "budget", "solved", "held", "cards",
                    "bundle", "verified", "alive"}
  /\ scan.pc \in Pcs
  /\ scan.targets \in Seq(STRING) /\ scan.listings \in Seq(Offer)
  /\ scan.evidence \subseteq scan.priced
  /\ scan.pc \in {"start", "fetch"} => scan.evidence = {}
  /\ scan.pc \notin {"start", "escaped"} => MaxAttempts > 0

(* Requests are under way only where the scan waits for one.                *)
CallsHavePurpose ==
  call.pc # "idle" =>
    \/ scan.pc = "fetch" /\ fetch.pc = "fetching" /\ Wants
    \/ scan.pc \in {"sales", "asks", "quotes"}
    \/ scan.pc = "verify" /\ Len(scan.verified) + 1 \in DOMAIN scan.bundle.chosen

(* While every verdict so far is a confirmation, the listings seen alive    *)
(* are those asked about.                                                   *)
VerifiedSoFar ==
  /\ scan.verified \in Seq({"same", "changed", "unknown", "refused"})
  /\ DOMAIN scan.verified \subseteq DOMAIN scan.bundle.chosen
  /\ Confirmed => scan.alive = {scan.bundle.chosen[k] : k \in DOMAIN scan.verified}

CardsAreHeld == CardsAreLive /\ \A card \in scan.cards : card.offers \subseteq scan.held

LiveInv ==
  /\ CallInv /\ FetchInv /\ market \in Seq(Offer) /\ ScanShape /\ CallsHavePurpose
  /\ PricesWithinBudget /\ ClientIsClosed /\ VerifiedSoFar /\ CardsAreHeld

-----------------------------------------------------------------------------
(* One request.                                                             *)

(* The capped delay and its jitter never pass five quarters of MaxDelay.    *)
LEMMA DelayBounded ==
  ASSUME NEW attempt \in Nat \ {0}, NEW d \in DelayFor(attempt)
  PROVE  d \in Int /\ 4 * d <= 5 * MaxDelay
  <1>1. MaxDelay \in Nat /\ BaseDelay \in Nat
    BY RetryAssumption
  <1>2. Raw(attempt) \in Int /\ Raw(attempt) <= MaxDelay
    BY <1>1 DEF Raw
  <1>3. d = (3 * Raw(attempt)) \div 4 \/ d = (5 * Raw(attempt)) \div 4
    BY DEF DelayFor
  <1> HIDE DEF Raw
  <1>4. QED
    BY <1>1, <1>2, <1>3

LEMMA IdleInv ==
  ASSUME call' \in {Idle, Started}, call' = Started => MaxAttempts > 0
  PROVE  CallInv'
  <1>1. << >> \in Seq([long: Int, told: BOOLEAN]) /\ Len(<< >>) = 0 /\ DOMAIN << >> = {}
    OBVIOUS
  <1>2. MaxAttempts \in Nat /\ 0 \in RetryAfters
    BY RetryAssumption
  <1>3. call' = [pc |-> "idle", attempt |-> 0, error |-> "none", stated |-> 0, waits |-> << >>]
          \/ call' = [pc |-> "send", attempt |-> 1, error |-> "none", stated |-> 0, waits |-> << >>]
    BY DEF Idle, Started
  <1>4. CASE call'.pc = "idle"
    <2>1. call' = Idle
      BY <1>3, <1>4 DEF Idle
    <2>2. /\ call'.attempt = 0 /\ call'.error = "none" /\ call'.stated = 0 /\ call'.waits = << >>
          /\ call' = [pc |-> "idle", attempt |-> 0, error |-> "none", stated |-> 0, waits |-> << >>]
      BY <2>1 DEF Idle
    <2>3. 0 \in 0..MaxAttempts
      BY <1>2
    <2>4. QED
      BY <1>1, <1>2, <1>4, <2>1, <2>2, <2>3 DEF CallInv, CallPcs
  <1>5. CASE call'.pc # "idle"
    <2>1. /\ call' = [pc |-> "send", attempt |-> 1, error |-> "none", stated |-> 0, waits |-> << >>]
          /\ call'.pc = "send" /\ call'.attempt = 1 /\ call'.waits = << >>
      BY <1>3, <1>5
    <2>2. 1 \in 0..MaxAttempts
      <3>1. call' = Started
        BY <1>5 DEF Idle
      <3>2. QED
        BY <1>2, <3>1
    <2>3. QED
      BY <1>1, <1>2, <2>1, <2>2 DEF CallInv, CallPcs
  <1>6. QED
    BY <1>4, <1>5

LEMMA RestInv ==
  ASSUME CallInv, RestNext
  PROVE  CallInv' /\ call.pc # "idle" /\ call'.pc # "idle"
  <1>0. MaxAttempts \in Nat /\ RetryAfters \subseteq Nat /\ 0 \in RetryAfters /\ MaxDelay \in Nat
    BY RetryAssumption
  <1>1. /\ call.attempt \in 0..MaxAttempts /\ call.waits \in Seq([long: Int, told: BOOLEAN])
        /\ call.stated \in RetryAfters /\ call.error \in Errors \cup {"none"}
        /\ DOMAIN call = {"pc", "attempt", "error", "stated", "waits"}
    BY DEF CallInv
  <1>2. ASSUME NEW pc \in {"answered", "failed", "wait"}, NEW error \in Errors \cup {"none"},
               NEW stated \in RetryAfters, call.pc = "send",
               pc = "wait" => call.attempt # MaxAttempts,
               call' = [call EXCEPT !.pc = pc, !.error = error, !.stated = stated]
        PROVE  CallInv' /\ call'.pc # "idle"
    <2>1. /\ call'.pc = pc /\ call'.attempt = call.attempt /\ call'.waits = call.waits
      BY <1>1, <1>2
    <2>2. call' \in [pc: CallPcs, attempt: 0..MaxAttempts, error: Errors \cup {"none"},
                     stated: RetryAfters, waits: Seq([long: Int, told: BOOLEAN])]
      BY <1>2 DEF CallInv, CallPcs
    <2>3. pc = "wait" => call.attempt < MaxAttempts
      BY <1>0, <1>1, <1>2
    <2>4. QED
      BY <1>2, <2>1, <2>2, <2>3 DEF CallInv
  <1>3. CASE Answer
    <2>1. call' = [call EXCEPT !.pc = "answered", !.error = "none", !.stated = call.stated]
      BY <1>1, <1>3 DEF Answer, CallInv
    <2>2. QED
      BY <1>1, <1>2, <1>3, <2>1 DEF Answer
  <1>4. CASE Refuse \/ Reject
    <2>1. PICK error \in Errors : call' = [call EXCEPT !.pc = "failed", !.error = error]
      BY <1>4 DEF Refuse, Reject, Failed, Errors
    <2>2. call' = [call EXCEPT !.pc = "failed", !.error = error, !.stated = call.stated]
      BY <1>1, <2>1 DEF CallInv
    <2>3. QED
      BY <1>1, <1>2, <1>4, <2>2 DEF Refuse, Reject
  <1>5. CASE Limit \/ Break
    <2>1. PICK error \in Errors, stated \in RetryAfters : call' = Retried(error, stated)
      BY <1>0, <1>5 DEF Limit, Break, Errors
    <2> DEFINE pc == IF GivesUp(call.attempt) THEN "failed" ELSE "wait"
    <2>2. call' = [call EXCEPT !.pc = pc, !.error = error, !.stated = stated]
      BY <1>1, <2>1 DEF Retried, CallInv
    <2>3. pc \in {"answered", "failed", "wait"} /\ (pc = "wait" => call.attempt # MaxAttempts)
      BY DEF GivesUp
    <2> HIDE DEF pc
    <2>4. QED
      BY <1>2, <1>5, <2>2, <2>3 DEF Limit, Break
  <1>6. CASE Sleep
    <2>1. PICK delay \in NextWait :
            call' = [call EXCEPT !.pc = "send", !.attempt = call.attempt + 1,
                       !.waits = Append(SubSeq(call.waits, 1, call.attempt - 1),
                                        [long |-> delay, told |-> call.error = "limited"])]
      BY <1>1, <1>6 DEF Sleep, Counted
    <2> DEFINE w == [long |-> delay, told |-> call.error = "limited"]
    <2>2. /\ call.pc = "wait" /\ call.attempt \in Nat \ {0} /\ call.attempt < MaxAttempts
          /\ Len(call.waits) = call.attempt - 1
      BY <1>0, <1>1, <1>6 DEF Sleep, CallInv
    <2>3. delay \in Int /\ (4 * delay > 5 * MaxDelay => call.error = "limited")
      <3>1. CASE call.error = "limited" /\ call.stated > 0
        <4>1. delay = call.stated
          BY <3>1 DEF NextWait
        <4>2. call.stated \in Nat
          BY <1>0, <1>1
        <4>3. QED
          BY <3>1, <4>1, <4>2
      <3>2. CASE ~(call.error = "limited" /\ call.stated > 0)
        <4>1. delay \in DelayFor(call.attempt)
          BY <3>2 DEF NextWait
        <4>2. delay \in Int /\ 4 * delay <= 5 * MaxDelay
          BY <2>2, <4>1, DelayBounded
        <4>3. QED
          BY <1>0, <4>2
      <3>3. QED
        BY <3>1, <3>2
    <2>4. SubSeq(call.waits, 1, call.attempt - 1) = call.waits
      BY <1>1, <2>2
    <2>5. w \in [long: Int, told: BOOLEAN] /\ (4 * w.long > 5 * MaxDelay => w.told)
      BY <2>3
    <2> HIDE DEF w
    <2>6. /\ call'.pc = "send" /\ call'.attempt = call.attempt + 1
          /\ call'.waits = Append(call.waits, w)
          /\ call'.error = call.error /\ call'.stated = call.stated
      BY <1>1, <2>1, <2>4 DEF w
    <2>7. /\ call'.waits \in Seq([long: Int, told: BOOLEAN]) /\ Len(call'.waits) = call.attempt
          /\ \A k \in DOMAIN call'.waits : \/ k \in DOMAIN call.waits /\ call'.waits[k] = call.waits[k]
                                           \/ call'.waits[k] = w
      BY <1>1, <2>2, <2>5, <2>6
    <2>8. call' \in [pc: CallPcs, attempt: 0..MaxAttempts, error: Errors \cup {"none"},
                     stated: RetryAfters, waits: Seq([long: Int, told: BOOLEAN])]
      <3>1. call.attempt + 1 \in 0..MaxAttempts
        BY <1>0, <2>2
      <3>2. DOMAIN call' = DOMAIN call
        BY <2>1
      <3>3. call' = [pc |-> call'.pc, attempt |-> call'.attempt, error |-> call'.error,
                     stated |-> call'.stated, waits |-> call'.waits]
        BY <1>1, <2>1, <3>2 DEF CallInv
      <3>4. QED
        BY <1>1, <2>6, <2>7, <3>1, <3>3 DEF CallPcs
    <2>9. \A k \in DOMAIN call'.waits : 4 * call'.waits[k].long > 5 * MaxDelay => call'.waits[k].told
      BY <2>5, <2>7 DEF CallInv
    <2>10. QED
      BY <2>2, <2>6, <2>7, <2>8, <2>9 DEF CallInv
  <1>7. call.pc # "idle"
    BY DEF RestNext, Answer, Refuse, Reject, Limit, Break, Sleep
  <1>8. QED
    BY <1>3, <1>4, <1>5, <1>6, <1>7 DEF RestNext

LEMMA CallFacts ==
  ASSUME CallInv
  PROVE  CallTypeOK /\ PatienceIsBounded
  <1>0. MaxAttempts \in Nat
    BY RetryAssumption
  <1>1. call.attempt \in 0..MaxAttempts /\ call.waits \in Seq([long: Int, told: BOOLEAN])
    BY DEF CallInv
  <1>2. call = Idle \/ Len(call.waits) < MaxAttempts
    <2>1. CASE call.pc = "idle"
      BY <2>1 DEF CallInv
    <2>2. CASE call.pc # "idle"
      BY <1>0, <1>1, <2>2 DEF CallInv
    <2>3. QED
      BY <2>1, <2>2
  <1>3. CallTypeOK
    BY <1>2 DEF CallTypeOK, CallInv, CallPcs
  <1>4. PatienceIsBounded
    BY DEF PatienceIsBounded, CallInv
  <1>5. QED
    BY <1>3, <1>4

-----------------------------------------------------------------------------
(* A fetch, page by page.                                                   *)

(* A fetch that goes on or ends with these rows stays accounted for.        *)
LEMMA FetchGoesOn ==
  ASSUME FetchInv, NEW read, DOMAIN read = DOMAIN fetch, read.pc = "fetching",
         read.limit = fetch.limit, read.status = fetch.status,
         read.rows \in Seq(Offer), read.served \in Nat, read.pages \in Nat, read.at \in Nat,
         Len(read.rows) <= fetch.limit, read.pages <= MaxPages,
         fetch' \in {read, Ended(read)}
  PROVE  FetchInv' /\ fetch'.pc # "idle"
  <1>2. CASE fetch' = read
    <2>1. MaxPages' = MaxPages
      BY <1>2 DEF MaxPages
    <2>2. QED
      BY <1>2, <2>1 DEF FetchInv, QuietIsNotBroken
  <1>3. CASE fetch' = Ended(read)
    <2>1. /\ fetch'.limit = fetch.limit /\ fetch'.rows = read.rows /\ fetch'.served = read.served
          /\ fetch'.pages = read.pages /\ fetch'.at = read.at
          /\ fetch'.pc \in {"ok", "refused"} /\ DOMAIN fetch' = DOMAIN fetch
          /\ fetch'.status \in Statuses \cup {"none"}
      BY <1>3 DEF Ended, FetchInv, Statuses
    <2>2. fetch'.pc = "ok" => ~(read.served > 0 /\ read.rows = << >>)
      BY <1>3 DEF Ended, FetchInv
    <2>3. MaxPages' = MaxPages
      BY <2>1 DEF MaxPages
    <2>4. QED
      BY <2>1, <2>2, <2>3 DEF FetchInv, QuietIsNotBroken
  <1>4. QED
    BY <1>2, <1>3

(* A page brings no more rows than were asked for.                          *)
LEMMA PageFits ==
  ASSUME FetchInv, market \in Seq(Offer), Wants,
         NEW from \in Resumes, NEW offers, offers = Offers(fetch.query),
         NEW end, end = IF from + Asked < Len(offers) THEN from + Asked ELSE Len(offers),
         NEW page, page = SubSeq(offers, from + 1, end)
  PROVE  /\ page \in Seq(Offer) /\ Len(page) \in Nat /\ Len(page) <= Asked
         /\ Len(page) <= fetch.limit - Len(fetch.rows) /\ end \in Nat
  <1>1. offers \in Seq(Offer) /\ Len(offers) \in Nat
    <2>1. {k \in DOMAIN market : fetch.query = "all" \/ market[k].skin = fetch.query}
            \in SUBSET DOMAIN market
      OBVIOUS
    <2>2. offers \in Seq(Offer)
      BY <2>1, PickedEntries DEF Offers
    <2>3. QED
      BY <2>2
  <1>2. /\ fetch.limit \in Nat /\ Len(fetch.rows) \in Nat /\ Len(fetch.rows) < fetch.limit
        /\ PageLimit \in Nat \ {0}
    <2>1. fetch.limit \in Nat /\ fetch.rows \in Seq(Offer)
      BY DEF FetchInv
    <2>2. QED
      BY <2>1, PageAssumption DEF Wants
  <1>3. Asked \in Nat /\ Asked <= fetch.limit - Len(fetch.rows)
    BY <1>2 DEF Asked
  <1>4. from \in 0..Len(offers)
    BY <1>1 DEF Resumes
  <1>5. end \in from..Len(offers) /\ end - from <= Asked
    BY <1>1, <1>3, <1>4
  <1> HIDE DEF Asked
  <1>6. page \in Seq(Offer) /\ Len(page) = end - from
    BY <1>1, <1>4, <1>5
  <1>7. QED
    BY <1>1, <1>2, <1>3, <1>4, <1>5, <1>6

LEMMA TakePageInv ==
  ASSUME FetchInv, market \in Seq(Offer), Wants, TakePage
  PROVE  FetchInv' /\ fetch'.pc # "idle"
  <1>1. PICK from \in Resumes, last \in BOOLEAN :
          LET offers == Offers(fetch.query)
              end == IF from + Asked < Len(offers) THEN from + Asked ELSE Len(offers)
              page == SubSeq(offers, from + 1, end)
              read == [fetch EXCEPT !.rows = @ \o Picked(page, {k \in DOMAIN page : Readable(page[k])}),
                                    !.served = @ + Len(page), !.pages = @ + 1, !.at = end]
          IN fetch' = IF last \/ page = << >> THEN Ended(read) ELSE read
    BY DEF TakePage
  <1> DEFINE offers == Offers(fetch.query)
             end == IF from + Asked < Len(offers) THEN from + Asked ELSE Len(offers)
             page == SubSeq(offers, from + 1, end)
             found == Picked(page, {k \in DOMAIN page : Readable(page[k])})
             rows == fetch.rows \o found
             served == fetch.served + Len(page)
             pages == fetch.pages + 1
             read == [fetch EXCEPT !.rows = rows, !.served = served, !.pages = pages, !.at = end]
  <1>2. fetch' \in {read, Ended(read)}
    <2>1. [fetch EXCEPT !.rows = @ \o found, !.served = @ + Len(page), !.pages = @ + 1, !.at = end] = read
      BY DEF FetchInv
    <2> HIDE DEF read, found, page, end
    <2>2. QED
      BY <1>1, <2>1 DEF found, page, end
  <1>3. /\ page \in Seq(Offer) /\ Len(page) \in Nat
        /\ Len(page) <= fetch.limit - Len(fetch.rows) /\ end \in Nat
    BY PageFits
  <1> HIDE DEF page, end
  <1>4. found \in Seq(Offer) /\ Len(found) <= Len(page) /\ Len(found) \in Nat
    <2>1. {k \in DOMAIN page : Readable(page[k])} \in SUBSET DOMAIN page
      OBVIOUS
    <2>2. found \in Seq(Offer) /\ Len(found) <= Len(page)
      BY <1>3, <2>1, PickedEntries
    <2>3. QED
      BY <2>2
  <1> HIDE DEF found
  <1>5. /\ fetch.limit \in Nat /\ fetch.rows \in Seq(Offer) /\ Len(fetch.rows) \in Nat
        /\ fetch.served \in Nat /\ fetch.pages \in Nat /\ fetch.pages < MaxPages /\ MaxPages \in Int
    <2>1. fetch.limit \in Nat /\ fetch.rows \in Seq(Offer) /\ fetch.served \in Nat /\ fetch.pages \in Nat
      BY DEF FetchInv
    <2>2. MaxPages \in Int
      BY <2>1, PageAssumption DEF MaxPages
    <2>3. Len(fetch.rows) \in Nat
      BY <2>1
    <2>4. QED
      BY <2>1, <2>2, <2>3 DEF Wants
  <1>6. rows \in Seq(Offer) /\ Len(rows) <= fetch.limit
    BY <1>3, <1>4, <1>5
  <1>7. served \in Nat /\ pages \in Nat /\ pages <= MaxPages
    BY <1>3, <1>5
  <1>8. fetch.pc = "fetching"
    BY DEF TakePage
  <1> HIDE DEF rows, served, pages
  <1>9. /\ DOMAIN read = DOMAIN fetch /\ read.pc = "fetching" /\ read.limit = fetch.limit
        /\ read.rows = rows /\ read.served = served /\ read.pages = pages /\ read.at = end
        /\ read.status = fetch.status
    BY <1>8 DEF FetchInv
  <1> HIDE DEF read
  <1>10. QED
    BY <1>2, <1>3, <1>6, <1>7, <1>9, FetchGoesOn

LEMMA BegunInv ==
  ASSUME NEW query, NEW limit \in Nat, fetch' \in {NoFetch, Begun(query, limit)}
  PROVE  FetchInv'
  <1>1. PageLimit \in Nat \ {0} /\ << >> \in Seq(Offer) /\ Len(<< >>) = 0
    BY PageAssumption
  <1>2. /\ DOMAIN fetch' = {"pc", "query", "limit", "rows", "served", "pages", "at", "status"}
        /\ fetch'.pc \in {"idle", "fetching"} /\ fetch'.limit \in Nat /\ fetch'.rows = << >>
        /\ fetch'.served = 0 /\ fetch'.pages = 0 /\ fetch'.at = 0 /\ fetch'.status = "none"
    <2>1. CASE fetch' = NoFetch
      BY <2>1 DEF NoFetch
    <2>2. CASE fetch' = Begun(query, limit)
      <3>1. fetch' = [pc |-> "fetching", query |-> query, limit |-> limit, rows |-> << >>,
                      served |-> 0, pages |-> 0, at |-> 0, status |-> "none"]
        BY <2>2 DEF NoFetch, Begun
      <3>2. QED
        BY <3>1
    <2>3. QED
      BY <2>1, <2>2
  <1>3. MaxPages' \in Int /\ 0 <= MaxPages'
    BY <1>1, <1>2 DEF MaxPages
  <1>4. QED
    BY <1>1, <1>2, <1>3 DEF FetchInv, QuietIsNotBroken

(* Every step of a fetch. *)
LEMMA FetchNextInv ==
  ASSUME LiveInv, scan.pc = "fetch", FetchNext, scan' = scan
  PROVE  CallInv' /\ FetchInv' /\ market' \in Seq(Offer) /\ CallsHavePurpose'
  <1>1. CallInv /\ FetchInv /\ market \in Seq(Offer) /\ CallsHavePurpose
    BY DEF LiveInv
  <1>2. market' \in Seq(Offer)
    BY <1>1 DEF FetchNext, AskPage, TakePage, SpoiledPage, LastPage, PageFailed
  <1>3. CASE AskPage
    <2>1. call' = Started /\ fetch' = fetch /\ fetch.pc = "fetching" /\ Wants
      BY <1>3 DEF AskPage
    <2>2. CallInv'
      <3>1. MaxAttempts > 0
        BY DEF LiveInv, ScanShape
      <3>2. QED
        BY <2>1, <3>1, IdleInv
    <2>3. FetchInv' /\ Wants'
      BY <1>1, <2>1 DEF FetchInv, QuietIsNotBroken, Wants, MaxPages
    <2>4. QED
      BY <1>2, <2>1, <2>2, <2>3 DEF CallsHavePurpose
  <1>4. CASE TakePage \/ SpoiledPage \/ LastPage \/ PageFailed
    <2>1. CallInv' /\ call'.pc = "idle"
      <3>1. CASE LastPage
        <4>1. call' = call /\ call.pc = "idle"
          BY <3>1 DEF LastPage
        <4>2. call' = Idle
          BY <1>1, <4>1 DEF CallInv
        <4>3. call' # Started
          BY <4>2 DEF Idle, Started
        <4>4. QED
          BY <4>1, <4>2, <4>3, IdleInv
      <3>2. CASE TakePage \/ SpoiledPage \/ PageFailed
        <4>1. call' = Idle
          BY <3>2 DEF TakePage, SpoiledPage, PageFailed
        <4>2. call' # Started /\ call'.pc = "idle"
          BY <4>1 DEF Idle, Started
        <4>3. QED
          BY <4>1, <4>2, IdleInv
      <3>3. QED
        BY <1>4, <3>1, <3>2
    <2>2. FetchInv'
      <3>1. CASE TakePage
        <4>1. Wants
          BY <1>1, <3>1 DEF CallsHavePurpose, TakePage
        <4>2. QED
          BY <1>1, <3>1, <4>1, TakePageInv
      <3>2. CASE SpoiledPage \/ PageFailed
        <4>1. PICK status \in Statuses :
                fetch' = [fetch EXCEPT !.pc = "refused", !.status = status]
          BY <3>2 DEF SpoiledPage, PageFailed, Statuses, StatusOf
        <4>2. /\ DOMAIN fetch' = DOMAIN fetch /\ fetch'.pc = "refused" /\ fetch'.status = status
              /\ fetch'.limit = fetch.limit /\ fetch'.rows = fetch.rows
              /\ fetch'.served = fetch.served /\ fetch'.pages = fetch.pages /\ fetch'.at = fetch.at
          BY <1>1, <4>1 DEF FetchInv
        <4>3. MaxPages' = MaxPages
          BY <4>2 DEF MaxPages
        <4>4. QED
          BY <1>1, <4>2, <4>3 DEF FetchInv, QuietIsNotBroken
      <3>3. CASE LastPage
        <4>1. fetch' = Ended(fetch) /\ fetch.pc = "fetching"
          BY <3>3 DEF LastPage
        <4>3. /\ fetch.rows \in Seq(Offer) /\ fetch.served \in Nat /\ fetch.pages \in Nat
              /\ fetch.at \in Nat /\ Len(fetch.rows) <= fetch.limit /\ fetch.pages <= MaxPages
          BY <1>1 DEF FetchInv, QuietIsNotBroken
        <4>4. fetch' \in {fetch, Ended(fetch)}
          BY <4>1
        <4>5. QED
          BY <1>1, <4>1, <4>3, <4>4, FetchGoesOn
      <3>4. QED
        BY <1>4, <3>1, <3>2, <3>3
    <2>3. QED
      BY <1>2, <2>1, <2>2 DEF CallsHavePurpose
  <1>5. QED
    BY <1>3, <1>4 DEF FetchNext

-----------------------------------------------------------------------------
(* The scan.                                                                *)

(* A step changes no field of the scan but those of F. *)
Changes(F) == DOMAIN scan' = DOMAIN scan /\ \A x \in DOMAIN scan \ F : scan'[x] = scan[x]

LEMMA ScanStands ==
  ASSUME LiveInv, scan' = scan, market' \in Seq(Offer), CallInv', FetchInv', CallsHavePurpose'
  PROVE  LiveInv'
  <1>1. ScanShape' /\ PricesWithinBudget' /\ ClientIsClosed'
    BY DEF LiveInv, ScanShape, PricesWithinBudget, ClientIsClosed
  <1>2. VerifiedSoFar' /\ CardsAreHeld'
    BY DEF LiveInv, VerifiedSoFar, Confirmed, CardsAreHeld, CardsAreLive
  <1>3. QED
    BY <1>1, <1>2 DEF LiveInv

LEMMA FetchStands ==
  ASSUME FetchInv, fetch' = fetch
  PROVE  FetchInv'
  BY DEF FetchInv, QuietIsNotBroken, MaxPages

(* A turn of the scan after its listings are there: nothing that its        *)
(* accounts are about changes.                                              *)
LEMMA Turned ==
  ASSUME LiveInv, scan.pc \in {"sales", "asks", "quotes", "loop", "verify"},
         Changes({"pc", "client", "requests", "evidence", "reference", "comp", "budget", "solved"}),
         scan'.pc \in {"sales", "asks", "quotes", "loop"} \cup Terminal,
         scan'.client = "closed" <=> scan'.pc \in Closing,
         scan'.evidence \subseteq scan.priced,
         CallInv', fetch' = fetch, market' = market,
         call'.pc # "idle" => scan'.pc \in {"sales", "asks", "quotes"}
  PROVE  LiveInv'
  <1>1. /\ DOMAIN scan' = DOMAIN scan /\ scan'.targets = scan.targets
        /\ scan'.listings = scan.listings /\ scan'.wanted = scan.wanted
        /\ scan'.priced = scan.priced /\ scan'.held = scan.held /\ scan'.cards = scan.cards
        /\ scan'.bundle = scan.bundle /\ scan'.verified = scan.verified /\ scan'.alive = scan.alive
    BY DEF Changes, LiveInv, ScanShape
  <1>2. FetchInv' /\ market' \in Seq(Offer)
    BY FetchStands DEF LiveInv
  <1>3. ScanShape'
    BY <1>1 DEF LiveInv, ScanShape, Pcs, Terminal, Closing
  <1>4. CallsHavePurpose' /\ ClientIsClosed'
    BY DEF CallsHavePurpose, ClientIsClosed
  <1>5. PricesWithinBudget'
    BY <1>1 DEF LiveInv, PricesWithinBudget
  <1>6. VerifiedSoFar' /\ CardsAreHeld'
    BY <1>1 DEF LiveInv, VerifiedSoFar, Confirmed, CardsAreHeld, CardsAreLive
  <1>7. QED
    BY <1>2, <1>3, <1>4, <1>5, <1>6 DEF LiveInv

(* A pending pc of idle is an idle call. *)
LEMMA StillIdle ==
  ASSUME LiveInv, call' = call \/ call' \in {Idle, Started}, call' = Started => call' = call \/ MaxAttempts > 0
  PROVE  CallInv'
  <1>1. CASE call' = call
    BY <1>1 DEF LiveInv, CallInv, CallPcs
  <1>2. CASE call' # call
    BY <1>2, IdleInv
  <1>3. QED
    BY <1>1, <1>2

(* Prices and offers are asked for, and what comes back is taken. *)
LEMMA PricesInv ==
  ASSUME LiveInv,
         AskSales \/ TakeSales \/ SalesRefused \/ SalesDone
           \/ AskExits \/ TakeExits \/ ExitsDone \/ TakeQuotes
  PROVE  LiveInv'
  <1>0. /\ scan.evidence \subseteq scan.priced /\ scan.pc \in Pcs
        /\ DOMAIN scan = {"pc", "client", "limit", "targets", "listings", "wanted", "priced", "requests",
                          "evidence", "reference", "comp", "budget", "solved", "held", "cards",
                          "bundle", "verified", "alive"}
        /\ scan.pc \in {"sales", "asks", "quotes"} => scan.client # "closed" /\ MaxAttempts > 0
    BY DEF LiveInv, ScanShape, ClientIsClosed, Closing
  <1> DEFINE F == {"pc", "client", "requests", "evidence", "reference", "comp", "budget", "solved"}
  <1>1. /\ call' = call \/ call' \in {Idle, Started}
        /\ fetch' = fetch /\ market' = market /\ scan.pc \in {"sales", "asks", "quotes"}
    BY DEF AskSales, AskExits, AskPrices, TakeSales, SalesRefused, SalesDone, TakeExits, ExitsDone,
           TakeQuotes
  <1>2. CallInv'
    BY <1>0, <1>1, StillIdle
  <1>3. CASE AskSales \/ AskExits
    <2>1. scan' = scan /\ scan.pc \in {"sales", "asks"}
      BY <1>3 DEF AskSales, AskExits, AskPrices
    <2>2. FetchInv' /\ market' \in Seq(Offer) /\ CallsHavePurpose'
      BY <1>1, <2>1, FetchStands DEF LiveInv, CallsHavePurpose
    <2>3. QED
      BY <1>2, <2>1, <2>2, ScanStands
  <1>4. CASE TakeSales \/ TakeExits
    <2>1. PICK requests : scan' = [scan EXCEPT !.requests = requests]
      BY <1>4 DEF TakeSales, TakeExits
    <2>2. call' = Idle /\ scan.pc \in {"sales", "asks"}
      BY <1>4 DEF TakeSales, TakeExits
    <2>3. Changes(F) /\ scan'.pc = scan.pc /\ scan'.evidence = scan.evidence /\ scan'.client = scan.client
      BY <1>0, <2>1 DEF Changes
    <2>4. scan'.pc \notin Closing
      BY <2>2, <2>3 DEF Terminal, Closing
    <2> HIDE DEF F
    <2>5. QED
      BY <1>0, <1>1, <1>2, <2>2, <2>3, <2>4, Turned DEF Idle, F
  <1>5. CASE SalesRefused
    <2>1. scan' = [scan EXCEPT !.pc = "refused", !.client = "closed"] /\ call' = Idle /\ scan.pc = "sales"
      BY <1>5 DEF SalesRefused, Refused
    <2>2. /\ Changes(F) /\ scan'.pc = "refused" /\ scan'.evidence = scan.evidence
          /\ scan'.client = "closed"
      BY <1>0, <2>1 DEF Changes
    <2>3. scan'.pc \in Closing /\ scan'.pc \in Terminal
      BY <2>2 DEF Terminal, Closing
    <2> HIDE DEF F
    <2>4. QED
      BY <1>0, <1>1, <1>2, <2>1, <2>2, <2>3, Turned DEF Idle, F
  <1>6. CASE SalesDone
    <2>1. PICK evidence \in SUBSET scan.priced, pc \in {"loop", "asks"} :
            scan' = [scan EXCEPT !.evidence = evidence, !.requests = 0, !.pc = pc]
      BY <1>6 DEF SalesDone
    <2>2. call' = call /\ call.pc = "idle" /\ scan.pc = "sales"
      BY <1>6 DEF SalesDone
    <2>3. Changes(F) /\ scan'.pc = pc /\ scan'.evidence = evidence /\ scan'.client = scan.client
      BY <1>0, <2>1 DEF Changes
    <2>4. scan'.pc \notin Closing
      BY <2>3 DEF Terminal, Closing
    <2> HIDE DEF F
    <2>5. QED
      BY <1>0, <1>1, <1>2, <2>2, <2>3, <2>4, Turned DEF F
  <1>7. CASE ExitsDone
    <2>1. scan' = [scan EXCEPT !.pc = "quotes", !.requests = 0] /\ scan.pc = "asks"
      BY <1>7 DEF ExitsDone
    <2>2. Changes(F) /\ scan'.pc = "quotes" /\ scan'.evidence = scan.evidence /\ scan'.client = scan.client
      BY <1>0, <2>1 DEF Changes
    <2>3. scan'.pc \notin Closing
      BY <2>2 DEF Terminal, Closing
    <2> HIDE DEF F
    <2>4. QED
      BY <1>0, <1>1, <1>2, <2>1, <2>2, <2>3, Turned DEF F
  <1>8. CASE TakeQuotes
    <2>1. PICK reference \in {"quoted", "unavailable"} :
            scan' = [scan EXCEPT !.pc = "loop", !.reference = reference]
      BY <1>8 DEF TakeQuotes
    <2>2. scan.pc = "quotes" /\ call' = Idle
      BY <1>8 DEF TakeQuotes
    <2>3. Changes(F) /\ scan'.pc = "loop" /\ scan'.evidence = scan.evidence /\ scan'.client = scan.client
      BY <1>0, <2>1 DEF Changes
    <2>4. scan'.pc \notin Closing
      BY <2>3 DEF Terminal, Closing
    <2> HIDE DEF F
    <2>5. QED
      BY <1>0, <1>1, <1>2, <2>2, <2>3, <2>4, Turned DEF F, Idle
  <1>9. QED
    BY <1>3, <1>4, <1>5, <1>6, <1>7, <1>8

(* Searching until a bundle is worth asking about, and the end of it. *)
LEMMA SearchInv ==
  ASSUME LiveInv, call' = call, fetch' = fetch, market' = market, scan.pc = "loop",
         Changes({"pc", "client", "comp", "budget", "solved"}),
         scan'.pc \in {"loop", "raised", "recorded"},
         IF scan'.pc = "loop" THEN scan'.client = scan.client ELSE scan'.client = "closed"
  PROVE  LiveInv'
  <1>1. call.pc = "idle"
    BY DEF LiveInv, CallsHavePurpose
  <1>2. CallInv' /\ call'.pc = "idle"
    BY <1>1, StillIdle
  <1>3. scan'.evidence = scan.evidence /\ scan.evidence \subseteq scan.priced
    BY DEF Changes, LiveInv, ScanShape
  <1>4. Changes({"pc", "client", "requests", "evidence", "reference", "comp", "budget", "solved"})
    BY DEF Changes
  <1>5. scan'.client = "closed" <=> scan'.pc \in Closing
    BY DEF LiveInv, ClientIsClosed, Closing
  <1>6. scan'.pc \in {"sales", "asks", "quotes", "loop"} \cup Terminal
    BY DEF Terminal, Closing
  <1>7. QED
    BY <1>2, <1>3, <1>4, <1>5, <1>6, Turned

(* What a search goes on with differs from the scan in these fields only. *)
Differs(r, F) == DOMAIN r = DOMAIN scan /\ \A x \in DOMAIN scan \ F : r[x] = scan[x]

LEMMA Passes ==
  ASSUME "comp" \in DOMAIN scan, "budget" \in DOMAIN scan, "solved" \in DOMAIN scan
  PROVE  /\ Differs(Passed, {"comp", "budget", "solved"})
         /\ \A b : Differs(Remembered(b), {"comp", "budget", "solved"})
  <1>1. Differs(Passed, {"comp", "budget", "solved"})
    BY DEF Passed, Differs
  <1>2. ASSUME NEW b
        PROVE  Differs(Remembered(b), {"comp", "budget", "solved"})
    <2> DEFINE solution == [counts |-> Shape, average |-> BudgetsFor(Shape)[scan.budget],
                            chosen |-> b.chosen, total |-> b.total, cost |-> b.cost]
    <2>1. Remembered(b) = [Passed EXCEPT !.solved = @ \cup {solution}]
      BY DEF Remembered
    <2> HIDE DEF solution
    <2>2. QED
      BY <1>1, <2>1 DEF Differs
  <1>3. QED
    BY <1>1, <1>2

LEMMA LoopInv ==
  ASSUME LiveInv, Skip \/ SkipKnown \/ RaiseOnRepeat \/ Finish
  PROVE  LiveInv'
  <1>0. DOMAIN scan = {"pc", "client", "limit", "targets", "listings", "wanted", "priced", "requests",
                       "evidence", "reference", "comp", "budget", "solved", "held", "cards",
                       "bundle", "verified", "alive"}
    BY DEF LiveInv, ScanShape
  <1>1. call' = call /\ fetch' = fetch /\ market' = market /\ scan.pc = "loop"
    BY DEF Skip, SkipKnown, RaiseOnRepeat, Finish, Searching
  <1> DEFINE F == {"pc", "client", "comp", "budget", "solved"}
  <1>2. Changes(F) /\ scan'.pc \in {"loop", "raised", "recorded"}
          /\ (IF scan'.pc = "loop" THEN scan'.client = scan.client ELSE scan'.client = "closed")
    <2>1. CASE Skip
      <3>1. scan' = Passed
        BY <2>1 DEF Skip
      <3>2. Differs(Passed, {"comp", "budget", "solved"})
        BY <1>0, Passes
      <3>3. QED
        BY <1>0, <1>1, <3>1, <3>2 DEF Changes, Differs
    <2>2. CASE SkipKnown
      <3>1. PICK b \in Solution : scan' = Remembered(b)
        BY <2>2 DEF SkipKnown
      <3>2. Differs(Remembered(b), {"comp", "budget", "solved"})
        BY <1>0, Passes
      <3>3. QED
        BY <1>0, <1>1, <3>1, <3>2 DEF Changes, Differs
    <2>3. CASE RaiseOnRepeat
      <3>1. PICK b \in Solution : scan' = [Remembered(b) EXCEPT !.pc = "raised", !.client = "closed"]
        BY <2>3 DEF RaiseOnRepeat
      <3>2. Differs(Remembered(b), {"comp", "budget", "solved"})
        BY <1>0, Passes
      <3>3. scan'.pc = "raised" /\ scan'.client = "closed" /\ Changes(F)
        BY <1>0, <3>1, <3>2 DEF Changes, Differs
      <3>4. QED
        BY <3>3
    <2>4. CASE Finish
      <3>1. PICK end \in {"recorded", "raised"} : scan' = [scan EXCEPT !.pc = end, !.client = "closed"]
        BY <2>4 DEF Finish
      <3>2. QED
        BY <1>0, <3>1 DEF Changes
    <2>5. QED
      BY <2>1, <2>2, <2>3, <2>4
  <1> HIDE DEF F
  <1>3. QED
    BY <1>1, <1>2, SearchInv DEF F

(* A new bundle is rejected, or asked about from its first listing on. *)
LEMMA JudgeInv ==
  ASSUME LiveInv, Judge
  PROVE  LiveInv'
  <1>0. /\ DOMAIN scan = {"pc", "client", "limit", "targets", "listings", "wanted", "priced", "requests",
                          "evidence", "reference", "comp", "budget", "solved", "held", "cards",
                          "bundle", "verified", "alive"}
        /\ scan.targets \in Seq(STRING) /\ scan.listings \in Seq(Offer)
        /\ scan.evidence \subseteq scan.priced
        /\ scan.pc = "loop" => scan.client # "closed" /\ MaxAttempts > 0
    BY DEF LiveInv, ScanShape, ClientIsClosed, Closing
  <1>1. call' = call /\ fetch' = fetch /\ market' = market /\ scan.pc = "loop"
    BY DEF Judge, Searching
  <1>2. PICK b \in Solution, passes \in BOOLEAN :
          scan' = IF passes THEN [Remembered(b) EXCEPT !.pc = "verify", !.bundle = b,
                                                       !.verified = << >>, !.alive = {}]
                  ELSE Remembered(b)
    BY DEF Judge
  <1> DEFINE r == Remembered(b)
  <1>3. Differs(r, {"comp", "budget", "solved"})
    BY <1>0, Passes
  <1> HIDE DEF r
  <1>4. CASE ~passes
    <2>1. scan' = r
      BY <1>2, <1>4 DEF r
    <2>2. /\ Changes({"pc", "client", "comp", "budget", "solved"})
          /\ scan'.pc = "loop" /\ scan'.client = scan.client
      BY <1>0, <1>1, <1>3, <2>1 DEF Changes, Differs
    <2>3. QED
      BY <1>1, <2>2, SearchInv
  <1>5. CASE passes
    <2>1. scan' = [r EXCEPT !.pc = "verify", !.bundle = b, !.verified = << >>, !.alive = {}]
      BY <1>2, <1>5 DEF r
    <2>2. /\ DOMAIN scan' = DOMAIN scan /\ scan'.pc = "verify" /\ scan'.bundle = b
          /\ scan'.verified = << >> /\ scan'.alive = {} /\ scan'.client = scan.client
          /\ scan'.targets = scan.targets /\ scan'.listings = scan.listings
          /\ scan'.evidence = scan.evidence /\ scan'.priced = scan.priced
          /\ scan'.wanted = scan.wanted /\ scan'.held = scan.held /\ scan'.cards = scan.cards
      BY <1>0, <1>3, <2>1 DEF Differs
    <2>3. call.pc = "idle" /\ CallInv' /\ FetchInv' /\ market' \in Seq(Offer)
      BY <1>1, StillIdle, FetchStands DEF LiveInv, CallsHavePurpose
    <2>4. ScanShape'
      BY <1>0, <1>1, <2>2 DEF ScanShape, Pcs
    <2>5. CallsHavePurpose' /\ ClientIsClosed'
      BY <1>0, <1>1, <2>2, <2>3 DEF CallsHavePurpose, ClientIsClosed, Closing
    <2>6. PricesWithinBudget'
      BY <1>1, <2>2 DEF LiveInv, PricesWithinBudget
    <2>7. VerifiedSoFar' /\ CardsAreHeld'
      <3>1. << >> \in Seq({"same", "changed", "unknown", "refused"}) /\ DOMAIN << >> = {}
        OBVIOUS
      <3>2. {b.chosen[k] : k \in {}} = {}
        OBVIOUS
      <3>3. QED
        BY <2>2, <3>1, <3>2 DEF LiveInv, VerifiedSoFar, CardsAreHeld, CardsAreLive
    <2>8. QED
      BY <2>3, <2>4, <2>5, <2>6, <2>7 DEF LiveInv
  <1>6. QED
    BY <1>4, <1>5

(* One verdict more: only a listing found as it was counts as alive. *)
LEMMA Verified ==
  ASSUME LiveInv, scan.pc = "verify", call.pc # "idle", call' = Idle,
         fetch' = fetch, market' = market, Changes({"verified", "alive"}),
         NEW verdict \in {"same", "changed", "unknown", "refused"},
         scan'.verified = Append(scan.verified, verdict),
         verdict = "same" => scan'.alive = scan.alive \cup {Asking}
  PROVE  LiveInv'
  <1> DEFINE V == {"same", "changed", "unknown", "refused"}
             n == Len(scan.verified)
             chosen == scan.bundle.chosen
  <1>1. /\ DOMAIN scan' = DOMAIN scan /\ scan'.pc = "verify" /\ scan'.bundle = scan.bundle
        /\ scan'.targets = scan.targets /\ scan'.listings = scan.listings
        /\ scan'.evidence = scan.evidence /\ scan'.priced = scan.priced /\ scan'.client = scan.client
        /\ scan'.wanted = scan.wanted /\ scan'.held = scan.held /\ scan'.cards = scan.cards
    BY DEF Changes, LiveInv, ScanShape
  <1>2. CallInv' /\ call'.pc = "idle" /\ FetchInv' /\ market' \in Seq(Offer)
    <2>1. call'.pc = "idle" /\ call' # Started
      BY DEF Idle, Started
    <2>2. CallInv'
      BY <2>1, IdleInv
    <2>3. QED
      BY <2>1, <2>2, FetchStands DEF LiveInv
  <1>3. ScanShape' /\ CallsHavePurpose' /\ ClientIsClosed' /\ PricesWithinBudget' /\ CardsAreHeld'
    <2>1. ScanShape'
      BY <1>1 DEF LiveInv, ScanShape, Pcs
    <2>2. CallsHavePurpose' /\ ClientIsClosed'
      BY <1>1, <1>2 DEF LiveInv, CallsHavePurpose, ClientIsClosed, Closing
    <2>3. PricesWithinBudget' /\ CardsAreHeld'
      BY <1>1 DEF LiveInv, PricesWithinBudget, CardsAreHeld, CardsAreLive
    <2>4. QED
      BY <2>1, <2>2, <2>3
  <1>4. /\ scan.verified \in Seq(V) /\ DOMAIN scan.verified \subseteq DOMAIN chosen
        /\ n + 1 \in DOMAIN chosen
        /\ Confirmed => scan.alive = {chosen[k] : k \in DOMAIN scan.verified}
    BY DEF LiveInv, VerifiedSoFar, CallsHavePurpose
  <1>5. n \in Nat
    BY <1>4
  <1>6. /\ scan'.verified \in Seq(V) /\ DOMAIN scan'.verified = DOMAIN scan.verified \cup {n + 1}
        /\ scan'.verified[n + 1] = verdict
        /\ \A k \in DOMAIN scan.verified : scan'.verified[k] = scan.verified[k]
    BY <1>4, <1>5
  <1>7. Confirmed' => scan'.alive = {chosen[k] : k \in DOMAIN scan'.verified}
    <2>1. SUFFICES ASSUME Confirmed' PROVE scan'.alive = {chosen[k] : k \in DOMAIN scan'.verified}
      OBVIOUS
    <2>2. verdict = "same" /\ Confirmed
      BY <1>6, <2>1 DEF Confirmed
    <2>3. scan'.alive = {chosen[k] : k \in DOMAIN scan.verified} \cup {chosen[n + 1]}
      BY <1>4, <2>2 DEF Asking
    <2> HIDE DEF n, chosen
    <2>4. QED
      BY <1>6, <2>3
  <1>8. VerifiedSoFar'
    BY <1>1, <1>4, <1>6, <1>7 DEF VerifiedSoFar
  <1>9. QED
    BY <1>2, <1>3, <1>8 DEF LiveInv

LEMMA RequeryInv ==
  ASSUME LiveInv, AskListing \/ TakeListing \/ ListingFailed \/ RaiseOnAnswer
  PROVE  LiveInv'
  <1>0. DOMAIN scan = {"pc", "client", "limit", "targets", "listings", "wanted", "priced", "requests",
                       "evidence", "reference", "comp", "budget", "solved", "held", "cards",
                       "bundle", "verified", "alive"}
    BY DEF LiveInv, ScanShape
  <1>1. scan.pc = "verify" /\ fetch' = fetch /\ market' = market
    BY DEF AskListing, TakeListing, ListingFailed, RaiseOnAnswer
  <1>2. CASE AskListing
    <2>1. scan' = scan /\ call' = Started /\ Len(scan.verified) + 1 \in DOMAIN scan.bundle.chosen
      BY <1>2 DEF AskListing
    <2>2. CallInv' /\ FetchInv' /\ market' \in Seq(Offer) /\ CallsHavePurpose'
      <3>1. MaxAttempts > 0
        BY <1>1 DEF LiveInv, ScanShape
      <3>2. QED
        BY <1>1, <2>1, <3>1, StillIdle, FetchStands DEF LiveInv, CallsHavePurpose
    <2>3. QED
      BY <2>1, <2>2, ScanStands
  <1>3. CASE TakeListing
    <2>1. PICK found \in {"same", "changed", "unreadable"} :
            scan' = [scan EXCEPT !.verified = Append(@, VerdictOfAnswer(found)),
                                 !.alive = IF found = "same" THEN @ \cup {Asking} ELSE @]
      BY <1>3 DEF TakeListing
    <2> DEFINE verdict == VerdictOfAnswer(found)
    <2>2. /\ verdict \in {"same", "changed", "unknown", "refused"}
          /\ verdict = "same" => found = "same"
      BY DEF VerdictOfAnswer
    <2> HIDE DEF verdict
    <2>3. /\ Changes({"verified", "alive"}) /\ scan'.verified = Append(scan.verified, verdict)
          /\ verdict = "same" => scan'.alive = scan.alive \cup {Asking}
      BY <1>0, <2>1, <2>2 DEF Changes, verdict
    <2>4. call.pc # "idle" /\ call' = Idle
      BY <1>3 DEF TakeListing
    <2>5. QED
      BY <1>1, <2>2, <2>3, <2>4, Verified
  <1>4. CASE ListingFailed
    <2> DEFINE verdict == VerdictOfFailure(call.error)
    <2>1. verdict \in {"unknown", "refused"}
      BY DEF VerdictOfFailure
    <2> HIDE DEF verdict
    <2>2. scan' = [scan EXCEPT !.verified = Append(@, verdict)]
      BY <1>4 DEF ListingFailed, verdict
    <2>3. Changes({"verified", "alive"}) /\ scan'.verified = Append(scan.verified, verdict)
      BY <1>0, <2>2 DEF Changes
    <2>4. call.pc # "idle" /\ call' = Idle
      BY <1>4 DEF ListingFailed
    <2>5. QED
      BY <1>1, <2>1, <2>3, <2>4, Verified
  <1>5. CASE RaiseOnAnswer
    <2>1. scan' = [scan EXCEPT !.pc = "raised", !.client = "closed"] /\ call' = Idle
      BY <1>5 DEF RaiseOnAnswer
    <2>2. /\ Changes({"pc", "client", "requests", "evidence", "reference", "comp", "budget", "solved"})
          /\ scan'.pc = "raised" /\ scan'.client = "closed" /\ scan'.evidence = scan.evidence
      BY <1>0, <2>1 DEF Changes
    <2>3. call'.pc = "idle" /\ call' # Started
      BY <2>1 DEF Idle, Started
    <2>4. CallInv' /\ scan'.evidence \subseteq scan.priced
      BY <2>1, <2>2, <2>3, StillIdle DEF LiveInv, ScanShape
    <2>5. scan'.pc \in Closing /\ scan'.pc \in Terminal
      BY <2>2 DEF Terminal, Closing
    <2>6. QED
      BY <1>1, <2>2, <2>3, <2>4, <2>5, Turned
  <1>6. QED
    BY <1>2, <1>3, <1>4, <1>5

(* An approved bundle was seen alive whole, and shares nothing held.        *)
LEMMA DecideInv ==
  ASSUME LiveInv, Decide
  PROVE  LiveInv'
  <1>0. DOMAIN scan = {"pc", "client", "limit", "targets", "listings", "wanted", "priced", "requests",
                       "evidence", "reference", "comp", "budget", "solved", "held", "cards",
                       "bundle", "verified", "alive"}
    BY DEF LiveInv, ScanShape
  <1>1. /\ call' = call /\ fetch' = fetch /\ market' = market
        /\ scan.pc = "verify" /\ call.pc = "idle"
        /\ DOMAIN scan.verified = DOMAIN scan.bundle.chosen
    BY DEF Decide
  <1> DEFINE offers == Offered(scan.bundle)
             card == [offers |-> offers, alive |-> scan.alive]
  <1>2. PICK approved \in BOOLEAN :
          /\ approved => Confirmed /\ offers \cap scan.held = {}
          /\ scan' = [scan EXCEPT !.pc = "loop", !.bundle = Nothing, !.verified = << >>, !.alive = {},
                       !.held = IF approved THEN @ \cup offers ELSE @,
                       !.cards = IF approved THEN @ \cup {card} ELSE @]
    BY DEF Decide
  <1>3. approved => scan.alive = offers
    BY <1>1, <1>2 DEF LiveInv, VerifiedSoFar, Offered
  <1> HIDE DEF offers
  <1>4. /\ DOMAIN scan' = DOMAIN scan /\ scan'.pc = "loop" /\ scan'.bundle = Nothing
        /\ scan'.verified = << >> /\ scan'.alive = {} /\ scan'.client = scan.client
        /\ scan'.targets = scan.targets /\ scan'.listings = scan.listings
        /\ scan'.evidence = scan.evidence /\ scan'.priced = scan.priced /\ scan'.wanted = scan.wanted
        /\ scan'.held = IF approved THEN scan.held \cup offers ELSE scan.held
        /\ scan'.cards = IF approved THEN scan.cards \cup {card} ELSE scan.cards
    BY <1>0, <1>2
  <1>5. CallInv' /\ FetchInv' /\ market' \in Seq(Offer)
    BY <1>1, StillIdle, FetchStands DEF LiveInv
  <1>6. ScanShape' /\ CallsHavePurpose' /\ ClientIsClosed' /\ PricesWithinBudget'
    <2>1. ScanShape'
      BY <1>1, <1>4 DEF LiveInv, ScanShape, Pcs
    <2>2. CallsHavePurpose' /\ ClientIsClosed'
      BY <1>1, <1>4 DEF LiveInv, CallsHavePurpose, ClientIsClosed, Closing
    <2>3. PricesWithinBudget'
      BY <1>1, <1>4 DEF LiveInv, PricesWithinBudget
    <2>4. QED
      BY <2>1, <2>2, <2>3
  <1>7. VerifiedSoFar'
    <2>1. << >> \in Seq({"same", "changed", "unknown", "refused"}) /\ DOMAIN << >> = {}
      OBVIOUS
    <2>2. {scan'.bundle.chosen[k] : k \in {}} = {}
      OBVIOUS
    <2>3. QED
      BY <1>4, <2>1, <2>2 DEF VerifiedSoFar
  <1>8. CardsAreHeld'
    <2>1. /\ \A c \in scan.cards : c.alive = c.offers /\ c.offers \subseteq scan.held
          /\ \A a, b \in scan.cards : a # b => a.offers \cap b.offers = {}
      BY DEF LiveInv, CardsAreHeld, CardsAreLive
    <2>2. CASE ~approved
      BY <1>4, <2>1, <2>2 DEF CardsAreHeld, CardsAreLive
    <2>3. CASE approved
      <3>1. scan'.held = scan.held \cup offers /\ scan'.cards = scan.cards \cup {card}
        BY <1>4, <2>3
      <3>2. card.alive = card.offers /\ card.offers = offers /\ offers \cap scan.held = {}
        BY <1>2, <1>3, <2>3
      <3> HIDE DEF card
      <3>3. \A c \in scan'.cards : c.alive = c.offers /\ c.offers \subseteq scan'.held
        BY <2>1, <3>1, <3>2
      <3>4. \A c \in scan.cards : c.offers \cap card.offers = {}
        BY <2>1, <3>2
      <3>5. \A a, b \in scan'.cards : a # b => a.offers \cap b.offers = {}
        BY <2>1, <3>1, <3>4
      <3>6. QED
        BY <3>3, <3>5 DEF CardsAreHeld, CardsAreLive
    <2>4. QED
      BY <2>2, <2>3
  <1>9. QED
    BY <1>5, <1>6, <1>7, <1>8 DEF LiveInv

(* Until the listings are there, nothing is priced, solved or shown.        *)
LEMMA Gathered ==
  ASSUME LiveInv, scan.pc \in {"start", "fetch"},
         Changes({"pc", "client", "limit", "targets", "listings"}),
         scan'.pc \in {"fetch", "refused", "escaped"},
         scan'.client = "closed" <=> scan'.pc = "refused",
         scan'.pc # "escaped" => MaxAttempts > 0,
         scan'.targets \in Seq(STRING), scan'.listings \in Seq(Offer),
         call' = Idle, market' = market, FetchInv'
  PROVE  LiveInv'
  <1>1. /\ DOMAIN scan' = DOMAIN scan /\ scan'.evidence = scan.evidence /\ scan'.priced = scan.priced
        /\ scan'.held = scan.held /\ scan'.cards = scan.cards
        /\ scan'.bundle = scan.bundle /\ scan'.verified = scan.verified /\ scan'.alive = scan.alive
    BY DEF Changes, LiveInv, ScanShape
  <1>2. CallInv' /\ market' \in Seq(Offer)
    <2>1. call' # Started
      BY DEF Idle, Started
    <2>2. QED
      BY <2>1, StillIdle DEF LiveInv
  <1>3. ScanShape'
    BY <1>1 DEF LiveInv, ScanShape, Pcs, Terminal, Closing
  <1>4. CallsHavePurpose' /\ PricesWithinBudget' /\ ClientIsClosed'
    <2>1. call'.pc = "idle"
      BY DEF Idle
    <2>2. QED
      BY <2>1 DEF CallsHavePurpose, PricesWithinBudget, ClientIsClosed, Closing
  <1>5. VerifiedSoFar' /\ CardsAreHeld'
    BY <1>1 DEF LiveInv, VerifiedSoFar, Confirmed, CardsAreHeld, CardsAreLive
  <1>6. QED
    BY <1>2, <1>3, <1>4, <1>5 DEF LiveInv

(* An exception leaves the client as it is. *)
LEMMA EscapeInv ==
  ASSUME LiveInv, Escapes
  PROVE  LiveInv'
  <1>0. /\ DOMAIN scan = {"pc", "client", "limit", "targets", "listings", "wanted", "priced", "requests",
                          "evidence", "reference", "comp", "budget", "solved", "held", "cards",
                          "bundle", "verified", "alive"}
        /\ scan.targets \in Seq(STRING) /\ scan.listings \in Seq(Offer)
        /\ scan.evidence \subseteq scan.priced
    BY DEF LiveInv, ScanShape
  <1>1. /\ scan.pc \in {"fetch", "sales", "asks", "quotes"} /\ call' = Idle
        /\ scan' = [scan EXCEPT !.pc = "escaped"] /\ fetch' = fetch /\ market' = market
    BY DEF Escapes
  <1>2. /\ DOMAIN scan' = DOMAIN scan /\ scan'.pc = "escaped"
        /\ \A x \in DOMAIN scan \ {"pc"} : scan'[x] = scan[x]
    BY <1>0, <1>1
  <1>3. /\ scan'.client = scan.client /\ scan'.targets = scan.targets
        /\ scan'.listings = scan.listings /\ scan'.evidence = scan.evidence
    BY <1>0, <1>2
  <1>4. scan'.client # "closed" /\ scan'.pc \notin Closing /\ scan'.pc \in Terminal
    BY <1>1, <1>2, <1>3 DEF LiveInv, ClientIsClosed, Terminal, Closing
  <1>5. call'.pc = "idle" /\ CallInv' /\ FetchInv'
    <2>1. call'.pc = "idle" /\ call' # Started
      BY <1>1 DEF Idle, Started
    <2>2. QED
      BY <1>1, <2>1, StillIdle, FetchStands DEF LiveInv
  <1>6. CASE scan.pc = "fetch"
    <2>1. Changes({"pc", "client", "limit", "targets", "listings"})
      BY <1>2 DEF Changes
    <2>2. QED
      BY <1>0, <1>1, <1>2, <1>3, <1>4, <1>5, <1>6, <2>1, Gathered
  <1>7. CASE scan.pc # "fetch"
    <2>1. Changes({"pc", "client", "requests", "evidence", "reference", "comp", "budget", "solved"})
      BY <1>2 DEF Changes
    <2>2. QED
      BY <1>0, <1>1, <1>2, <1>3, <1>4, <1>5, <1>7, <2>1, Turned
  <1>8. QED
    BY <1>6, <1>7

LEMMA GatherInv ==
  ASSUME LiveInv, Start \/ Fetching \/ Escapes \/ NextName \/ FetchRefused
  PROVE  LiveInv'
  <1>0. /\ DOMAIN scan = {"pc", "client", "limit", "targets", "listings", "wanted", "priced", "requests",
                          "evidence", "reference", "comp", "budget", "solved", "held", "cards",
                          "bundle", "verified", "alive"}
        /\ scan.targets \in Seq(STRING) /\ scan.listings \in Seq(Offer)
        /\ scan.pc = "fetch" => scan.client # "closed" /\ MaxAttempts > 0
    BY DEF LiveInv, ScanShape, ClientIsClosed, Closing
  <1>1. /\ ListingLimit \in Nat /\ PerNameLimit \in Nat /\ TargetLists \subseteq Seq(STRING)
        /\ MaxAttempts \in Nat
    BY ScanAssumption, RetryAssumption
  <1> DEFINE F == {"pc", "client", "limit", "targets", "listings"}
  <1>2. CASE Start
    <2>1. PICK targets \in TargetLists, limit \in PointLimits :
            /\ scan' = [scan EXCEPT !.pc = IF MaxAttempts = 0 THEN "escaped" ELSE "fetch",
                                    !.client = "open", !.limit = limit, !.targets = targets]
            /\ fetch' = IF targets = << >> THEN Begun("all", ListingLimit)
                        ELSE Begun(targets[1], PerNameLimit)
      BY <1>2 DEF Start
    <2>2. FetchInv'
      <3>1. CASE targets = << >>
        BY <1>1, <2>1, <3>1, BegunInv
      <3>2. CASE targets # << >>
        BY <1>1, <2>1, <3>2, BegunInv
      <3>3. QED
        BY <3>1, <3>2
    <2>3. /\ Changes(F) /\ scan'.targets \in Seq(STRING) /\ scan'.listings \in Seq(Offer)
          /\ scan'.pc = IF MaxAttempts = 0 THEN "escaped" ELSE "fetch"
          /\ scan'.client = "open"
      BY <1>0, <1>1, <2>1 DEF Changes
    <2>4. scan.pc = "start" /\ call' = call /\ market' = market
      BY <1>2 DEF Start
    <2>5. call' = Idle /\ (scan'.pc # "escaped" => MaxAttempts > 0)
      BY <1>1, <2>3, <2>4 DEF LiveInv, CallsHavePurpose, CallInv
    <2> HIDE DEF F
    <2>6. QED
      BY <2>2, <2>3, <2>4, <2>5, Gathered DEF F
  <1>3. CASE Fetching
    <2>1. scan.pc = "fetch" /\ FetchNext /\ scan' = scan
      BY <1>3 DEF Fetching
    <2>2. CallInv' /\ FetchInv' /\ market' \in Seq(Offer) /\ CallsHavePurpose'
      BY <2>1, FetchNextInv
    <2>3. QED
      BY <2>1, <2>2, ScanStands
  <1>4. CASE NextName
    <2>1. /\ scan.pc = "fetch" /\ fetch.pc = "ok" /\ Len(scan.targets) > 1
          /\ scan' = [scan EXCEPT !.targets = Tail(@), !.listings = @ \o fetch.rows]
          /\ fetch' = Begun(scan.targets[2], PerNameLimit)
          /\ call' = call /\ market' = market
      BY <1>4 DEF NextName
    <2>2. FetchInv'
      BY <1>1, <2>1, BegunInv
    <2>3. Tail(scan.targets) \in Seq(STRING)
      <3>1. scan.targets # << >>
        BY <2>1
      <3>2. QED
        BY <1>0, <3>1
    <2>4. scan.listings \o fetch.rows \in Seq(Offer)
      BY <1>0 DEF LiveInv, FetchInv
    <2>5. /\ Changes(F) /\ scan'.targets \in Seq(STRING) /\ scan'.listings \in Seq(Offer)
          /\ scan'.pc = "fetch" /\ scan'.client = scan.client
      BY <1>0, <2>1, <2>3, <2>4 DEF Changes
    <2>6. call' = Idle
      BY <2>1 DEF LiveInv, CallsHavePurpose, CallInv
    <2> HIDE DEF F
    <2>7. QED
      BY <1>0, <2>1, <2>2, <2>5, <2>6, Gathered DEF F
  <1>5. CASE FetchRefused
    <2>1. /\ scan.pc = "fetch" /\ fetch.pc = "refused" /\ scan' = Refused
          /\ call' = call /\ market' = market /\ fetch' = fetch
      BY <1>5 DEF FetchRefused
    <2>2. /\ Changes(F) /\ scan'.pc = "refused" /\ scan'.client = "closed"
          /\ scan'.targets \in Seq(STRING) /\ scan'.listings \in Seq(Offer)
      BY <1>0, <2>1 DEF Changes, Refused
    <2>3. call' = Idle /\ FetchInv'
      BY <2>1, FetchStands DEF LiveInv, CallsHavePurpose, CallInv
    <2> HIDE DEF F
    <2>4. QED
      BY <1>0, <2>1, <2>2, <2>3, Gathered DEF F
  <1>6. CASE Escapes
    BY <1>6, EscapeInv
  <1>7. QED
    BY <1>2, <1>3, <1>4, <1>5, <1>6

(* The names to price are chosen within the budget. *)
LEMMA FetchedInv ==
  ASSUME LiveInv, Fetched
  PROVE  LiveInv'
  <1>0. /\ DOMAIN scan = {"pc", "client", "limit", "targets", "listings", "wanted", "priced", "requests",
                          "evidence", "reference", "comp", "budget", "solved", "held", "cards",
                          "bundle", "verified", "alive"}
        /\ scan.targets \in Seq(STRING) /\ scan.listings \in Seq(Offer)
        /\ scan.pc = "fetch" => scan.evidence = {} /\ scan.client # "closed" /\ MaxAttempts > 0
    BY DEF LiveInv, ScanShape, ClientIsClosed, Closing
  <1> DEFINE rows == scan.listings \o fetch.rows
             w == Wanted(rows)
  <1>1. /\ scan.pc = "fetch" /\ fetch.pc = "ok" /\ fetch' = NoFetch /\ call' = call /\ market' = market
        /\ scan' = [scan EXCEPT !.pc = "sales", !.listings = rows, !.wanted = Cardinality(w.names),
                                !.priced = w.priced]
    BY DEF Fetched
  <1>2. rows \in Seq(Offer)
    BY <1>0 DEF LiveInv, FetchInv
  <1> HIDE DEF rows
  <1>3. Fits(w, Homes(rows))
    BY <1>2, WantedFits
  <1> HIDE DEF w
  <1>4. /\ DOMAIN scan' = DOMAIN scan /\ scan'.pc = "sales" /\ scan'.listings = rows
        /\ scan'.wanted = Cardinality(w.names) /\ scan'.priced = w.priced
        /\ scan'.targets = scan.targets /\ scan'.evidence = {} /\ scan'.client = scan.client
        /\ scan'.held = scan.held /\ scan'.cards = scan.cards
        /\ scan'.bundle = scan.bundle /\ scan'.verified = scan.verified /\ scan'.alive = scan.alive
    BY <1>0, <1>1
  <1>5. call.pc = "idle" /\ CallInv' /\ FetchInv' /\ market' \in Seq(Offer)
    BY <1>1, StillIdle, BegunInv DEF LiveInv, CallsHavePurpose
  <1>6. ScanShape' /\ CallsHavePurpose' /\ ClientIsClosed'
    BY <1>0, <1>1, <1>2, <1>4, <1>5 DEF ScanShape, Pcs, CallsHavePurpose, ClientIsClosed, Closing
  <1>7. PricesWithinBudget'
    <2>1. {Home[row.skin] : row \in {rows[k] : k \in DOMAIN rows}} = Homes(rows)
      BY DEF Homes
    <2>2. /\ w.names = UNION {Names(c) : c \in w.priced}
          /\ Cardinality(w.names) <= MaxWanted
          /\ \A c \in Homes(rows) : c \in w.priced \/ Names(c) = {} \/ ~FitsBudget(w.names, c)
      BY <1>3 DEF Fits
    <2>3. \A c \in Homes(rows) \ w.priced :
            Cardinality(w.names) + Cardinality(Names(c)) > MaxWanted \/ Names(c) = {}
      <3>1. SUFFICES ASSUME NEW c \in Homes(rows) \ w.priced, Names(c) # {}
                     PROVE  Cardinality(w.names) + Cardinality(Names(c)) > MaxWanted
        OBVIOUS
      <3>2. ~(Cardinality(w.names) + Cardinality(Names(c)) <= MaxWanted)
        BY <2>2, <3>1 DEF FitsBudget
      <3>3. Cardinality(w.names) \in Nat /\ Cardinality(Names(c)) \in Nat /\ MaxWanted \in Nat
        <4>1. c \in DOMAIN Pool
          BY <1>2, LiquidityLists
        <4>2. IsFiniteSet(Names(c))
          BY <4>1, NamesFinite
        <4>3. QED
          BY <1>3, <4>2, FS_CardinalityType, ScanAssumption DEF Fits
      <3>4. QED
        BY <3>2, <3>3
    <2>4. QED
      BY <1>4, <2>1, <2>2, <2>3 DEF PricesWithinBudget
  <1>8. VerifiedSoFar' /\ CardsAreHeld'
    BY <1>4 DEF LiveInv, VerifiedSoFar, Confirmed, CardsAreHeld, CardsAreLive
  <1>9. QED
    BY <1>5, <1>6, <1>7, <1>8 DEF LiveInv

LEMMA WaitingInv ==
  ASSUME LiveInv, Waiting
  PROVE  LiveInv'
  <1>1. RestNext /\ market' = market /\ fetch' = fetch /\ scan' = scan /\ CallInv
    BY DEF Waiting, LiveInv
  <1>2. CallInv' /\ call.pc # "idle"
    BY <1>1, RestInv
  <1>3. FetchInv' /\ market' \in Seq(Offer)
    BY <1>1, FetchStands DEF LiveInv
  <1>4. CallsHavePurpose'
    BY <1>1, <1>2 DEF LiveInv, CallsHavePurpose, Wants, MaxPages
  <1>5. QED
    BY <1>1, <1>2, <1>3, <1>4, ScanStands

LEMMA StutterInv ==
  ASSUME LiveInv, UNCHANGED vars
  PROVE  LiveInv'
  <1>1. call' = call /\ market' = market /\ fetch' = fetch /\ scan' = scan
    BY DEF vars
  <1>2. CallInv' /\ FetchInv' /\ market' \in Seq(Offer)
    BY <1>1, StillIdle, FetchStands DEF LiveInv
  <1>3. CallsHavePurpose'
    BY <1>1 DEF LiveInv, CallsHavePurpose, Wants, MaxPages
  <1>4. QED
    BY <1>1, <1>2, <1>3, ScanStands

LEMMA StartsSound == Init => LiveInv
  <1> SUFFICES ASSUME Init PROVE LiveInv
    OBVIOUS
  <1>1. call = Idle /\ fetch = NoFetch /\ scan = NoScan /\ market \in Markets
    BY DEF Init
  <1>2. << >> \in Seq([long: Int, told: BOOLEAN]) /\ << >> \in Seq(STRING) /\ << >> \in Seq(Offer)
          /\ << >> \in Seq({"same", "changed", "unknown", "refused"})
          /\ Len(<< >>) = 0 /\ DOMAIN << >> = {}
    OBVIOUS
  <1>3. 0 \in 0..MaxAttempts /\ 0 \in RetryAfters /\ PageLimit \in Nat \ {0} /\ market \in Seq(Offer)
    BY <1>1, RetryAssumption, PageAssumption
  <1>4. CallInv
    BY <1>1, <1>2, <1>3 DEF CallInv, CallPcs, Idle
  <1>5. FetchInv
    <2>1. /\ DOMAIN fetch = {"pc", "query", "limit", "rows", "served", "pages", "at", "status"}
          /\ fetch.pc = "idle" /\ fetch.limit = 0 /\ fetch.rows = << >> /\ fetch.served = 0
          /\ fetch.pages = 0 /\ fetch.at = 0 /\ fetch.status = "none"
      BY <1>1 DEF NoFetch
    <2>2. MaxPages \in Int /\ 0 <= MaxPages
      BY <1>3, <2>1 DEF MaxPages
    <2>3. QED
      BY <1>2, <2>1, <2>2 DEF FetchInv, QuietIsNotBroken
  <1>6. ScanShape /\ CallsHavePurpose /\ PricesWithinBudget /\ ClientIsClosed
    BY <1>1, <1>2 DEF ScanShape, Pcs, NoScan, CallsHavePurpose, Idle, PricesWithinBudget,
                      ClientIsClosed, Terminal, Closing
  <1>7. VerifiedSoFar /\ CardsAreHeld
    <2>1. {scan.bundle.chosen[k] : k \in {}} = {}
      OBVIOUS
    <2>2. QED
      BY <1>1, <1>2, <2>1 DEF NoScan, VerifiedSoFar, CardsAreHeld, CardsAreLive
  <1>8. QED
    BY <1>3, <1>4, <1>5, <1>6, <1>7 DEF LiveInv

LEMMA KeepsSound == LiveInv /\ [Next]_vars => LiveInv'
  <1> SUFFICES ASSUME LiveInv, [Next]_vars PROVE LiveInv'
    OBVIOUS
  <1>1. CASE Start \/ Fetching \/ Escapes \/ NextName \/ FetchRefused
    BY <1>1, GatherInv
  <1>2. CASE Fetched
    BY <1>2, FetchedInv
  <1>3. CASE \/ AskSales \/ TakeSales \/ SalesRefused \/ SalesDone
             \/ AskExits \/ TakeExits \/ ExitsDone \/ TakeQuotes
    BY <1>3, PricesInv
  <1>4. CASE Skip \/ SkipKnown \/ RaiseOnRepeat \/ Finish
    BY <1>4, LoopInv
  <1>5. CASE Judge
    BY <1>5, JudgeInv
  <1>6. CASE AskListing \/ TakeListing \/ ListingFailed \/ RaiseOnAnswer
    BY <1>6, RequeryInv
  <1>7. CASE Decide
    BY <1>7, DecideInv
  <1>8. CASE Waiting
    BY <1>8, WaitingInv
  <1>9. CASE UNCHANGED vars
    BY <1>9, StutterInv
  <1>10. QED
    BY <1>1, <1>2, <1>3, <1>4, <1>5, <1>6, <1>7, <1>8, <1>9 DEF Next

LEMMA AlwaysSound == Spec => []LiveInv
  <1>1. QED
    BY StartsSound, KeepsSound, PTL DEF Spec

LEMMA LiveFacts == LiveInv => LiveTypeOK /\ RequestsAreAccounted /\ ReportIsHonest
  <1> SUFFICES ASSUME LiveInv PROVE LiveTypeOK /\ RequestsAreAccounted /\ ReportIsHonest
    OBVIOUS
  <1>1. CallTypeOK /\ PatienceIsBounded
    BY CallFacts DEF LiveInv
  <1>2. LiveTypeOK
    <2>1. scan.pc \in Terminal => call = Idle
      BY DEF LiveInv, CallsHavePurpose, CallInv, Terminal, Closing
    <2>2. QED
      BY <1>1, <2>1 DEF LiveInv, LiveTypeOK, FetchInv, ScanShape, Pcs, VerifiedSoFar
  <1>3. RequestsAreAccounted
    BY <1>1 DEF LiveInv, RequestsAreAccounted
  <1>4. ReportIsHonest
    BY DEF LiveInv, ReportIsHonest, FetchInv, CardsAreHeld
  <1>5. QED
    BY <1>2, <1>3, <1>4

-----------------------------------------------------------------------------
(* Listings for a bundle.                                                  *)
ItemType == [id : Nat, nth : Nat, cost : Nat, z : Nat]

Zs == [i \in ItemType |-> i.z]
Costs == [i \in ItemType |-> i.cost]
FloatSum(U) == SumOver(U, Zs)
CostSum(U) == SumOver(U, Costs)

LEMMA ItemSums ==
  ASSUME NEW A \in SUBSET ItemType, IsFiniteSet(A)
  PROVE  /\ FloatSum(A) \in Nat /\ CostSum(A) \in Nat
         /\ \A U \in SUBSET A :
              /\ IsFiniteSet(U) /\ Cardinality(U) \in Nat /\ Cardinality(U) <= Cardinality(A)
              /\ FloatSum(U) \in Nat /\ FloatSum(U) <= FloatSum(A)
              /\ CostSum(U) \in Nat /\ CostSum(U) <= CostSum(A)
  <1>1. \A x \in A : Zs[x] \in Nat /\ Costs[x] \in Nat
    BY DEF Zs, Costs, ItemType
  <1>2. SumOver(A, Zs) \in Nat /\ SumOver(A, Costs) \in Nat
    BY <1>1, SumNat
  <1>3. ASSUME NEW U \in SUBSET A
        PROVE  /\ IsFiniteSet(U) /\ Cardinality(U) \in Nat /\ Cardinality(U) <= Cardinality(A)
               /\ SumOver(U, Zs) \in Nat /\ SumOver(U, Zs) <= SumOver(A, Zs)
               /\ SumOver(U, Costs) \in Nat /\ SumOver(U, Costs) <= SumOver(A, Costs)
    <2>1. IsFiniteSet(U) /\ Cardinality(U) \in Nat /\ Cardinality(U) <= Cardinality(A)
      BY FS_Subset, FS_CardinalityType
    <2>2. SumOver(U, Zs) \in Nat /\ SumOver(U, Zs) <= SumOver(A, Zs)
      BY <1>1, SumPart
    <2>3. SumOver(U, Costs) \in Nat /\ SumOver(U, Costs) <= SumOver(A, Costs)
      BY <1>1, SumPart
    <2>4. QED
      BY <2>1, <2>2, <2>3
  <1>4. QED
    BY <1>2, <1>3 DEF FloatSum, CostSum

LEMMA ItemAdded ==
  ASSUME NEW A \in SUBSET ItemType, IsFiniteSet(A), NEW x \in ItemType, x \notin A
  PROVE  /\ IsFiniteSet(A \cup {x}) /\ Cardinality(A) \in Nat
         /\ Cardinality(A \cup {x}) = Cardinality(A) + 1
         /\ FloatSum(A) \in Nat /\ FloatSum(A \cup {x}) = FloatSum(A) + x.z
         /\ CostSum(A) \in Nat /\ CostSum(A \cup {x}) = CostSum(A) + x.cost
  <1>1. \A y \in A \cup {x} : Zs[y] \in Int /\ Costs[y] \in Int
    BY DEF Zs, Costs, ItemType
  <1>2. Zs[x] = x.z /\ Costs[x] = x.cost
    BY DEF Zs, Costs
  <1>3. SumOver(A \cup {x}, Zs) = SumOver(A, Zs) + Zs[x]
    BY <1>1, SumMore
  <1>4. SumOver(A \cup {x}, Costs) = SumOver(A, Costs) + Costs[x]
    BY <1>1, SumMore
  <1>5. IsFiniteSet(A \cup {x}) /\ Cardinality(A \cup {x}) = Cardinality(A) + 1
    BY FS_AddElement
  <1>6. Cardinality(A) \in Nat /\ FloatSum(A) \in Nat /\ CostSum(A) \in Nat
    BY ItemSums, FS_CardinalityType
  <1>7. QED
    BY <1>2, <1>3, <1>4, <1>5, <1>6 DEF FloatSum, CostSum

LEMMA ItemRemoved ==
  ASSUME NEW A \in SUBSET ItemType, IsFiniteSet(A), NEW x \in A
  PROVE  /\ IsFiniteSet(A \ {x}) /\ Cardinality(A \ {x}) \in Nat
         /\ Cardinality(A) = Cardinality(A \ {x}) + 1
         /\ FloatSum(A \ {x}) \in Nat /\ FloatSum(A) = FloatSum(A \ {x}) + x.z
         /\ CostSum(A \ {x}) \in Nat /\ CostSum(A) = CostSum(A \ {x}) + x.cost
  <1>1. A \ {x} \in SUBSET ItemType /\ x \in ItemType /\ x \notin A \ {x} /\ A = (A \ {x}) \cup {x}
    OBVIOUS
  <1>2. IsFiniteSet(A \ {x})
    BY FS_Subset
  <1> DEFINE B == A \ {x}
  <1>3. B \cup {x} = A
    OBVIOUS
  <1>4. /\ Cardinality(B) \in Nat /\ Cardinality(B \cup {x}) = Cardinality(B) + 1
        /\ FloatSum(B) \in Nat /\ FloatSum(B \cup {x}) = FloatSum(B) + x.z
        /\ CostSum(B) \in Nat /\ CostSum(B \cup {x}) = CostSum(B) + x.cost
    BY <1>1, <1>2, ItemAdded
  <1>5. QED
    BY <1>2, <1>3, <1>4

LEMMA ItemsJoined ==
  ASSUME NEW A \in SUBSET ItemType, IsFiniteSet(A), NEW B \in SUBSET ItemType, IsFiniteSet(B),
         A \cap B = {}
  PROVE  /\ IsFiniteSet(A \cup B) /\ Cardinality(A) \in Nat /\ Cardinality(B) \in Nat
         /\ Cardinality(A \cup B) = Cardinality(A) + Cardinality(B)
         /\ FloatSum(A \cup B) = FloatSum(A) + FloatSum(B)
         /\ CostSum(A \cup B) = CostSum(A) + CostSum(B)
  <1>1. \A y \in A \cup B : Zs[y] \in Int /\ Costs[y] \in Int
    BY DEF Zs, Costs, ItemType
  <1>2. SumOver(A \cup B, Zs) = SumOver(A, Zs) + SumOver(B, Zs)
    BY <1>1, SumUnion
  <1>3. SumOver(A \cup B, Costs) = SumOver(A, Costs) + SumOver(B, Costs)
    BY <1>1, SumUnion
  <1>4. IsFiniteSet(A \cup B) /\ Cardinality(A \cup B) = Cardinality(A) + Cardinality(B)
    <2>1. Cardinality(A \cap B) = 0
      BY FS_EmptySet
    <2>2. Cardinality(A) \in Nat /\ Cardinality(B) \in Nat
      BY FS_CardinalityType
    <2>3. /\ IsFiniteSet(A \cup B)
          /\ Cardinality(A \cup B) = Cardinality(A) + Cardinality(B) - Cardinality(A \cap B)
      BY FS_Union
    <2>4. QED
      BY <2>1, <2>2, <2>3
  <1>5. QED
    BY <1>2, <1>3, <1>4, FS_CardinalityType DEF FloatSum, CostSum

(* A listing that slots others are better than is not missed: for every    *)
(* choice of slots there is one among those that are kept that is no worse. *)
LEMMA PrunedSuffices ==
  ASSUME NEW A \in SUBSET ItemType, IsFiniteSet(A), NEW slots \in Nat,
         NEW U \in SUBSET A, Cardinality(U) = slots
  PROVE  \E W \in SUBSET PruneDominated(A, slots) :
           Cardinality(W) = slots /\ FloatSum(W) <= FloatSum(U) /\ CostSum(W) <= CostSum(U)
  <1> DEFINE Good == {W \in SUBSET A : /\ Cardinality(W) = slots
                                       /\ FloatSum(W) <= FloatSum(U) /\ CostSum(W) <= CostSum(U)}
             T == {FloatSum(W) + CostSum(W) : W \in Good}
  <1>1. \A W \in SUBSET A : /\ IsFiniteSet(W) /\ W \in SUBSET ItemType
                            /\ FloatSum(W) \in Nat /\ CostSum(W) \in Nat
    BY ItemSums
  <1>2. T \subseteq Nat /\ U \in Good
    BY <1>1
  <1>3. T # {}
    BY <1>2
  <1>4. PICK m \in T : \A k \in T : m <= k
    <2> HIDE DEF T
    <2>1. QED
      BY <1>2, <1>3, Least
  <1>5. PICK W \in Good : m = FloatSum(W) + CostSum(W)
    OBVIOUS
  <1>6. ASSUME NEW i \in W, slots <= Cardinality(Dominators(A, i))
        PROVE  FALSE
    <2> DEFINE R == W \ {i}
               D == Dominators(A, i)
    <2>1. /\ IsFiniteSet(R) /\ Cardinality(R) \in Nat /\ slots = Cardinality(R) + 1
          /\ FloatSum(R) \in Nat /\ FloatSum(W) = FloatSum(R) + i.z
          /\ CostSum(R) \in Nat /\ CostSum(W) = CostSum(R) + i.cost
      BY <1>1, ItemRemoved
    <2>2. D \in SUBSET A /\ IsFiniteSet(D)
      BY FS_Subset DEF Dominators
    <2>3. ~(D \subseteq R)
      <3>1. SUFFICES ASSUME D \in SUBSET R PROVE FALSE
        OBVIOUS
      <3>2. Cardinality(D) <= Cardinality(R)
        BY <2>1, <3>1, FS_Subset
      <3>3. QED
        BY <1>6, <2>1, <2>2, <3>2, FS_CardinalityType
    <2>4. PICK d \in D : d \notin R
      BY <2>3
    <2>5. /\ d \in A /\ d.cost <= i.cost /\ d.z <= i.z /\ (d.cost < i.cost \/ d.z < i.z)
          /\ d \in ItemType /\ i \in ItemType
      BY <2>4 DEF Dominators, Dominates
    <2>6. d.cost \in Nat /\ d.z \in Nat /\ i.cost \in Nat /\ i.z \in Nat
      BY <2>5 DEF ItemType
    <2>7. /\ Cardinality(R \cup {d}) = Cardinality(R) + 1
          /\ FloatSum(R \cup {d}) = FloatSum(R) + d.z
          /\ CostSum(R \cup {d}) = CostSum(R) + d.cost
      <3>1. R \in SUBSET ItemType
        OBVIOUS
      <3> HIDE DEF R
      <3>2. QED
        BY <2>1, <2>4, <2>5, <3>1, ItemAdded
    <2>8. R \cup {d} \in SUBSET A
      BY <2>5
    <2>9. FloatSum(W) <= FloatSum(U) /\ CostSum(W) <= CostSum(U)
      OBVIOUS
    <2>10. FloatSum(U) \in Nat /\ CostSum(U) \in Nat
      BY <1>1
    <2> HIDE DEF R, D
    <2>11. R \cup {d} \in Good
      BY <2>1, <2>5, <2>6, <2>7, <2>8, <2>9, <2>10
    <2>12. m <= FloatSum(R \cup {d}) + CostSum(R \cup {d})
      BY <1>4, <2>11
    <2>13. QED
      BY <1>5, <2>1, <2>5, <2>6, <2>7, <2>12
  <1>7. ASSUME NEW i \in W
        PROVE  i \in PruneDominated(A, slots)
    <2>1. Dominators(A, i) \in SUBSET A
      BY DEF Dominators
    <2>2. Cardinality(Dominators(A, i)) \in Nat
      BY <2>1, FS_Subset, FS_CardinalityType
    <2>3. QED
      BY <1>6, <2>2 DEF PruneDominated
  <1>8. QED
    BY <1>5, <1>7

-----------------------------------------------------------------------------
(* Frontiers.                                                              *)
Point == [total : Nat, cost : Nat, chosen : Seq(Nat), rank : Nat]

OfSize(Q, j) == {p \in Q : Len(p.chosen) = j}

(* Points of one size and float are one point, or differ in cost or rank.   *)
Sharp(Q) ==
  \A p, q \in Q :
    Len(p.chosen) = Len(q.chosen) /\ p.total = q.total /\ p.cost = q.cost /\ p.rank = q.rank => p = q
Distinct(Q) == \A p, q \in Q : Len(p.chosen) = Len(q.chosen) /\ p.total = q.total => p = q

LEMMA PointParts ==
  ASSUME NEW p \in Point
  PROVE  /\ p.total \in Nat /\ p.cost \in Nat /\ p.rank \in Nat
         /\ p.chosen \in Seq(Nat) /\ Len(p.chosen) \in Nat
  <1>1. p.total \in Nat /\ p.cost \in Nat /\ p.rank \in Nat /\ p.chosen \in Seq(Nat)
    BY DEF Point
  <1>2. QED
    BY <1>1

(* What is dropped from a frontier was no better than something that is kept. *)
LEMMA PrunedCovers ==
  ASSUME NEW Q \in SUBSET Point, NEW p \in Q
  PROVE  \E q \in PruneFrontier(Q) :
           Len(q.chosen) = Len(p.chosen) /\ q.total <= p.total /\ q.cost <= p.cost
  <1> DEFINE R == {r \in Q : Len(r.chosen) = Len(p.chosen) /\ r.total <= p.total /\ r.cost <= p.cost}
             R1 == {r \in R : \A s \in R : r.cost <= s.cost}
             R2 == {r \in R1 : \A s \in R1 : r.total <= s.total}
  <1>1. \A r \in Q : r.total \in Nat /\ r.cost \in Nat /\ r.rank \in Nat /\ Len(r.chosen) \in Nat
    BY PointParts
  <1>2. p \in R
    BY <1>1
  <1>3. PICK r1 \in R : \A s \in R : r1.cost <= s.cost
    <2> DEFINE T == {r.cost : r \in R}
    <2>1. T \subseteq Nat /\ T # {}
      BY <1>1, <1>2
    <2> HIDE DEF T
    <2>2. PICK m \in T : \A k \in T : m <= k
      BY <2>1, Least
    <2>3. QED
      BY <2>2 DEF T
  <1>4. PICK r2 \in R1 : \A s \in R1 : r2.total <= s.total
    <2> DEFINE T == {r.total : r \in R1}
    <2>1. T \subseteq Nat /\ T # {}
      BY <1>1, <1>3
    <2> HIDE DEF T
    <2>2. PICK m \in T : \A k \in T : m <= k
      BY <2>1, Least
    <2>3. QED
      BY <2>2 DEF T
  <1>5. PICK q \in R2 : \A s \in R2 : q.rank <= s.rank
    <2> DEFINE T == {r.rank : r \in R2}
    <2>1. T \subseteq Nat /\ T # {}
      BY <1>1, <1>4
    <2> HIDE DEF T
    <2>2. PICK m \in T : \A k \in T : m <= k
      BY <2>1, Least
    <2>3. QED
      BY <2>2 DEF T
  <1>6. q \in Q /\ Len(q.chosen) = Len(p.chosen) /\ q.total <= p.total /\ q.cost <= p.cost
    OBVIOUS
  <1>7. ASSUME NEW s \in Q, Precedes(s, q), ~(q.cost < s.cost)
        PROVE  FALSE
    <2>1. /\ s.total \in Nat /\ s.cost \in Nat /\ s.rank \in Nat
          /\ q.total \in Nat /\ q.cost \in Nat /\ q.rank \in Nat
          /\ p.total \in Nat /\ p.cost \in Nat
      BY <1>1, <1>6
    <2>2. Len(s.chosen) = Len(q.chosen) /\ s.total <= q.total
      BY <1>7, <2>1 DEF Precedes
    <2>3. s.cost <= q.cost
      BY <1>7, <2>1
    <2>4. s \in R
      <3>1. s.total <= p.total /\ s.cost <= p.cost
        BY <1>6, <2>1, <2>2, <2>3
      <3>2. QED
        BY <1>6, <2>2, <3>1
    <2>5. \A r \in R : q.cost <= r.cost
      OBVIOUS
    <2>6. s.cost = q.cost
      BY <2>1, <2>3, <2>4, <2>5
    <2>7. s \in R1
      BY <2>4, <2>5, <2>6
    <2>8. \A r \in R1 : q.total <= r.total
      OBVIOUS
    <2>9. s.total = q.total
      BY <2>1, <2>2, <2>7, <2>8
    <2>10. s \in R2
      BY <2>7, <2>8, <2>9
    <2>11. q.rank <= s.rank
      BY <1>5, <2>10
    <2>12. QED
      BY <1>7, <2>1, <2>6, <2>9, <2>11 DEF Precedes
  <1>8. q \in PruneFrontier(Q)
    BY <1>6, <1>7 DEF PruneFrontier
  <1>9. QED
    BY <1>6, <1>8

(* No two points of a pruned frontier are of one size and float. *)
LEMMA PrunedDistinct ==
  ASSUME NEW Q \in SUBSET Point, Sharp(Q)
  PROVE  Distinct(PruneFrontier(Q))
  <1> SUFFICES ASSUME NEW p \in PruneFrontier(Q), NEW q \in PruneFrontier(Q),
                      Len(p.chosen) = Len(q.chosen), p.total = q.total
               PROVE  p = q
    BY DEF Distinct
  <1>1. p \in Q /\ q \in Q
    BY DEF PruneFrontier
  <1>2. p.cost \in Nat /\ q.cost \in Nat /\ p.rank \in Nat /\ q.rank \in Nat
    BY <1>1, PointParts
  <1>3. (Precedes(p, q) => q.cost < p.cost) /\ (Precedes(q, p) => p.cost < q.cost)
    BY <1>1 DEF PruneFrontier
  <1>4. p.cost = q.cost
    BY <1>2, <1>3 DEF Precedes
  <1>5. p.rank = q.rank
    BY <1>2, <1>3, <1>4 DEF Precedes
  <1>6. QED
    BY <1>1, <1>4, <1>5 DEF Sharp

(* A truncated frontier still has the least float of each size. *)
LEMMA TruncatedLeast ==
  ASSUME NEW Q \in SUBSET Point, NEW limit \in Nat \ {0}, NEW p \in Q
  PROVE  \E q \in Truncated(Q, limit) : Len(q.chosen) = Len(p.chosen) /\ q.total <= p.total
  <1> DEFINE R == OfSize(Q, Len(p.chosen))
             R1 == {r \in R : \A s \in R : r.total <= s.total}
             R2 == {r \in R1 : \A s \in R1 : r.cost <= s.cost}
  <1>1. \A r \in Q : r.total \in Nat /\ r.cost \in Nat /\ r.rank \in Nat
    BY PointParts
  <1>2. p \in R /\ R \subseteq Q
    BY DEF OfSize
  <1>3. PICK r1 \in R : \A s \in R : r1.total <= s.total
    <2> DEFINE T == {r.total : r \in R}
    <2>1. T \subseteq Nat /\ T # {}
      BY <1>1, <1>2
    <2> HIDE DEF T
    <2>2. PICK m \in T : \A k \in T : m <= k
      BY <2>1, Least
    <2>3. QED
      BY <2>2 DEF T
  <1>4. PICK r2 \in R1 : \A s \in R1 : r2.cost <= s.cost
    <2> DEFINE T == {r.cost : r \in R1}
    <2>1. T \subseteq Nat /\ T # {}
      BY <1>1, <1>2, <1>3
    <2> HIDE DEF T
    <2>2. PICK m \in T : \A k \in T : m <= k
      BY <2>1, Least
    <2>3. QED
      BY <2>2 DEF T
  <1>5. PICK q \in R2 : \A s \in R2 : q.rank <= s.rank
    <2> DEFINE T == {r.rank : r \in R2}
    <2>1. T \subseteq Nat /\ T # {}
      BY <1>1, <1>2, <1>4
    <2> HIDE DEF T
    <2>2. PICK m \in T : \A k \in T : m <= k
      BY <2>1, Least
    <2>3. QED
      BY <2>2 DEF T
  <1>6. q \in Q /\ Len(q.chosen) = Len(p.chosen) /\ q.total <= p.total
    BY <1>2 DEF OfSize
  <1>7. {s \in Q : Precedes(s, q)} = {}
    <2> SUFFICES ASSUME NEW s \in Q, Precedes(s, q) PROVE FALSE
      OBVIOUS
    <2>1. s \in R
      BY <1>6 DEF OfSize, Precedes
    <2>2. /\ s.total \in Nat /\ s.cost \in Nat /\ s.rank \in Nat
          /\ q.total \in Nat /\ q.cost \in Nat /\ q.rank \in Nat
      BY <1>1, <1>6
    <2>3. \A r \in R : q.total <= r.total
      OBVIOUS
    <2>4. s.total = q.total
      BY <2>1, <2>2, <2>3 DEF Precedes
    <2>5. s \in R1
      BY <2>1, <2>3, <2>4
    <2>6. \A r \in R1 : q.cost <= r.cost
      OBVIOUS
    <2>7. s.cost = q.cost
      BY <2>2, <2>4, <2>5, <2>6 DEF Precedes
    <2>8. s \in R2
      BY <2>5, <2>6, <2>7
    <2>9. q.rank <= s.rank
      BY <1>5, <2>8
    <2>10. QED
      BY <2>2, <2>4, <2>7, <2>9 DEF Precedes
  <1>8. q \in Truncated(Q, limit)
    <2>1. Cardinality({s \in Q : Precedes(s, q)}) = 0
      BY <1>7, FS_EmptySet
    <2>2. QED
      BY <1>6, <2>1 DEF Truncated
  <1>9. QED
    BY <1>6, <1>8

(* A size with no more points than the limit is kept whole. *)
LEMMA TruncatedKeeps ==
  ASSUME NEW Q \in SUBSET Point, IsFiniteSet(Q), NEW limit \in Nat, NEW p \in Q,
         Cardinality(OfSize(Q, Len(p.chosen))) <= limit
  PROVE  p \in Truncated(Q, limit)
  <1> DEFINE R == OfSize(Q, Len(p.chosen))
             B == {s \in Q : Precedes(s, p)}
  <1>1. p.total \in Nat /\ p.cost \in Nat /\ p.rank \in Nat
    BY PointParts
  <1>2. p \notin B
    BY <1>1 DEF Precedes
  <1>3. IsFiniteSet(R) /\ p \in R
    <2>1. R \in SUBSET Q
      BY DEF OfSize
    <2>2. QED
      BY <2>1, FS_Subset DEF OfSize
  <1>4. B \in SUBSET (R \ {p})
    BY <1>2 DEF OfSize, Precedes
  <1>5. Cardinality(R \ {p}) = Cardinality(R) - 1 /\ IsFiniteSet(R \ {p}) /\ Cardinality(R) \in Nat
    BY <1>3, FS_RemoveElement, FS_CardinalityType
  <1>6. Cardinality(B) <= Cardinality(R \ {p}) /\ Cardinality(B) \in Nat
    BY <1>4, <1>5, FS_Subset, FS_CardinalityType
  <1>7. Cardinality(B) < limit
    BY <1>5, <1>6
  <1>8. QED
    BY <1>7 DEF Truncated

-----------------------------------------------------------------------------
(* What is on a list, and on the first k places of it.                     *)
Elems(s) == {s[i] : i \in DOMAIN s}
Prefix(s, k) == {s[i] : i \in 1..k}

LEMMA ElemsAppended ==
  ASSUME NEW s \in Seq(Nat), NEW e \in Nat
  PROVE  /\ Append(s, e) \in Seq(Nat) /\ Len(Append(s, e)) = Len(s) + 1
         /\ Elems(Append(s, e)) = Elems(s) \cup {e}
  <1>1. Append(s, e) \in Seq(Nat) /\ Len(Append(s, e)) = Len(s) + 1 /\ Len(s) \in Nat
    OBVIOUS
  <1>2. /\ DOMAIN s = 1..Len(s) /\ DOMAIN Append(s, e) = 1..(Len(s) + 1)
        /\ \A i \in 1..Len(s) : Append(s, e)[i] = s[i]
        /\ Append(s, e)[Len(s) + 1] = e
    BY <1>1
  <1>3. DOMAIN Append(s, e) = DOMAIN s \cup {Len(s) + 1}
    BY <1>1, <1>2
  <1>4. QED
    BY <1>1, <1>2, <1>3 DEF Elems

LEMMA ElemsJoined ==
  ASSUME NEW s \in Seq(Nat), NEW t \in Seq(Nat)
  PROVE  /\ s \o t \in Seq(Nat) /\ Len(s \o t) = Len(s) + Len(t)
         /\ Elems(s \o t) = Elems(s) \cup Elems(t)
  <1>1. s \o t \in Seq(Nat) /\ Len(s \o t) = Len(s) + Len(t) /\ Len(s) \in Nat /\ Len(t) \in Nat
    OBVIOUS
  <1>2. /\ DOMAIN s = 1..Len(s) /\ DOMAIN t = 1..Len(t) /\ DOMAIN (s \o t) = 1..(Len(s) + Len(t))
        /\ \A i \in 1..Len(s) : (s \o t)[i] = s[i]
        /\ \A i \in 1..Len(t) : (s \o t)[Len(s) + i] = t[i]
    BY <1>1
  <1>3. \A i \in DOMAIN (s \o t) : i \in DOMAIN s \/ (i - Len(s) \in DOMAIN t /\ i = Len(s) + (i - Len(s)))
    BY <1>1, <1>2
  <1>4. \A i \in DOMAIN s : i \in DOMAIN (s \o t)
    BY <1>1, <1>2
  <1>5. \A i \in DOMAIN t : Len(s) + i \in DOMAIN (s \o t)
    BY <1>1, <1>2
  <1>6. Elems(s \o t) \subseteq Elems(s) \cup Elems(t)
    BY <1>2, <1>3 DEF Elems
  <1>7. Elems(s) \subseteq Elems(s \o t)
    BY <1>2, <1>4 DEF Elems
  <1>8. Elems(t) \subseteq Elems(s \o t)
    <2> SUFFICES ASSUME NEW i \in DOMAIN t PROVE t[i] \in Elems(s \o t)
      BY DEF Elems
    <2>1. (s \o t)[Len(s) + i] = t[i]
      BY <1>2
    <2>2. QED
      BY <1>5, <2>1 DEF Elems
  <1>9. QED
    BY <1>1, <1>6, <1>7, <1>8

LEMMA ListedOnce ==
  ASSUME NEW S, IsFiniteSet(S), NEW s, Lists(s, S)
  PROVE  \A i, j \in 1..Cardinality(S) : s[i] = s[j] => i = j
  <1> DEFINE n == Cardinality(S)
             f == [i \in 1..n |-> s[i]]
  <1>1. IsFiniteSet(1..n) /\ Cardinality(1..n) = n
    BY FS_Interval DEF Lists
  <1>2. f \in Surjection(1..n, S)
    BY DEF Lists, Surjection
  <1>3. f \in Injection(1..n, S)
    <2> HIDE DEF f
    <2>1. QED
      BY <1>1, <1>2, FS_SurjSameCardinalityImpliesInj
  <1>4. \A i \in 1..n : f[i] = s[i]
    OBVIOUS
  <1> HIDE DEF f
  <1>5. \A i, j \in 1..n : f[i] = f[j] => i = j
    BY <1>3 DEF Injection, IsInjective
  <1>6. QED
    BY <1>4, <1>5

LEMMA PrefixGrows ==
  ASSUME NEW S, IsFiniteSet(S), NEW s, Lists(s, S), NEW k \in 0..Cardinality(S)
  PROVE  /\ Prefix(s, k) \in SUBSET S /\ Prefix(s, Cardinality(S)) = S /\ Prefix(s, 0) = {}
         /\ k < Cardinality(S) => /\ s[k + 1] \in S /\ s[k + 1] \notin Prefix(s, k)
                                  /\ Prefix(s, k + 1) = Prefix(s, k) \cup {s[k + 1]}
  <1>1. Cardinality(S) \in Nat /\ k \in Nat
    BY DEF Lists
  <1>2. Prefix(s, k) \in SUBSET S /\ Prefix(s, Cardinality(S)) = S
    BY <1>1 DEF Lists, Prefix
  <1>3. Prefix(s, 0) = {}
    BY DEF Prefix
  <1>4. ASSUME k < Cardinality(S)
        PROVE  /\ s[k + 1] \in S /\ s[k + 1] \notin Prefix(s, k)
               /\ Prefix(s, k + 1) = Prefix(s, k) \cup {s[k + 1]}
    <2>1. k + 1 \in 1..Cardinality(S) /\ 1..(k + 1) = (1..k) \cup {k + 1}
      BY <1>1, <1>4
    <2>2. s[k + 1] \in S
      BY <2>1 DEF Lists
    <2>3. s[k + 1] \notin Prefix(s, k)
      <3>1. SUFFICES ASSUME NEW i \in 1..k, s[i] = s[k + 1] PROVE FALSE
        BY DEF Prefix
      <3>2. i \in 1..Cardinality(S) /\ i # k + 1
        BY <1>1, <1>4
      <3>3. QED
        BY <2>1, <3>1, <3>2, ListedOnce
    <2>4. QED
      BY <2>1, <2>2, <2>3 DEF Prefix
  <1>5. QED
    BY <1>2, <1>3, <1>4

(* The cheapest first. *)
LEMMA CheapestListed ==
  ASSUME NEW A \in SUBSET ItemType, IsFiniteSet(A)
  PROVE  Lists(InOrder(A, CheaperFirst), A)
  <1> DEFINE B == {p \in A \X A : CheaperFirst(p[1], p[2])}
             order == InOrder(A, CheaperFirst)
  <1>1. Orders(B, A)
    <2>1. \A a, b \in A : <<a, b>> \in B <=> CheaperFirst(a, b)
      OBVIOUS
    <2>2. \A a \in A : /\ a.id \in Nat /\ a.nth \in Nat /\ a.cost \in Nat /\ a.z \in Nat
                       /\ a = [id |-> a.id, nth |-> a.nth, cost |-> a.cost, z |-> a.z]
      BY DEF ItemType
    <2> HIDE DEF B
    <2>3. \A a, b \in A : a # b => (CheaperFirst(a, b) <=> ~CheaperFirst(b, a))
      <3> SUFFICES ASSUME NEW a \in A, NEW b \in A, a # b
                   PROVE  CheaperFirst(a, b) <=> ~CheaperFirst(b, a)
        OBVIOUS
      <3>1. ~(a.id = b.id /\ a.nth = b.nth /\ a.cost = b.cost /\ a.z = b.z)
        BY <2>2
      <3>2. QED
        BY <2>2, <3>1 DEF CheaperFirst
    <2>4. \A a, b, c \in A : CheaperFirst(a, b) /\ CheaperFirst(b, c) => CheaperFirst(a, c)
      BY <2>2 DEF CheaperFirst
    <2>5. QED
      BY <2>1, <2>3, <2>4 DEF Orders
  <1>2. \A x \in A : {y \in A \ {x} : CheaperFirst(y, x)} = Below(A, B, x)
    BY DEF Below
  <1>3. /\ DOMAIN order = 1..Cardinality(A)
        /\ \A k \in 1..Cardinality(A) :
             order[k] = CHOOSE x \in A : Cardinality({y \in A \ {x} : CheaperFirst(y, x)}) = k - 1
    BY DEF InOrder
  <1> HIDE DEF B, order
  <1>4. ASSUME NEW k \in 1..Cardinality(A), NEW x \in A, Cardinality(Below(A, B, x)) = k - 1
        PROVE  order[k] \in A /\ Cardinality(Below(A, B, order[k])) = k - 1
    <2>1. Cardinality({y \in A \ {x} : CheaperFirst(y, x)}) = k - 1
      BY <1>2, <1>4
    <2>2. order[k] \in A /\ Cardinality({y \in A \ {order[k]} : CheaperFirst(y, order[k])}) = k - 1
      BY <1>3, <2>1
    <2>3. QED
      BY <1>2, <2>2
  <1>5. Lists(order, A)
    BY <1>1, <1>3, <1>4, OrderedLists
  <1>6. QED
    BY <1>5 DEF order

-----------------------------------------------------------------------------
(* The frontier of one collection.                                         *)

(* A point stands for a choice of listings. *)
Selects(p, U) ==
  /\ Len(p.chosen) = Cardinality(U) /\ Elems(p.chosen) = {u.id : u \in U}
  /\ p.total = FloatSum(U) /\ p.cost = CostSum(U)

(* Every point is a choice from P. *)
SoundFor(Q, P, k, slots, budget) ==
  \A p \in Q : /\ p.rank <= k /\ Len(p.chosen) <= slots /\ p.total <= budget
               /\ \E U \in SUBSET P : Selects(p, U)

(* For every choice from P of low to slots listings within the budget some  *)
(* point is no worse in float and, with room for all, in cost. *)
CompleteFor(Q, P, low, slots, budget, wide) ==
  \A U \in SUBSET P : Cardinality(U) \in low..slots /\ FloatSum(U) <= budget =>
    \E p \in Q : Len(p.chosen) = Cardinality(U) /\ p.total <= FloatSum(U) /\ (wide => p.cost <= CostSum(U))

(* E is what the points of Q become with x added. *)
IsExtension(E, Q, x, n, slots, budget) ==
  /\ E \in SUBSET Point /\ IsFiniteSet(E)
  /\ \A e \in E : \E p \in Q :
       /\ Len(p.chosen) < slots /\ p.total + x.z <= budget
       /\ e.total = p.total + x.z /\ e.cost = p.cost + x.cost /\ e.rank = n
       /\ e.chosen = Append(p.chosen, x.id) /\ Len(e.chosen) = Len(p.chosen) + 1
       /\ Elems(e.chosen) = Elems(p.chosen) \cup {x.id}
  /\ \A p \in Q : Len(p.chosen) < slots /\ p.total + x.z <= budget =>
       \E e \in E :
         e.total = p.total + x.z /\ e.cost = p.cost + x.cost /\ Len(e.chosen) = Len(p.chosen) + 1

LEMMA ExtendedIs ==
  ASSUME NEW Q \in SUBSET Point, IsFiniteSet(Q), NEW x \in ItemType, NEW n, n \in Nat,
         NEW slots, NEW budget
  PROVE  IsExtension(Extended(Q, x, n, slots, budget), Q, x, n, slots, budget)
  <1> DEFINE More(p) == [total |-> p.total + x.z, cost |-> p.cost + x.cost,
                         chosen |-> Append(p.chosen, x.id), rank |-> n]
             R == {q \in Q : Len(q.chosen) < slots /\ q.total + x.z <= budget}
             f == [p \in R |-> More(p)]
             E == Extended(Q, x, n, slots, budget)
  <1>1. E = {More(p) : p \in R}
    BY DEF Extended
  <1>2. x.id \in Nat /\ x.z \in Nat /\ x.cost \in Nat
    BY DEF ItemType
  <1>3. \A p \in Q : /\ p.total \in Nat /\ p.cost \in Nat /\ p.chosen \in Seq(Nat)
                     /\ Append(p.chosen, x.id) \in Seq(Nat)
                     /\ Len(Append(p.chosen, x.id)) = Len(p.chosen) + 1
                     /\ Elems(Append(p.chosen, x.id)) = Elems(p.chosen) \cup {x.id}
    BY <1>2, PointParts, ElemsAppended
  <1>4. \A p \in Q : More(p) \in Point
    BY <1>2, <1>3 DEF Point
  <1>5. \A p \in Q : /\ More(p).total = p.total + x.z /\ More(p).cost = p.cost + x.cost
                     /\ More(p).rank = n /\ More(p).chosen = Append(p.chosen, x.id)
    OBVIOUS
  <1>6. IsFiniteSet(R)
    BY FS_Subset
  <1>7. IsFiniteSet({f[p] : p \in R})
    <2> HIDE DEF f, R
    <2>1. QED
      BY <1>6, ImageFinite
  <1>8. E = {f[p] : p \in R}
    BY <1>1
  <1> HIDE DEF More, f, E
  <1>9. E \in SUBSET Point /\ IsFiniteSet(E)
    BY <1>1, <1>4, <1>7, <1>8
  <1>10. ASSUME NEW e \in E
         PROVE  \E p \in Q :
              /\ Len(p.chosen) < slots /\ p.total + x.z <= budget
              /\ e.total = p.total + x.z /\ e.cost = p.cost + x.cost /\ e.rank = n
              /\ e.chosen = Append(p.chosen, x.id) /\ Len(e.chosen) = Len(p.chosen) + 1
              /\ Elems(e.chosen) = Elems(p.chosen) \cup {x.id}
    <2>1. PICK p \in R : e = More(p)
      BY <1>1
    <2>2. QED
      BY <1>3, <1>5, <2>1
  <1>11. ASSUME NEW p \in Q, Len(p.chosen) < slots, p.total + x.z <= budget
         PROVE  \E e \in E : /\ e.total = p.total + x.z /\ e.cost = p.cost + x.cost
                             /\ Len(e.chosen) = Len(p.chosen) + 1
    <2>1. p \in R /\ More(p) \in E
      BY <1>1, <1>11
    <2>2. QED
      BY <1>3, <1>5, <2>1
  <1>12. QED
    BY <1>9, <1>10, <1>11 DEF E, IsExtension

(* Of no size from low up are there more than limit choices of P. *)
RoomFor(P, k, low, slots, budget, limit) ==
  \A Q \in SUBSET Point :
    IsFiniteSet(Q) /\ Distinct(Q) /\ SoundFor(Q, P, k, slots, budget) =>
      \A j \in low..slots : Cardinality(OfSize(Q, j)) <= limit

(* One more listing. *)
LEMMA Widened ==
  ASSUME NEW P \in SUBSET ItemType, IsFiniteSet(P), NEW x \in ItemType, x \notin P,
         NEW k \in Nat, NEW slots \in Nat, NEW budget \in Nat, NEW low \in Int,
         NEW limit \in Nat \ {0}, NEW wide,
         NEW Q \in SUBSET Point, IsFiniteSet(Q), Distinct(Q), SoundFor(Q, P, k, slots, budget),
         CompleteFor(Q, P, low, slots, budget, wide),
         wide => RoomFor(P \cup {x}, k + 1, low + 1, slots, budget, limit),
         NEW Z, Z = WithItem(Q, x, k + 1, slots, budget, limit)
  PROVE  /\ Z \in SUBSET Point /\ IsFiniteSet(Z) /\ Distinct(Z)
         /\ SoundFor(Z, P \cup {x}, k + 1, slots, budget)
         /\ CompleteFor(Z, P \cup {x}, low + 1, slots, budget, wide)
  <1> DEFINE E == Extended(Q, x, k + 1, slots, budget)
             W == Q \cup E
             Y == PruneFrontier(W)
             P1 == P \cup {x}
  <1>1. /\ E \in SUBSET Point /\ IsFiniteSet(E)
        /\ \A e \in E : \E p \in Q :
             /\ Len(p.chosen) < slots /\ p.total + x.z <= budget
             /\ e.total = p.total + x.z /\ e.cost = p.cost + x.cost /\ e.rank = k + 1
             /\ e.chosen = Append(p.chosen, x.id) /\ Len(e.chosen) = Len(p.chosen) + 1
             /\ Elems(e.chosen) = Elems(p.chosen) \cup {x.id}
        /\ \A p \in Q : Len(p.chosen) < slots /\ p.total + x.z <= budget =>
             \E e \in E : /\ e.total = p.total + x.z /\ e.cost = p.cost + x.cost
                          /\ Len(e.chosen) = Len(p.chosen) + 1
    <2>1. IsExtension(E, Q, x, k + 1, slots, budget)
      BY ExtendedIs
    <2>2. QED
      BY <2>1 DEF IsExtension
  <1>2. x.id \in Nat /\ x.z \in Nat /\ x.cost \in Nat
    BY DEF ItemType
  <1>3. \A p \in Point : /\ p.total \in Nat /\ p.cost \in Nat /\ p.rank \in Nat
                         /\ p.chosen \in Seq(Nat) /\ Len(p.chosen) \in Nat
    BY PointParts
  <1>4. W \in SUBSET Point /\ IsFiniteSet(W)
    BY <1>1, FS_Union
  <1>5. Z = Truncated(Y, limit)
    BY DEF WithItem
  <1> HIDE DEF E
  <1>6. Y \in SUBSET W /\ Z \in SUBSET Y
    BY <1>5 DEF PruneFrontier, Truncated
  <1>7. SoundFor(W, P1, k + 1, slots, budget)
    <2> SUFFICES ASSUME NEW e \in W
                 PROVE  /\ e.rank <= k + 1 /\ Len(e.chosen) <= slots /\ e.total <= budget
                        /\ \E U \in SUBSET P1 : Selects(e, U)
      BY DEF SoundFor
    <2>1. CASE e \in Q
      <3>1. /\ e.rank <= k /\ Len(e.chosen) <= slots /\ e.total <= budget
            /\ \E U \in SUBSET P : Selects(e, U)
        BY <2>1 DEF SoundFor
      <3>2. e.rank <= k + 1
        BY <1>3, <2>1, <3>1
      <3>3. QED
        BY <3>1, <3>2
    <2>2. CASE e \in E
      <3>1. PICK p \in Q :
              /\ Len(p.chosen) < slots /\ p.total + x.z <= budget
              /\ e.total = p.total + x.z /\ e.cost = p.cost + x.cost /\ e.rank = k + 1
              /\ e.chosen = Append(p.chosen, x.id) /\ Len(e.chosen) = Len(p.chosen) + 1
              /\ Elems(e.chosen) = Elems(p.chosen) \cup {x.id}
        BY <1>1, <2>2
      <3>2. PICK U \in SUBSET P : Selects(p, U)
        BY DEF SoundFor
      <3>3. U \in SUBSET ItemType /\ IsFiniteSet(U) /\ x \notin U
        BY FS_Subset
      <3>4. /\ Cardinality(U \cup {x}) = Cardinality(U) + 1
            /\ FloatSum(U \cup {x}) = FloatSum(U) + x.z
            /\ CostSum(U \cup {x}) = CostSum(U) + x.cost
        BY <3>3, ItemAdded
      <3>5. {u.id : u \in U \cup {x}} = {u.id : u \in U} \cup {x.id}
        OBVIOUS
      <3>6. Selects(e, U \cup {x})
        BY <3>1, <3>2, <3>4, <3>5 DEF Selects
      <3>7. Len(e.chosen) <= slots
        BY <1>3, <3>1
      <3>8. QED
        BY <3>1, <3>6, <3>7
    <2>3. QED
      BY <2>1, <2>2
  <1>8. Sharp(W)
    <2> SUFFICES ASSUME NEW p \in W, NEW q \in W, Len(p.chosen) = Len(q.chosen),
                        p.total = q.total, p.cost = q.cost, p.rank = q.rank
                 PROVE  p = q
      BY DEF Sharp
    <2>1. \A r \in Q : r.rank # k + 1
      BY <1>3 DEF SoundFor
    <2>2. \A r \in E : r.rank = k + 1
      BY <1>1
    <2>3. CASE p \in Q /\ q \in Q
      BY <2>3 DEF Distinct
    <2>4. CASE p \in E /\ q \in E
      <3>1. PICK a \in Q : /\ p.total = a.total + x.z /\ p.cost = a.cost + x.cost /\ p.rank = k + 1
                           /\ p.chosen = Append(a.chosen, x.id) /\ Len(p.chosen) = Len(a.chosen) + 1
        BY <1>1, <2>4
      <3>2. PICK b \in Q : /\ q.total = b.total + x.z /\ q.cost = b.cost + x.cost /\ q.rank = k + 1
                           /\ q.chosen = Append(b.chosen, x.id) /\ Len(q.chosen) = Len(b.chosen) + 1
        BY <1>1, <2>4
      <3>3. a.total = b.total /\ Len(a.chosen) = Len(b.chosen)
        <4>1. /\ a.total \in Nat /\ Len(a.chosen) \in Nat
              /\ b.total \in Nat /\ Len(b.chosen) \in Nat
          BY <1>3
        <4>2. a.total + x.z = b.total + x.z /\ Len(a.chosen) + 1 = Len(b.chosen) + 1
          BY <3>1, <3>2
        <4>3. a.total = b.total
          BY <1>2, <4>1, <4>2
        <4>4. Len(a.chosen) = Len(b.chosen)
          <5> DEFINE m == Len(a.chosen)
                     n == Len(b.chosen)
          <5>1. m \in Nat /\ n \in Nat /\ m + 1 = n + 1
            BY <4>1, <4>2
          <5> HIDE DEF m, n
          <5>2. m = n
            BY <5>1
          <5>3. QED
            BY <5>2 DEF m, n
        <4>5. QED
          BY <4>3, <4>4
      <3>4. a = b
        BY <3>3 DEF Distinct
      <3>5. p \in Point /\ q \in Point
        BY <1>4
      <3>6. p.total = q.total /\ p.cost = q.cost /\ p.chosen = q.chosen /\ p.rank = q.rank
        BY <3>1, <3>2, <3>4
      <3>7. \A r \in Point : r = [total |-> r.total, cost |-> r.cost, chosen |-> r.chosen, rank |-> r.rank]
        BY DEF Point
      <3>8. QED
        BY <3>5, <3>6, <3>7
    <2>5. QED
      BY <2>1, <2>2, <2>3, <2>4
  <1>9. Y \in SUBSET Point /\ IsFiniteSet(Y) /\ Distinct(Y) /\ SoundFor(Y, P1, k + 1, slots, budget)
    <2>1. Distinct(Y)
      BY <1>4, <1>8, PrunedDistinct
    <2>2. SoundFor(Y, P1, k + 1, slots, budget)
      BY <1>6, <1>7 DEF SoundFor
    <2>3. QED
      BY <1>4, <1>6, <2>1, <2>2, FS_Subset
  <1>10. CompleteFor(Z, P1, low + 1, slots, budget, wide)
    <2> SUFFICES ASSUME NEW U \in SUBSET P1, Cardinality(U) \in (low + 1)..slots, FloatSum(U) <= budget
                 PROVE  \E p \in Z : /\ Len(p.chosen) = Cardinality(U) /\ p.total <= FloatSum(U)
                                     /\ (wide => p.cost <= CostSum(U))
      BY DEF CompleteFor
    <2>1. IsFiniteSet(P1) /\ P1 \in SUBSET ItemType
      BY FS_AddElement
    <2>2. /\ IsFiniteSet(U) /\ U \in SUBSET ItemType /\ Cardinality(U) \in Nat
          /\ FloatSum(U) \in Nat /\ CostSum(U) \in Nat
      BY <2>1, ItemSums
    <2>3. PICK w \in W : /\ Len(w.chosen) = Cardinality(U) /\ w.total <= FloatSum(U)
                         /\ (wide => w.cost <= CostSum(U))
      <3>1. CASE x \notin U
        <4>1. U \in SUBSET P
          BY <3>1
        <4>2. Cardinality(U) \in low..slots
          BY <2>2
        <4>3. QED
          BY <4>1, <4>2 DEF CompleteFor
      <3>2. CASE x \in U
        <4> DEFINE V == U \ {x}
        <4>1. V \in SUBSET P
          OBVIOUS
        <4>2. /\ Cardinality(V) \in Nat /\ Cardinality(U) = Cardinality(V) + 1
              /\ FloatSum(V) \in Nat /\ FloatSum(U) = FloatSum(V) + x.z
              /\ CostSum(V) \in Nat /\ CostSum(U) = CostSum(V) + x.cost
          BY <2>2, <3>2, ItemRemoved
        <4> HIDE DEF V
        <4>3. Cardinality(V) \in low..slots /\ FloatSum(V) <= budget
          <5>1. Cardinality(U) \in (low + 1)..slots /\ FloatSum(U) <= budget
            OBVIOUS
          <5>2. QED
            BY <1>2, <2>2, <4>2, <5>1
        <4>4. PICK p \in Q : /\ Len(p.chosen) = Cardinality(V) /\ p.total <= FloatSum(V)
                             /\ (wide => p.cost <= CostSum(V))
          BY <4>1, <4>3 DEF CompleteFor
        <4>5. p.total \in Nat /\ p.cost \in Nat
          BY <1>3
        <4>6. Len(p.chosen) < slots /\ p.total + x.z <= budget
          <5>1. Cardinality(U) \in (low + 1)..slots /\ FloatSum(U) <= budget
            OBVIOUS
          <5>2. Cardinality(V) < slots /\ FloatSum(V) + x.z <= budget
            BY <2>2, <4>2, <5>1
          <5>3. Len(p.chosen) = Cardinality(V) /\ p.total <= FloatSum(V)
            BY <4>4
          <5>4. x.z \in Nat /\ FloatSum(V) \in Nat
            BY <1>2, <4>2
          <5>5. QED
            BY <4>5, <5>2, <5>3, <5>4
        <4>7. PICK e \in E : /\ e.total = p.total + x.z /\ e.cost = p.cost + x.cost
                             /\ Len(e.chosen) = Len(p.chosen) + 1
          BY <1>1, <4>6
        <4>8. Len(e.chosen) = Cardinality(U) /\ e.total <= FloatSum(U)
          <5>1. Len(p.chosen) = Cardinality(V) /\ p.total <= FloatSum(V)
            BY <4>4
          <5>2. x.z \in Nat /\ FloatSum(V) \in Nat
            BY <1>2, <4>2
          <5>3. e.total = p.total + x.z /\ Len(e.chosen) = Len(p.chosen) + 1
            BY <4>7
          <5>4. QED
            BY <4>2, <4>5, <5>1, <5>2, <5>3
        <4>9. wide => e.cost <= CostSum(U)
          BY <1>2, <4>2, <4>4, <4>5, <4>7
        <4>10. QED
          BY <4>7, <4>8, <4>9
      <3>3. QED
        BY <3>1, <3>2
    <2>4. PICK y \in Y : Len(y.chosen) = Len(w.chosen) /\ y.total <= w.total /\ y.cost <= w.cost
      BY <1>4, PrunedCovers
    <2>5. /\ y.total \in Nat /\ y.cost \in Nat /\ w.total \in Nat /\ w.cost \in Nat
      BY <1>3, <1>4, <1>9
    <2>6. CASE wide
      <3>1. Cardinality(OfSize(Y, Len(y.chosen))) <= limit
        BY <1>9, <2>3, <2>4, <2>6 DEF RoomFor
      <3>2. limit \in Nat /\ Y \in SUBSET Point /\ IsFiniteSet(Y)
        BY <1>9
      <3>3. y \in Z
        <4> HIDE DEF Y
        <4>1. QED
          BY <1>5, <2>4, <3>1, <3>2, TruncatedKeeps
      <3>4. QED
        BY <2>2, <2>3, <2>4, <2>5, <2>6, <3>3
    <2>7. CASE ~wide
      <3>1. PICK z \in Z : Len(z.chosen) = Len(y.chosen) /\ z.total <= y.total
        BY <1>5, <1>9, TruncatedLeast
      <3>2. z.total \in Nat
        BY <1>3, <1>6, <1>9
      <3>3. QED
        BY <2>2, <2>3, <2>4, <2>5, <2>7, <3>1, <3>2
    <2>8. QED
      BY <2>6, <2>7
  <1>11. Z \in SUBSET Point /\ IsFiniteSet(Z) /\ Distinct(Z) /\ SoundFor(Z, P1, k + 1, slots, budget)
    <2>1. Z \in SUBSET Y
      BY <1>6
    <2>2. QED
      BY <1>9, <2>1, FS_Subset DEF Distinct, SoundFor
  <1>12. QED
    BY <1>10, <1>11

LEMMA PrefixSize ==
  ASSUME NEW S, IsFiniteSet(S), NEW s, Lists(s, S), NEW k \in 0..Cardinality(S)
  PROVE  IsFiniteSet(Prefix(s, k)) /\ Cardinality(Prefix(s, k)) = k
  <1> DEFINE f == [i \in 1..k |-> s[i]]
  <1>1. k \in Nat /\ Cardinality(S) \in Nat /\ \A i \in 1..k : i \in 1..Cardinality(S)
    BY DEF Lists
  <1>2. IsFiniteSet(1..k) /\ Cardinality(1..k) = k
    BY <1>1, FS_Interval
  <1>3. \A i, j \in 1..k : f[i] = f[j] => i = j
    BY <1>1, ListedOnce
  <1>4. f \in Bijection(1..k, Prefix(s, k))
    BY <1>3 DEF Bijection, Injection, Surjection, IsInjective, Prefix
  <1>5. ExistsBijection(1..k, Prefix(s, k))
    BY <1>4 DEF ExistsBijection
  <1>6. QED
    BY <1>2, <1>5, FS_Bijection

(* A choice that has room to be completed is one of as many completions. *)
LEMMA FewOfSize ==
  ASSUME NEW A \in SUBSET ItemType, IsFiniteSet(A), NEW order, Lists(order, A),
         NEW k \in 0..Cardinality(A), NEW slots \in Nat, NEW budget \in Nat, NEW limit \in Nat,
         Cardinality({V \in SUBSET A : Cardinality(V) = slots}) <= limit
  PROVE  RoomFor(Prefix(order, k), k, (k + slots) - Cardinality(A), slots, budget, limit)
  <1> DEFINE P == Prefix(order, k)
             Full == {V \in SUBSET A : Cardinality(V) = slots}
  <1> SUFFICES ASSUME NEW Q \in SUBSET Point, IsFiniteSet(Q), Distinct(Q), SoundFor(Q, P, k, slots, budget),
                      NEW j \in ((k + slots) - Cardinality(A))..slots
               PROVE  Cardinality(OfSize(Q, j)) <= limit
    BY DEF RoomFor
  <1>1. Cardinality(A) \in Nat /\ k \in Nat /\ j \in Int
    BY FS_CardinalityType
  <1>2. \A p \in Q : Len(p.chosen) \in Nat
    BY PointParts
  <1>3. CASE j < 0
    <2>1. OfSize(Q, j) = {}
      BY <1>2, <1>3 DEF OfSize
    <2>2. QED
      BY <2>1, FS_EmptySet
  <1>4. CASE j \in Nat
    <2> DEFINE n == (k + slots) - j
               R == Prefix(order, n) \ P
    <2>1. n \in 0..Cardinality(A) /\ k <= n /\ n - k = slots - j
      BY <1>1, <1>4
    <2>2. P \in SUBSET Prefix(order, n)
      BY <1>1, <2>1 DEF Prefix
    <2>3. /\ IsFiniteSet(Prefix(order, n)) /\ Cardinality(Prefix(order, n)) = n
          /\ IsFiniteSet(P) /\ Cardinality(P) = k /\ Prefix(order, n) \in SUBSET A /\ P \in SUBSET A
      BY <2>1, PrefixSize, PrefixGrows
    <2> HIDE DEF n, P
    <2>4. IsFiniteSet(R) /\ R \cap P = {} /\ R \in SUBSET A /\ Cardinality(R) = slots - j
      <3>1. IsFiniteSet(R) /\ Cardinality(R) = Cardinality(Prefix(order, n)) - Cardinality(Prefix(order, n) \cap P)
        BY <2>3, FS_Difference
      <3>2. Prefix(order, n) \cap P = P
        BY <2>2
      <3>3. QED
        BY <1>1, <2>1, <2>3, <3>1, <3>2
    <2> HIDE DEF R
    <2> DEFINE U == [q \in OfSize(Q, j) |-> CHOOSE U \in SUBSET P : Selects(q, U)]
               f == [q \in OfSize(Q, j) |-> U[q] \cup R]
    <2>5. ASSUME NEW q \in OfSize(Q, j)
          PROVE  U[q] \in SUBSET P /\ Selects(q, U[q]) /\ Cardinality(U[q]) = j /\ f[q] \in Full
      <3>1. U[q] \in SUBSET P /\ Selects(q, U[q])
        <4>1. q \in Q /\ \E V \in SUBSET P : Selects(q, V)
          BY DEF OfSize, SoundFor
        <4>2. QED
          BY <4>1
      <3> HIDE DEF U
      <3>2. Cardinality(U[q]) = j /\ IsFiniteSet(U[q]) /\ U[q] \in SUBSET ItemType
        BY <2>3, <3>1, FS_Subset DEF Selects, OfSize
      <3>3. U[q] \cap R = {} /\ R \in SUBSET ItemType
        BY <2>4, <3>1
      <3>4. Cardinality(U[q] \cup R) = Cardinality(U[q]) + Cardinality(R)
        BY <2>4, <3>2, <3>3, ItemsJoined
      <3>5. Cardinality(U[q] \cup R) = slots
        BY <1>1, <2>4, <3>2, <3>4
      <3>6. QED
        BY <2>3, <2>4, <3>1, <3>2, <3>5
    <2>6. f \in [OfSize(Q, j) -> Full]
      <3> HIDE DEF U, Full
      <3>1. QED
        BY <2>5
    <2>7. \A q, r \in OfSize(Q, j) : f[q] = f[r] => q = r
      <3> SUFFICES ASSUME NEW q \in OfSize(Q, j), NEW r \in OfSize(Q, j), f[q] = f[r] PROVE q = r
        OBVIOUS
      <3>1. U[q] \cup R = U[r] \cup R
        OBVIOUS
      <3> HIDE DEF U
      <3>2. U[q] = U[r]
        BY <2>4, <2>5, <3>1
      <3>3. q.total = r.total /\ Len(q.chosen) = Len(r.chosen) /\ q \in Q /\ r \in Q
        BY <2>5, <3>2 DEF Selects, OfSize
      <3>4. QED
        BY <3>3 DEF Distinct
    <2> HIDE DEF f, U
    <2>8. f \in Injection(OfSize(Q, j), Full)
      BY <2>6, <2>7 DEF Injection, IsInjective
    <2>9. IsFiniteSet(Full)
      <3>1. Full \in SUBSET SUBSET A
        OBVIOUS
      <3>2. QED
        BY <3>1, FS_SUBSET, FS_Subset
    <2>10. Cardinality(OfSize(Q, j)) <= Cardinality(Full) /\ IsFiniteSet(OfSize(Q, j))
      BY <2>8, <2>9, FS_Injection
    <2>11. Cardinality(OfSize(Q, j)) \in Nat /\ Cardinality(Full) \in Nat
      BY <2>9, <2>10, FS_CardinalityType
    <2>12. QED
      BY <2>10, <2>11
  <1>5. QED
    BY <1>1, <1>3, <1>4

(* A set of selections of slots of A, no two of one float, that has one as  *)
(* good as any choice within the budget. *)
IsFrontier(F, A, slots, budget, wide) ==
  /\ F \in SUBSET Point /\ IsFiniteSet(F) /\ Distinct(F)
  /\ \A p \in F : /\ Len(p.chosen) = slots /\ p.total <= budget
                  /\ \E U \in SUBSET A : Cardinality(U) = slots /\ Selects(p, U)
  /\ \A U \in SUBSET A : Cardinality(U) = slots /\ FloatSum(U) <= budget =>
       \E p \in F : p.total <= FloatSum(U) /\ (wide => p.cost <= CostSum(U))

LEMMA FrontierFound ==
  ASSUME NEW A \in SUBSET ItemType, IsFiniteSet(A), NEW slots \in Nat, NEW budget \in Nat,
         NEW limit \in Nat \ {0}, NEW wide,
         wide => Cardinality({V \in SUBSET A : Cardinality(V) = slots}) <= limit
  PROVE  IsFrontier(CollectionFrontier(A, slots, budget, limit), A, slots, budget, wide)
  <1> DEFINE order == InOrder(A, CheaperFirst)
             m == Cardinality(A)
             V == {Q \in SUBSET Point : IsFiniteSet(Q)}
             g == [kq \in (1..m) \X V |-> WithItem(kq[2], order[kq[1]], kq[1], slots, budget, limit)]
             Good(Q, k) == /\ Q \in SUBSET Point /\ IsFiniteSet(Q) /\ Distinct(Q)
                           /\ SoundFor(Q, Prefix(order, k), k, slots, budget)
                           /\ CompleteFor(Q, Prefix(order, k), (k + slots) - m, slots, budget, wide)
  <1>1. Lists(order, A) /\ m \in Nat
    BY CheapestListed, FS_CardinalityType
  <1>2. Len(order) = m /\ DOMAIN order = 1..m
    <2> DEFINE Nth(k) == CHOOSE x \in A : Cardinality({y \in A \ {x} : CheaperFirst(y, x)}) = k - 1
    <2>0. order = [k \in 1..m |-> Nth(k)]
      BY DEF InOrder
    <2> HIDE DEF order, m, Nth
    <2>1. DOMAIN order = 1..m /\ order = [i \in 1..m |-> order[i]]
      BY <2>0
    <2>2. QED
      BY <1>1, <2>1, LenOfInitial
  <1> HIDE DEF order, m
  <1>3. {Nothing} \in V /\ Nothing \in Point
    <2>1. Nothing \in Point
      BY DEF Nothing, Point
    <2>2. QED
      BY <2>1, FS_Singleton
  <1>4. ASSUME NEW k \in 1..m, NEW Q \in V
        PROVE  WithItem(Q, order[k], k, slots, budget, limit) \in V
    <2> DEFINE E == Extended(Q, order[k], k, slots, budget)
    <2>1. order[k] \in ItemType /\ k \in Nat
      BY <1>1 DEF Lists, m
    <2>2. IsExtension(E, Q, order[k], k, slots, budget)
      BY <2>1, ExtendedIs
    <2>3. Q \cup E \in SUBSET Point /\ IsFiniteSet(Q \cup E)
      <3>1. E \in SUBSET Point /\ IsFiniteSet(E)
        BY <2>2 DEF IsExtension
      <3> HIDE DEF E
      <3>2. QED
        BY <3>1, FS_Union
    <2>4. WithItem(Q, order[k], k, slots, budget, limit) \in SUBSET (Q \cup E)
      BY DEF WithItem, Truncated, PruneFrontier
    <2>5. QED
      BY <2>3, <2>4, FS_Subset
  <1>5. g \in [(1..m) \X V -> V]
    BY <1>4
  <1>6. PICK h \in [0..m -> V] : Recurses(h, m, {Nothing}, g)
    <2> HIDE DEF g, V
    <2>1. QED
      BY <1>1, <1>3, <1>5, RecursionExists
  <1>7. /\ h[0] = {Nothing}
        /\ \A k \in 1..m : h[k] = WithItem(h[k - 1], order[k], k, slots, budget, limit)
    <2>1. ASSUME NEW k \in 1..m
          PROVE  h[k] = WithItem(h[k - 1], order[k], k, slots, budget, limit)
      <3>1. k - 1 \in 0..m /\ <<k, h[k - 1]>> \in (1..m) \X V
        BY <1>1, <1>6
      <3>2. h[k] = g[<<k, h[k - 1]>>]
        BY <1>6 DEF Recurses
      <3>3. QED
        BY <3>1, <3>2
    <2>2. QED
      BY <1>6, <2>1 DEF Recurses
  <1> DEFINE Step(r, n) == IF n = 0 THEN {Nothing} ELSE WithItem(r[n - 1], order[n], n, slots, budget, limit)
             grown == CHOOSE r : r = [n \in 0..Len(order) |-> Step(r, n)]
  <1>8. grown = [n \in 0..m |-> Step(grown, n)]
    <2>1. h = [n \in 0..m |-> Step(h, n)]
      <3>1. h = [n \in 0..m |-> h[n]]
        BY <1>6
      <3>2. \A n \in 0..m : h[n] = Step(h, n)
        BY <1>1, <1>7
      <3> HIDE DEF Step
      <3>3. QED
        BY <3>1, <3>2
    <2> HIDE DEF Step
    <2>2. h = [n \in 0..Len(order) |-> Step(h, n)]
      BY <1>2, <2>1
    <2>3. grown = [n \in 0..Len(order) |-> Step(grown, n)]
      BY <2>2
    <2> HIDE DEF grown
    <2>4. QED
      BY <1>2, <2>3
  <1>9. CollectionFrontier(A, slots, budget, limit) = {p \in grown[m] : Len(p.chosen) = slots}
    BY <1>2 DEF CollectionFrontier, order
  <1>10. /\ grown[0] = {Nothing}
         /\ \A k \in 1..m : grown[k] = WithItem(grown[k - 1], order[k], k, slots, budget, limit)
    <2> HIDE DEF grown, Step
    <2>1. \A k \in 0..m : grown[k] = Step(grown, k)
      BY <1>8
    <2>2. 0 \in 0..m /\ \A k \in 1..m : k \in 0..m /\ k # 0
      BY <1>1
    <2>3. QED
      BY <2>1, <2>2 DEF Step
  <1> HIDE DEF grown, Step
  <1>11. Good(grown[0], 0)
    <2>1. Prefix(order, 0) = {}
      BY DEF Prefix
    <2>2. Selects(Nothing, {})
      <3>1. Len(<< >>) = 0 /\ Cardinality({}) = 0 /\ IsFiniteSet({})
        BY FS_EmptySet
      <3>2. FloatSum({}) = 0 /\ CostSum({}) = 0
        BY SumNothing DEF FloatSum, CostSum
      <3>3. Elems(<< >>) = {}
        BY DEF Elems
      <3>4. QED
        BY <3>1, <3>2, <3>3 DEF Selects, Nothing
    <2>3. Nothing.total = 0 /\ Nothing.cost = 0 /\ Nothing.rank = 0 /\ Len(Nothing.chosen) = 0
      BY DEF Nothing
    <2>4. Distinct({Nothing}) /\ SoundFor({Nothing}, {}, 0, slots, budget)
      BY <2>2, <2>3 DEF Distinct, SoundFor
    <2>5. CompleteFor({Nothing}, {}, (0 + slots) - m, slots, budget, wide)
      <3> SUFFICES ASSUME NEW U \in SUBSET {}
                   PROVE  \E p \in {Nothing} : /\ Len(p.chosen) = Cardinality(U) /\ p.total <= FloatSum(U)
                                               /\ (wide => p.cost <= CostSum(U))
        BY DEF CompleteFor
      <3>1. U = {}
        OBVIOUS
      <3>2. QED
        BY <2>2, <2>3, <3>1 DEF Selects
    <2>6. QED
      BY <1>3, <1>10, <2>1, <2>4, <2>5
  <1>12. ASSUME NEW k \in 0..m, k < m, Good(grown[k], k)
         PROVE  Good(grown[k + 1], k + 1)
    <2> DEFINE x == order[k + 1]
               P == Prefix(order, k)
               low == (k + slots) - m
    <2>1. /\ P \in SUBSET A /\ x \in A /\ x \notin P /\ Prefix(order, k + 1) = P \cup {x}
      BY <1>1, <1>12, PrefixGrows DEF m
    <2>2. P \in SUBSET ItemType /\ IsFiniteSet(P) /\ x \in ItemType
      BY <2>1, FS_Subset
    <2>3. k \in Nat /\ low \in Int /\ k + 1 \in 0..m /\ ((k + 1) + slots) - m = low + 1
      BY <1>1, <1>12
    <2>4. wide => RoomFor(P \cup {x}, k + 1, low + 1, slots, budget, limit)
      <3> SUFFICES ASSUME wide PROVE RoomFor(P \cup {x}, k + 1, low + 1, slots, budget, limit)
        OBVIOUS
      <3>1. RoomFor(Prefix(order, k + 1), k + 1, ((k + 1) + slots) - m, slots, budget, limit)
        BY <1>1, <2>3, FewOfSize DEF m
      <3> HIDE DEF P, x, low
      <3>2. QED
        BY <2>1, <2>3, <3>1
    <2>5. grown[k + 1] = WithItem(grown[k], x, k + 1, slots, budget, limit)
      <3>1. k + 1 \in 1..m /\ (k + 1) - 1 = k
        BY <1>1, <1>12
      <3>2. QED
        BY <1>10, <3>1
    <2>6. /\ grown[k] \in SUBSET Point /\ IsFiniteSet(grown[k]) /\ Distinct(grown[k])
          /\ SoundFor(grown[k], P, k, slots, budget)
          /\ CompleteFor(grown[k], P, low, slots, budget, wide)
      BY <1>12
    <2> HIDE DEF P, x, low
    <2>7. /\ grown[k + 1] \in SUBSET Point /\ IsFiniteSet(grown[k + 1]) /\ Distinct(grown[k + 1])
          /\ SoundFor(grown[k + 1], P \cup {x}, k + 1, slots, budget)
          /\ CompleteFor(grown[k + 1], P \cup {x}, low + 1, slots, budget, wide)
      BY <2>1, <2>2, <2>3, <2>4, <2>5, <2>6, Widened
    <2>8. QED
      BY <2>1, <2>3, <2>7
  <1> HIDE DEF Good
  <1>13. Good(grown[m], m)
    <2> DEFINE T == {k \in Nat : k <= m => Good(grown[k], k)}
    <2>1. 0 \in T
      BY <1>11
    <2>2. ASSUME NEW k \in T \cap Nat PROVE k + 1 \in T
      <3>1. CASE k + 1 <= m
        BY <1>1, <1>12, <3>1
      <3>2. QED
        BY <3>1
    <2> HIDE DEF T
    <2>3. m \in T
      BY <1>1, <2>1, <2>2, Induction
    <2>4. QED
      BY <1>1, <2>3 DEF T
  <1>14. Prefix(order, m) = A
    <2>1. m \in 0..m
      BY <1>1
    <2>2. QED
      BY <1>1, <2>1, PrefixGrows DEF m
  <1> DEFINE F == {p \in grown[m] : Len(p.chosen) = slots}
  <1>15. /\ grown[m] \in SUBSET Point /\ IsFiniteSet(grown[m]) /\ Distinct(grown[m])
         /\ SoundFor(grown[m], A, m, slots, budget)
         /\ CompleteFor(grown[m], A, (m + slots) - m, slots, budget, wide)
    BY <1>13, <1>14 DEF Good
  <1>16. F \in SUBSET Point /\ IsFiniteSet(F) /\ Distinct(F)
    BY <1>15, FS_Subset DEF Distinct
  <1>17. \A p \in F : /\ Len(p.chosen) = slots /\ p.total <= budget
                      /\ \E U \in SUBSET A : Cardinality(U) = slots /\ Selects(p, U)
    BY <1>15 DEF SoundFor, Selects
  <1>18. ASSUME NEW U \in SUBSET A, Cardinality(U) = slots, FloatSum(U) <= budget
         PROVE  \E p \in F : p.total <= FloatSum(U) /\ (wide => p.cost <= CostSum(U))
    <2>1. Cardinality(U) \in ((m + slots) - m)..slots
      BY <1>1, <1>18
    <2>2. QED
      BY <1>15, <1>18, <2>1 DEF CompleteFor
  <1>19. QED
    BY <1>9, <1>16, <1>17, <1>18 DEF IsFrontier

-----------------------------------------------------------------------------
(* What a shape can be filled with.                                        *)

(* Each collection has listings of its own. *)
AreStocks(items, C) ==
  /\ IsFiniteSet(C) /\ C \subseteq Nat
  /\ \A c \in C : items[c] \in SUBSET ItemType /\ IsFiniteSet(items[c])
  /\ \A c, d \in C : c # d => items[c] \cap items[d] = {}

StockOf(items, D) == UNION {items[c] : c \in D}

(* The choices with its share of each collection of D. *)
FullOf(items, counts, D) ==
  {V \in SUBSET StockOf(items, D) : \A c \in D : Cardinality(V \cap items[c]) = counts[c]}

LEMMA StockFinite ==
  ASSUME NEW items, NEW C, AreStocks(items, C), NEW D \in SUBSET C
  PROVE  StockOf(items, D) \in SUBSET ItemType /\ IsFiniteSet(StockOf(items, D))
  <1> DEFINE f == [c \in D |-> items[c]]
             Z == {f[c] : c \in D}
  <1>1. IsFiniteSet(D)
    BY FS_Subset DEF AreStocks
  <1>2. IsFiniteSet(Z)
    <2> HIDE DEF f
    <2>1. QED
      BY <1>1, ImageFinite
  <1>3. Z = {items[c] : c \in D}
    OBVIOUS
  <1>4. \A T \in Z : IsFiniteSet(T) /\ T \in SUBSET ItemType
    BY <1>3 DEF AreStocks
  <1> HIDE DEF Z
  <1>5. IsFiniteSet(UNION Z)
    BY <1>2, <1>4, FS_UNION
  <1>6. QED
    BY <1>3, <1>4, <1>5 DEF StockOf

LEMMA FullFinite ==
  ASSUME NEW items, NEW counts, NEW C, AreStocks(items, C), NEW D \in SUBSET C
  PROVE  /\ IsFiniteSet(FullOf(items, counts, D))
         /\ \A V \in FullOf(items, counts, D) : V \in SUBSET ItemType /\ IsFiniteSet(V)
  <1>1. StockOf(items, D) \in SUBSET ItemType /\ IsFiniteSet(StockOf(items, D))
    BY StockFinite
  <1>2. FullOf(items, counts, D) \in SUBSET SUBSET StockOf(items, D)
    BY DEF FullOf
  <1>3. QED
    BY <1>1, <1>2, FS_SUBSET, FS_Subset

(* A part of one choice completes another. *)
LEMMA FullMixed ==
  ASSUME NEW items, NEW counts, NEW C, AreStocks(items, C), NEW D \in SUBSET C,
         NEW V \in FullOf(items, counts, D), NEW W \in FullOf(items, counts, C)
  PROVE  V \cup (W \ StockOf(items, D)) \in FullOf(items, counts, C)
  <1> DEFINE X == V \cup (W \ StockOf(items, D))
  <1>1. V \in SUBSET StockOf(items, D) /\ W \in SUBSET StockOf(items, C)
    BY DEF FullOf
  <1>2. X \in SUBSET StockOf(items, C)
    BY <1>1 DEF StockOf
  <1>3. ASSUME NEW c \in C
        PROVE  Cardinality(X \cap items[c]) = counts[c]
    <2>1. CASE c \in D
      <3>1. X \cap items[c] = V \cap items[c]
        BY <2>1 DEF StockOf
      <3>2. QED
        BY <2>1, <3>1 DEF FullOf
    <2>2. CASE c \notin D
      <3>1. \A d \in D : items[d] \cap items[c] = {}
        BY <2>2 DEF AreStocks
      <3>2. items[c] \cap StockOf(items, D) = {}
        BY <3>1 DEF StockOf
      <3>3. X \cap items[c] = W \cap items[c]
        BY <1>1, <3>2
      <3>4. QED
        BY <3>3 DEF FullOf
    <2>3. QED
      BY <2>1, <2>2
  <1>4. QED
    BY <1>2, <1>3 DEF FullOf

(* What fills part of a shape that can be filled has no fewer completions. *)
LEMMA FewerParts ==
  ASSUME NEW items, NEW counts, NEW C, AreStocks(items, C), NEW D \in SUBSET C,
         FullOf(items, counts, C) # {}
  PROVE  Cardinality(FullOf(items, counts, D)) <= Cardinality(FullOf(items, counts, C))
  <1>1. PICK W \in FullOf(items, counts, C) : TRUE
    OBVIOUS
  <1> DEFINE R == W \ StockOf(items, D)
             f == [V \in FullOf(items, counts, D) |-> V \cup R]
  <1>2. \A V \in FullOf(items, counts, D) : V \cup R \in FullOf(items, counts, C) /\ V \cap R = {}
    <2>1. \A V \in FullOf(items, counts, D) : V \cap R = {}
      BY DEF FullOf
    <2>2. QED
      BY <2>1, FullMixed
  <1> HIDE DEF R
  <1>3. f \in Injection(FullOf(items, counts, D), FullOf(items, counts, C))
    <2>1. f \in [FullOf(items, counts, D) -> FullOf(items, counts, C)]
      BY <1>2
    <2>2. ASSUME NEW V \in FullOf(items, counts, D), NEW X \in FullOf(items, counts, D), f[V] = f[X]
          PROVE  V = X
      <3>1. V \cup R = X \cup R
        BY <2>2
      <3>2. V \cap R = {} /\ X \cap R = {}
        BY <1>2
      <3> HIDE DEF f
      <3>3. V \subseteq X /\ X \subseteq V
        BY <3>1, <3>2
      <3>4. QED
        BY <3>3
    <2> HIDE DEF f
    <2>3. QED
      BY <2>1, <2>2 DEF Injection, IsInjective
  <1> HIDE DEF f
  <1>4. C \in SUBSET C
    OBVIOUS
  <1>5. IsFiniteSet(FullOf(items, counts, C))
    BY <1>4, FullFinite
  <1>6. QED
    BY <1>3, <1>5, FS_Injection

(* The choices from one collection more. *)
Splits(items, counts, D, d) ==
  /\ \A V \in FullOf(items, counts, D), U \in SUBSET items[d] : Cardinality(U) = counts[d] =>
       V \cap U = {} /\ V \cup U \in FullOf(items, counts, D \cup {d})
  /\ \A V \in FullOf(items, counts, D \cup {d}) :
       /\ V \ items[d] \in FullOf(items, counts, D)
       /\ V \cap items[d] \in SUBSET items[d] /\ Cardinality(V \cap items[d]) = counts[d]

LEMMA FullSplits ==
  ASSUME NEW items, NEW counts, NEW C, AreStocks(items, C), NEW D \in SUBSET C, NEW d \in C \ D
  PROVE  Splits(items, counts, D, d)
  <1>1. \A c \in D : items[c] \cap items[d] = {}
    BY DEF AreStocks
  <1>2. StockOf(items, D) \cap items[d] = {} /\ StockOf(items, D \cup {d}) = StockOf(items, D) \cup items[d]
    BY <1>1 DEF StockOf
  <1>3. ASSUME NEW V \in FullOf(items, counts, D), NEW U \in SUBSET items[d], Cardinality(U) = counts[d]
        PROVE  V \cap U = {} /\ V \cup U \in FullOf(items, counts, D \cup {d})
    <2>1. V \in SUBSET StockOf(items, D)
      BY DEF FullOf
    <2>2. V \cap U = {} /\ V \cup U \in SUBSET StockOf(items, D \cup {d})
      BY <1>2, <2>1
    <2>3. (V \cup U) \cap items[d] = U
      BY <1>2, <2>1
    <2>4. ASSUME NEW c \in D PROVE Cardinality((V \cup U) \cap items[c]) = counts[c]
      <3>1. (V \cup U) \cap items[c] = V \cap items[c]
        BY <1>1
      <3>2. QED
        BY <3>1 DEF FullOf
    <2>5. \A c \in D \cup {d} : Cardinality((V \cup U) \cap items[c]) = counts[c]
      BY <1>3, <2>3, <2>4
    <2>6. QED
      BY <2>2, <2>5 DEF FullOf
  <1>4. ASSUME NEW V \in FullOf(items, counts, D \cup {d})
        PROVE  /\ V \ items[d] \in FullOf(items, counts, D)
               /\ V \cap items[d] \in SUBSET items[d] /\ Cardinality(V \cap items[d]) = counts[d]
    <2>1. V \in SUBSET StockOf(items, D \cup {d})
      BY DEF FullOf
    <2>2. V \ items[d] \in SUBSET StockOf(items, D)
      BY <1>2, <2>1
    <2>3. ASSUME NEW c \in D PROVE Cardinality((V \ items[d]) \cap items[c]) = counts[c]
      <3>1. (V \ items[d]) \cap items[c] = V \cap items[c]
        BY <1>1
      <3>2. QED
        BY <3>1 DEF FullOf
    <2>4. Cardinality(V \cap items[d]) = counts[d]
      BY DEF FullOf
    <2>5. QED
      BY <2>2, <2>3, <2>4 DEF FullOf
  <1>5. QED
    BY <1>3, <1>4 DEF Splits

-----------------------------------------------------------------------------
(* Frontiers folded together.                                              *)

(* Q is what the points of F and G become when they are joined. *)
IsJoin(Q, F, G, budget) ==
  /\ Q \in SUBSET Point /\ IsFiniteSet(Q)
  /\ \A p \in Q : p.total <= budget /\ \E a \in F, b \in G : p = Joined(a, b)
  /\ \A a \in F, b \in G : a.total + b.total <= budget => Joined(a, b) \in Q

LEMMA JoinedParts ==
  ASSUME NEW a \in Point, NEW b \in Point
  PROVE  /\ Joined(a, b) \in Point
         /\ Joined(a, b).total = a.total + b.total /\ Joined(a, b).cost = a.cost + b.cost
         /\ Joined(a, b).rank = a.total
         /\ Len(Joined(a, b).chosen) = Len(a.chosen) + Len(b.chosen)
         /\ Elems(Joined(a, b).chosen) = Elems(a.chosen) \cup Elems(b.chosen)
  <1>1. /\ a.total \in Nat /\ a.cost \in Nat /\ a.chosen \in Seq(Nat)
        /\ b.total \in Nat /\ b.cost \in Nat /\ b.chosen \in Seq(Nat)
    BY PointParts
  <1>2. /\ a.chosen \o b.chosen \in Seq(Nat) /\ Len(a.chosen \o b.chosen) = Len(a.chosen) + Len(b.chosen)
        /\ Elems(a.chosen \o b.chosen) = Elems(a.chosen) \cup Elems(b.chosen)
    BY <1>1, ElemsJoined
  <1>3. a.total + b.total \in Nat /\ a.cost + b.cost \in Nat
    BY <1>1
  <1>4. QED
    BY <1>1, <1>2, <1>3 DEF Joined, Point

LEMMA JoinIs ==
  ASSUME NEW F \in SUBSET Point, IsFiniteSet(F), NEW G \in SUBSET Point, IsFiniteSet(G), NEW budget
  PROVE  IsJoin({p \in {Joined(a, b) : a \in F, b \in G} : p.total <= budget}, F, G, budget)
  <1> DEFINE J == {Joined(a, b) : a \in F, b \in G}
             f == [w \in F \X G |-> Joined(w[1], w[2])]
             Q == {p \in J : p.total <= budget}
  <1>1. \A a \in F, b \in G : Joined(a, b) \in Point /\ Joined(a, b).total = a.total + b.total
    BY JoinedParts
  <1>2. J \in SUBSET Point
    BY <1>1
  <1>3. IsFiniteSet(J)
    <2>1. IsFiniteSet(F \X G)
      BY FS_Product
    <2>2. J = {f[w] : w \in F \X G}
      <3>1. \A w \in F \X G : f[w] = Joined(w[1], w[2]) /\ w[1] \in F /\ w[2] \in G
        OBVIOUS
      <3>2. \A a \in F, b \in G : <<a, b>> \in F \X G /\ f[<<a, b>>] = Joined(a, b)
        OBVIOUS
      <3> HIDE DEF f
      <3>3. ASSUME NEW j \in J PROVE j \in {f[w] : w \in F \X G}
        <4>1. PICK a \in F, b \in G : j = Joined(a, b)
          OBVIOUS
        <4>2. <<a, b>> \in F \X G /\ f[<<a, b>>] = j
          BY <3>2, <4>1
        <4>3. QED
          BY <4>2
      <3>4. {f[w] : w \in F \X G} \subseteq J
        BY <3>1
      <3>5. QED
        BY <3>3, <3>4
    <2> HIDE DEF f, J
    <2>3. IsFiniteSet({f[w] : w \in F \X G})
      BY <2>1, ImageFinite
    <2>4. QED
      BY <2>2, <2>3
  <1>4. \A p \in Q : p.total <= budget /\ \E a \in F, b \in G : p = Joined(a, b)
    OBVIOUS
  <1>5. \A a \in F, b \in G : a.total + b.total <= budget => Joined(a, b) \in Q
    BY <1>1
  <1> HIDE DEF J
  <1>6. Q \in SUBSET Point /\ IsFiniteSet(Q)
    BY <1>2, <1>3, FS_Subset
  <1>7. QED
    BY <1>4, <1>5, <1>6 DEF IsJoin, J

(* What the frontiers of the collections D, folded together, promise. *)
IsCombined(F, items, counts, D, budget, wide) ==
  /\ F \in SUBSET Point /\ IsFiniteSet(F) /\ Distinct(F)
  /\ \A p \in F : /\ Len(p.chosen) = SumOver(D, counts) /\ p.total <= budget
                  /\ \E V \in FullOf(items, counts, D) : Selects(p, V)
  /\ \A V \in FullOf(items, counts, D) : FloatSum(V) <= budget =>
       \E p \in F : p.total <= FloatSum(V) /\ (wide => p.cost <= CostSum(V))

(* Points that stand for choices of a kind are no more than the choices. *)
LEMMA FewPoints ==
  ASSUME NEW Q, NEW T, IsFiniteSet(T), Distinct(Q), \A p \in Q : \E V \in T : Selects(p, V)
  PROVE  IsFiniteSet(Q) /\ Cardinality(Q) <= Cardinality(T)
  <1> DEFINE f == [p \in Q |-> CHOOSE V \in T : Selects(p, V)]
  <1>1. \A p \in Q : f[p] \in T /\ Selects(p, f[p])
    OBVIOUS
  <1>2. f \in [Q -> T]
    BY <1>1
  <1> HIDE DEF f
  <1>3. \A p, q \in Q : f[p] = f[q] => p = q
    BY <1>1 DEF Selects, Distinct
  <1>4. f \in Injection(Q, T)
    BY <1>2, <1>3 DEF Injection, IsInjective
  <1>5. QED
    BY <1>4, FS_Injection

(* A shape to fill from stocks within a budget, and whether the limit has   *)
(* room for every way to fill it. *)
IsTask(items, counts, C, budget, limit, wide) ==
  /\ AreStocks(items, C) /\ counts \in [C -> Nat] /\ budget \in Nat /\ limit \in Nat \ {0}
  /\ wide \in BOOLEAN
  /\ wide => FullOf(items, counts, C) # {} /\ Cardinality(FullOf(items, counts, C)) <= limit

LEMMA Merged ==
  ASSUME NEW items, NEW counts, NEW C, NEW budget, NEW limit, NEW wide,
         IsTask(items, counts, C, budget, limit, wide),
         NEW D \in SUBSET C, NEW d \in C \ D,
         NEW F, IsCombined(F, items, counts, D, budget, wide),
         NEW G, IsFrontier(G, PruneDominated(items[d], counts[d]), counts[d], budget, wide),
         NEW Z, Z = Truncated(MergeFrontier(F, G, budget), limit), NEW DD, DD = D \cup {d}
  PROVE  IsCombined(Z, items, counts, DD, budget, wide)
  <1>0. /\ AreStocks(items, C) /\ counts \in [C -> Nat] /\ budget \in Nat /\ limit \in Nat \ {0}
        /\ wide \in BOOLEAN
        /\ wide => FullOf(items, counts, C) # {} /\ Cardinality(FullOf(items, counts, C)) <= limit
    BY DEF IsTask
  <1>s. Splits(items, counts, D, d)
    BY <1>0, FullSplits
  <1> DEFINE Q == {p \in {Joined(a, b) : a \in F, b \in G} : p.total <= budget}
             R == PruneFrontier(Q)
             kept == PruneDominated(items[d], counts[d])
  <1>1. /\ F \in SUBSET Point /\ IsFiniteSet(F) /\ Distinct(F)
        /\ G \in SUBSET Point /\ IsFiniteSet(G) /\ Distinct(G)
    BY DEF IsCombined, IsFrontier
  <1>2. IsJoin(Q, F, G, budget)
    BY <1>1, JoinIs
  <1>3. Z = Truncated(R, limit)
    BY DEF MergeFrontier
  <1>4. /\ counts[d] \in Nat /\ items[d] \in SUBSET ItemType /\ IsFiniteSet(items[d])
        /\ kept \in SUBSET items[d]
    BY <1>0 DEF AreStocks, PruneDominated
  <1>5. SumOver(DD, counts) = SumOver(D, counts) + counts[d] /\ SumOver(D, counts) \in Int
    <2>1. IsFiniteSet(D)
      BY <1>0, FS_Subset DEF AreStocks
    <2>2. d \notin D /\ \A y \in D \cup {d} : counts[y] \in Int
      BY <1>0
    <2>3. SumOver(D, counts) \in Int /\ SumOver(D \cup {d}, counts) = SumOver(D, counts) + counts[d]
      BY <2>1, <2>2, SumMore
    <2>4. QED
      BY <2>3
  <1> HIDE DEF Q, kept
  <1>6. ASSUME NEW p \in Q
        PROVE  \E a \in F, b \in G :
                 /\ p = Joined(a, b) /\ p.rank = a.total /\ p.total = a.total + b.total
                 /\ Len(a.chosen) = SumOver(D, counts) /\ Len(b.chosen) = counts[d]
                 /\ Len(p.chosen) = SumOver(DD, counts)
    <2>1. PICK a \in F, b \in G : p = Joined(a, b)
      BY <1>2 DEF IsJoin
    <2>2. Len(a.chosen) = SumOver(D, counts) /\ Len(b.chosen) = counts[d]
      BY DEF IsCombined, IsFrontier
    <2>3. /\ p.total = a.total + b.total /\ p.rank = a.total
          /\ Len(p.chosen) = Len(a.chosen) + Len(b.chosen)
      BY <1>1, <2>1, JoinedParts
    <2>4. QED
      BY <1>5, <2>1, <2>2, <2>3
  <1>7. Sharp(Q)
    <2> SUFFICES ASSUME NEW p \in Q, NEW q \in Q, p.total = q.total, p.rank = q.rank PROVE p = q
      BY DEF Sharp
    <2>1. PICK a \in F, b \in G :
            /\ p = Joined(a, b) /\ p.rank = a.total /\ p.total = a.total + b.total
            /\ Len(a.chosen) = SumOver(D, counts) /\ Len(b.chosen) = counts[d]
      BY <1>6
    <2>2. PICK u \in F, v \in G :
            /\ q = Joined(u, v) /\ q.rank = u.total /\ q.total = u.total + v.total
            /\ Len(u.chosen) = SumOver(D, counts) /\ Len(v.chosen) = counts[d]
      BY <1>6
    <2>3. a.total \in Nat /\ b.total \in Nat /\ u.total \in Nat /\ v.total \in Nat
      BY <1>1, PointParts
    <2>4. a.total = u.total /\ b.total = v.total
      BY <2>1, <2>2, <2>3
    <2>5. a = u /\ b = v
      BY <1>1, <2>1, <2>2, <2>4 DEF Distinct
    <2>6. QED
      BY <2>1, <2>2, <2>5
  <1>8. Q \in SUBSET Point /\ IsFiniteSet(Q)
    BY <1>2 DEF IsJoin
  <1>9. R \in SUBSET Q /\ Z \in SUBSET R
    BY <1>3 DEF PruneFrontier, Truncated
  <1>10. Distinct(R)
    BY <1>7, <1>8, PrunedDistinct
  <1>11. ASSUME NEW p \in Q
         PROVE  \E V \in FullOf(items, counts, DD) : Selects(p, V)
    <2>1. PICK a \in F, b \in G : p = Joined(a, b)
      BY <1>6
    <2>2. PICK V \in FullOf(items, counts, D) : Selects(a, V)
      BY DEF IsCombined
    <2>3. PICK U \in SUBSET kept : Cardinality(U) = counts[d] /\ Selects(b, U)
      BY DEF IsFrontier, kept
    <2>4. V \cap U = {} /\ V \cup U \in FullOf(items, counts, DD)
      <3>1. U \in SUBSET items[d]
        BY <1>4
      <3>2. V \cap U = {} /\ V \cup U \in FullOf(items, counts, D \cup {d})
        BY <1>s, <2>3, <3>1 DEF Splits
      <3>3. QED
        BY <3>2
    <2>5. V \in SUBSET ItemType /\ IsFiniteSet(V) /\ U \in SUBSET ItemType /\ IsFiniteSet(U)
      <3>1. IsFiniteSet(U)
        BY <1>4, FS_Subset
      <3>2. QED
        BY <1>0, <1>4, <3>1, FullFinite
    <2>6. /\ Cardinality(V \cup U) = Cardinality(V) + Cardinality(U)
          /\ FloatSum(V \cup U) = FloatSum(V) + FloatSum(U)
          /\ CostSum(V \cup U) = CostSum(V) + CostSum(U)
      BY <2>4, <2>5, ItemsJoined
    <2>7. /\ p.total = a.total + b.total /\ p.cost = a.cost + b.cost
          /\ Len(p.chosen) = Len(a.chosen) + Len(b.chosen)
          /\ Elems(p.chosen) = Elems(a.chosen) \cup Elems(b.chosen)
      BY <1>1, <2>1, JoinedParts
    <2>8. {u.id : u \in V \cup U} = {u.id : u \in V} \cup {u.id : u \in U}
      OBVIOUS
    <2>9. Selects(p, V \cup U)
      BY <2>2, <2>3, <2>6, <2>7, <2>8 DEF Selects
    <2>10. QED
      BY <2>4, <2>9
  <1>12. wide => Cardinality(R) <= limit /\ IsFiniteSet(R)
    <2> SUFFICES ASSUME wide PROVE Cardinality(R) <= limit /\ IsFiniteSet(R)
      OBVIOUS
    <2>1. DD \in SUBSET C /\ C \in SUBSET C
      OBVIOUS
    <2>2. IsFiniteSet(FullOf(items, counts, DD)) /\ IsFiniteSet(FullOf(items, counts, C))
      BY <1>0, <2>1, FullFinite
    <2>3. IsFiniteSet(R) /\ Cardinality(R) <= Cardinality(FullOf(items, counts, DD))
      BY <1>9, <1>10, <1>11, <2>2, FewPoints
    <2>4. Cardinality(FullOf(items, counts, DD)) <= Cardinality(FullOf(items, counts, C))
      BY <1>0, <2>1, FewerParts
    <2>5. QED
      BY <1>0, <2>2, <2>3, <2>4, FS_CardinalityType
  <1>13. ASSUME NEW V \in FullOf(items, counts, DD), FloatSum(V) <= budget
         PROVE  \E p \in Z : p.total <= FloatSum(V) /\ (wide => p.cost <= CostSum(V))
    <2> DEFINE X == V \ items[d]
               U == V \cap items[d]
    <2>1. X \in FullOf(items, counts, D) /\ U \in SUBSET items[d] /\ Cardinality(U) = counts[d]
      <3>1. V \in FullOf(items, counts, D \cup {d})
        OBVIOUS
      <3>2. QED
        BY <1>s, <3>1 DEF Splits
    <2>2. X \in SUBSET ItemType /\ IsFiniteSet(X) /\ U \in SUBSET ItemType /\ IsFiniteSet(U)
      <3>1. IsFiniteSet(U)
        BY <1>4, FS_Subset
      <3> HIDE DEF X, U
      <3>2. QED
        BY <1>0, <1>4, <2>1, <3>1, FullFinite
    <2>3. X \cap U = {} /\ V = X \cup U
      OBVIOUS
    <2> HIDE DEF X, U
    <2>4. /\ FloatSum(V) = FloatSum(X) + FloatSum(U) /\ CostSum(V) = CostSum(X) + CostSum(U)
          /\ FloatSum(X) \in Nat /\ FloatSum(U) \in Nat /\ CostSum(X) \in Nat /\ CostSum(U) \in Nat
      BY <2>2, <2>3, ItemsJoined, ItemSums
    <2>5. PICK W \in SUBSET kept :
            Cardinality(W) = counts[d] /\ FloatSum(W) <= FloatSum(U) /\ CostSum(W) <= CostSum(U)
      BY <1>4, <2>1, PrunedSuffices DEF kept
    <2>6. W \in SUBSET items[d] /\ FloatSum(W) \in Nat /\ CostSum(W) \in Nat
      BY <1>4, <2>5, ItemSums
    <2>7. FloatSum(X) <= budget /\ FloatSum(W) <= budget
      BY <1>0, <1>13, <2>4, <2>5, <2>6
    <2>8. PICK a \in F : a.total <= FloatSum(X) /\ (wide => a.cost <= CostSum(X))
      BY <2>1, <2>7 DEF IsCombined
    <2>9. PICK b \in G : b.total <= FloatSum(W) /\ (wide => b.cost <= CostSum(W))
      BY <2>5, <2>7 DEF IsFrontier, kept
    <2>10. a.total \in Nat /\ a.cost \in Nat /\ b.total \in Nat /\ b.cost \in Nat
      BY <1>1, PointParts
    <2>11. a.total + b.total <= FloatSum(V)
      <3>1. a.total <= FloatSum(X) /\ b.total <= FloatSum(W) /\ FloatSum(W) <= FloatSum(U)
        BY <2>5, <2>8, <2>9
      <3>2. QED
        BY <2>4, <2>6, <2>10, <3>1
    <2>12. wide => a.cost + b.cost <= CostSum(V)
      <3> SUFFICES ASSUME wide PROVE a.cost + b.cost <= CostSum(V)
        OBVIOUS
      <3>1. a.cost <= CostSum(X) /\ b.cost <= CostSum(W) /\ CostSum(W) <= CostSum(U)
        BY <2>5, <2>8, <2>9
      <3>2. QED
        BY <2>4, <2>6, <2>10, <3>1
    <2> DEFINE p == Joined(a, b)
    <2>13. a.total + b.total <= budget
      BY <1>0, <1>13, <2>4, <2>10, <2>11
    <2>14. /\ p \in Q /\ p.total = a.total + b.total /\ p.cost = a.cost + b.cost
           /\ p.total \in Nat /\ p.cost \in Nat
      <3>1. p \in Q
        BY <1>2, <2>13 DEF IsJoin
      <3>2. p.total = a.total + b.total /\ p.cost = a.cost + b.cost
        BY <1>1, JoinedParts
      <3> HIDE DEF p
      <3>3. QED
        BY <2>10, <3>1, <3>2
    <2> HIDE DEF p
    <2>15. PICK q \in R : Len(q.chosen) = Len(p.chosen) /\ q.total <= p.total /\ q.cost <= p.cost
      BY <1>8, <2>14, PrunedCovers
    <2>16. q \in Point /\ q.total \in Nat /\ q.cost \in Nat
      BY <1>8, <1>9, PointParts
    <2>17. CASE wide
      <3>1. Cardinality(OfSize(R, Len(q.chosen))) <= limit
        <4>1. OfSize(R, Len(q.chosen)) \in SUBSET R
          BY DEF OfSize
        <4>2. Cardinality(OfSize(R, Len(q.chosen))) <= Cardinality(R)
          BY <1>12, <2>17, <4>1, FS_Subset
        <4>3. IsFiniteSet(OfSize(R, Len(q.chosen)))
          BY <1>12, <2>17, <4>1, FS_Subset
        <4>4. QED
          BY <1>0, <1>12, <2>17, <4>2, <4>3, FS_CardinalityType
      <3>2. R \in SUBSET Point
        BY <1>8, <1>9
      <3>3. q \in Z
        BY <1>0, <1>3, <1>12, <2>17, <3>1, <3>2, TruncatedKeeps
      <3>4. q.total <= FloatSum(V)
        BY <2>4, <2>11, <2>14, <2>15, <2>16
      <3>5. q.cost <= CostSum(V)
        BY <2>4, <2>12, <2>14, <2>15, <2>16, <2>17
      <3>6. QED
        BY <3>3, <3>4, <3>5
    <2>18. CASE ~wide
      <3>1. R \in SUBSET Point
        BY <1>8, <1>9
      <3>2. PICK r \in Z : r.total <= q.total
        BY <1>0, <1>3, <3>1, TruncatedLeast
      <3>3. r.total \in Nat
        BY <1>8, <1>9, PointParts
      <3>4. r.total <= FloatSum(V)
        BY <2>4, <2>11, <2>14, <2>15, <2>16, <3>2, <3>3
      <3>5. QED
        BY <2>18, <3>4
    <2>19. QED
      BY <2>17, <2>18
  <1>14. Z \in SUBSET Point /\ IsFiniteSet(Z) /\ Distinct(Z)
    <2>1. Z \in SUBSET Q
      BY <1>9
    <2>2. QED
      BY <1>8, <1>9, <1>10, <2>1, FS_Subset DEF Distinct
  <1>15. \A p \in Z : /\ Len(p.chosen) = SumOver(DD, counts) /\ p.total <= budget
                      /\ \E V \in FullOf(items, counts, DD) : Selects(p, V)
    <2> SUFFICES ASSUME NEW p \in Z
                 PROVE  /\ Len(p.chosen) = SumOver(DD, counts) /\ p.total <= budget
                        /\ \E V \in FullOf(items, counts, DD) : Selects(p, V)
      OBVIOUS
    <2>1. p \in Q
      BY <1>9
    <2>2. QED
      BY <1>2, <1>6, <1>11, <2>1 DEF IsJoin
  <1>16. QED
    BY <1>13, <1>14, <1>15 DEF IsCombined

(* What Solve promises of the choices for a shape: a point is one of them,  *)
(* within the budget; while one fits the budget there is a point, and with  *)
(* room for all of them it costs no more. *)
IsSolution(found, items, counts, C, average, limit) ==
  /\ \A p \in found : /\ p \in Point /\ Len(p.chosen) = Slots(counts)
                      /\ p.total <= average * Slots(counts)
                      /\ \E V \in FullOf(items, counts, C) : Selects(p, V)
  /\ \A V \in FullOf(items, counts, C) : FloatSum(V) <= average * Slots(counts) =>
       \E p \in found : Cardinality(FullOf(items, counts, C)) <= limit => p.cost <= CostSum(V)
  /\ \A p, q \in found : p.cost <= q.cost

LEMMA SolveIs ==
  ASSUME NEW items, NEW C, AreStocks(items, C), NEW counts \in [C -> Nat], NEW average \in Nat,
         NEW limit \in Nat \ {0}
  PROVE  IsSolution(Solve(counts, items, average, limit), items, counts, C, average, limit)
  <1> DEFINE budget == average * Slots(counts)
             Frontier(c) == CollectionFrontier(PruneDominated(items[c], counts[c]), counts[c], budget, limit)
             order == InOrder(DOMAIN counts, LAMBDA c, d : c < d)
             m == Cardinality(C)
             wide == FullOf(items, counts, C) # {} /\ Cardinality(FullOf(items, counts, C)) <= limit
             V == {Q \in SUBSET Point : IsFiniteSet(Q)}
             Fold(Q, k) == Truncated(MergeFrontier(Q, Frontier(order[k]), budget), limit)
             g == [kq \in (1..m) \X V |-> Fold(kq[2], kq[1])]
             Good(Q, k) == IsCombined(Q, items, counts, Prefix(order, k), budget, wide)
  <1>1. IsFiniteSet(C) /\ C \in SUBSET Int /\ DOMAIN counts = C /\ m \in Nat
    BY FS_CardinalityType DEF AreStocks
  <1>2. Lists(order, C)
    BY <1>1, NumbersListed
  <1>3. Len(order) = m /\ DOMAIN order = 1..m
    <2> DEFINE Nth(k) == CHOOSE x \in DOMAIN counts : Cardinality({y \in DOMAIN counts \ {x} : y < x}) = k - 1
    <2>0. order = [k \in 1..m |-> Nth(k)]
      BY <1>1 DEF InOrder
    <2> HIDE DEF order, m, Nth
    <2>1. DOMAIN order = 1..m /\ order = [i \in 1..m |-> order[i]]
      BY <2>0
    <2>2. QED
      BY <1>1, <2>1, LenOfInitial
  <1>4. budget \in Nat /\ Slots(counts) \in Nat
    <2>1. Slots(counts) \in Nat
      BY <1>1, SumNat DEF Slots
    <2>2. QED
      BY <2>1, Product
  <1> HIDE DEF order, m, budget
  <1>5. wide \in BOOLEAN
    OBVIOUS
  <1>6. ASSUME NEW c \in C
        PROVE  IsFrontier(Frontier(c), PruneDominated(items[c], counts[c]), counts[c], budget, wide)
    <2> DEFINE A == PruneDominated(items[c], counts[c])
               T == {U \in SUBSET A : Cardinality(U) = counts[c]}
    <2>1. /\ items[c] \in SUBSET ItemType /\ IsFiniteSet(items[c]) /\ A \in SUBSET items[c]
          /\ counts[c] \in Nat
      BY DEF AreStocks, PruneDominated
    <2>2. A \in SUBSET ItemType /\ IsFiniteSet(A)
      BY <2>1, FS_Subset
    <2>3. wide => Cardinality(T) <= limit
      <3> SUFFICES ASSUME wide PROVE Cardinality(T) <= limit
        OBVIOUS
      <3>1. {c} \in SUBSET C /\ C \in SUBSET C
        OBVIOUS
      <3>2. StockOf(items, {c}) = items[c]
        BY DEF StockOf
      <3>3. T \in SUBSET FullOf(items, counts, {c})
        <4> SUFFICES ASSUME NEW U \in T PROVE U \in FullOf(items, counts, {c})
          OBVIOUS
        <4>1. U \in SUBSET items[c] /\ Cardinality(U) = counts[c]
          BY <2>1
        <4>2. U \cap items[c] = U
          BY <4>1
        <4>3. QED
          BY <3>2, <4>1, <4>2 DEF FullOf
      <3> HIDE DEF T
      <3>4. IsFiniteSet(FullOf(items, counts, {c})) /\ IsFiniteSet(FullOf(items, counts, C))
        BY <3>1, FullFinite
      <3>5. IsFiniteSet(T) /\ Cardinality(T) <= Cardinality(FullOf(items, counts, {c}))
        BY <3>3, <3>4, FS_Subset
      <3>6. Cardinality(FullOf(items, counts, {c})) <= Cardinality(FullOf(items, counts, C))
        BY <3>1, FewerParts
      <3>7. QED
        BY <3>4, <3>5, <3>6, FS_CardinalityType
    <2> HIDE DEF wide
    <2>4. QED
      BY <1>4, <2>1, <2>2, <2>3, FrontierFound
  <1> HIDE DEF Frontier, wide
  <1>7. {Nothing} \in V /\ Nothing \in Point
    <2>1. Nothing \in Point
      BY DEF Nothing, Point
    <2>2. QED
      BY <2>1, FS_Singleton
  <1>8. ASSUME NEW k \in 1..m, NEW Q \in V
        PROVE  Fold(Q, k) \in V
    <2> DEFINE G == Frontier(order[k])
               J == {p \in {Joined(a, b) : a \in Q, b \in G} : p.total <= budget}
    <2>1. order[k] \in C
      BY <1>2 DEF Lists, m
    <2>2. G \in SUBSET Point /\ IsFiniteSet(G)
      BY <1>6, <2>1 DEF IsFrontier
    <2>3. IsJoin(J, Q, G, budget)
      <3> HIDE DEF G
      <3>1. QED
        BY <2>2, JoinIs
    <2>4. J \in SUBSET Point /\ IsFiniteSet(J)
      BY <2>3 DEF IsJoin
    <2>5. Fold(Q, k) \in SUBSET J
      BY DEF MergeFrontier, PruneFrontier, Truncated
    <2>6. QED
      BY <2>4, <2>5, FS_Subset
  <1> HIDE DEF Fold
  <1>9. g \in [(1..m) \X V -> V]
    BY <1>8
  <1>10. PICK h \in [0..m -> V] : Recurses(h, m, {Nothing}, g)
    <2> HIDE DEF g, V
    <2>1. QED
      BY <1>1, <1>7, <1>9, RecursionExists
  <1>11. h[0] = {Nothing} /\ \A k \in 1..m : h[k] = Fold(h[k - 1], k)
    <2>1. ASSUME NEW k \in 1..m
          PROVE  h[k] = Fold(h[k - 1], k)
      <3>1. k - 1 \in 0..m /\ <<k, h[k - 1]>> \in (1..m) \X V
        BY <1>1, <1>10
      <3>2. h[k] = g[<<k, h[k - 1]>>]
        BY <1>10 DEF Recurses
      <3>3. QED
        BY <3>1, <3>2
    <2>2. QED
      BY <1>10, <2>1 DEF Recurses
  <1> DEFINE Step(r, n) == IF n = 0 THEN {Nothing} ELSE Fold(r[n - 1], n)
             combined == CHOOSE r : r = [n \in 0..Len(order) |-> Step(r, n)]
  <1>12. combined = [n \in 0..m |-> Step(combined, n)]
    <2>1. h = [n \in 0..m |-> Step(h, n)]
      <3>1. h = [n \in 0..m |-> h[n]]
        BY <1>10
      <3>2. \A n \in 0..m : h[n] = Step(h, n)
        BY <1>1, <1>11
      <3> HIDE DEF Step
      <3>3. QED
        BY <3>1, <3>2
    <2> HIDE DEF Step
    <2>2. h = [n \in 0..Len(order) |-> Step(h, n)]
      BY <1>3, <2>1
    <2>3. combined = [n \in 0..Len(order) |-> Step(combined, n)]
      BY <2>2
    <2> HIDE DEF combined
    <2>4. QED
      BY <1>3, <2>3
  <1>13. Solve(counts, items, average, limit) = {p \in combined[m] : \A q \in combined[m] : p.cost <= q.cost}
    BY <1>3 DEF Solve, order, Fold, Frontier, budget
  <1>14. combined[0] = {Nothing} /\ \A k \in 1..m : combined[k] = Fold(combined[k - 1], k)
    <2> HIDE DEF combined, Step
    <2>1. \A k \in 0..m : combined[k] = Step(combined, k)
      BY <1>12
    <2>2. 0 \in 0..m /\ \A k \in 1..m : k \in 0..m /\ k # 0
      BY <1>1
    <2>3. QED
      BY <2>1, <2>2 DEF Step
  <1> HIDE DEF combined, Step
  <1>15. Good(combined[0], 0)
    <2>1. Prefix(order, 0) = {} /\ FullOf(items, counts, {}) = {{}}
      <3>1. StockOf(items, {}) = {}
        BY DEF StockOf
      <3>2. QED
        BY <3>1 DEF Prefix, FullOf
    <2>2. Selects(Nothing, {})
      <3>1. Len(<< >>) = 0 /\ Cardinality({}) = 0 /\ IsFiniteSet({})
        BY FS_EmptySet
      <3>2. FloatSum({}) = 0 /\ CostSum({}) = 0
        BY SumNothing DEF FloatSum, CostSum
      <3>3. Elems(<< >>) = {}
        BY DEF Elems
      <3>4. QED
        BY <3>1, <3>2, <3>3 DEF Selects, Nothing
    <2>3. Nothing.total = 0 /\ Nothing.cost = 0 /\ Len(Nothing.chosen) = 0 /\ SumOver({}, counts) = 0
      BY SumNothing DEF Nothing
    <2>4. FloatSum({}) = 0 /\ CostSum({}) = 0
      BY <2>2, <2>3 DEF Selects
    <2>5. Distinct({Nothing})
      BY DEF Distinct
    <2>6. IsFiniteSet({Nothing}) /\ {Nothing} \in SUBSET Point
      BY <1>7
    <2>7. \A p \in {Nothing} : /\ Len(p.chosen) = SumOver({}, counts) /\ p.total <= budget
                              /\ \E U \in {{}} : Selects(p, U)
      BY <1>4, <2>2, <2>3
    <2>8. \A U \in {{}} : FloatSum(U) <= budget =>
            \E p \in {Nothing} : p.total <= FloatSum(U) /\ (wide => p.cost <= CostSum(U))
      <3>1. Nothing.total <= FloatSum({}) /\ Nothing.cost <= CostSum({})
        BY <2>3, <2>4
      <3>2. QED
        BY <3>1
    <2>9. IsCombined({Nothing}, items, counts, {}, budget, wide)
      BY <2>1, <2>5, <2>6, <2>7, <2>8 DEF IsCombined
    <2>10. QED
      BY <1>14, <2>1, <2>9
  <1>16. ASSUME NEW k \in 0..m, k < m, Good(combined[k], k)
         PROVE  Good(combined[k + 1], k + 1)
    <2> DEFINE d == order[k + 1]
               D == Prefix(order, k)
    <2>1. D \in SUBSET C /\ d \in C /\ d \notin D /\ Prefix(order, k + 1) = D \cup {d}
      BY <1>1, <1>2, <1>16, PrefixGrows DEF m
    <2>2. combined[k + 1] = Fold(combined[k], k + 1)
      <3>1. k + 1 \in 1..m /\ (k + 1) - 1 = k
        BY <1>1, <1>16
      <3>2. QED
        BY <1>14, <3>1
    <2>3. combined[k + 1] = Truncated(MergeFrontier(combined[k], Frontier(d), budget), limit)
      BY <2>2 DEF Fold
    <2>4. IsTask(items, counts, C, budget, limit, wide)
      BY <1>4, <1>5 DEF IsTask, wide
    <2>5. IsFrontier(Frontier(d), PruneDominated(items[d], counts[d]), counts[d], budget, wide)
      BY <1>6, <2>1
    <2>6. IsCombined(combined[k], items, counts, D, budget, wide)
      BY <1>16
    <2>a. D \in SUBSET C /\ d \in C \ D
      BY <2>1
    <2>b. Prefix(order, k + 1) = D \cup {d}
      BY <2>1
    <2> HIDE DEF D, d
    <2>7. IsCombined(combined[k + 1], items, counts, Prefix(order, k + 1), budget, wide)
      BY <2>a, <2>b, <2>3, <2>4, <2>5, <2>6, Merged
    <2>8. QED
      BY <2>7
  <1> HIDE DEF Good
  <1>17. Good(combined[m], m)
    <2> DEFINE T == {k \in Nat : k <= m => Good(combined[k], k)}
    <2>1. 0 \in T
      BY <1>15
    <2>2. ASSUME NEW k \in T \cap Nat PROVE k + 1 \in T
      <3>1. CASE k + 1 <= m
        BY <1>1, <1>16, <3>1
      <3>2. QED
        BY <3>1
    <2> HIDE DEF T
    <2>3. m \in T
      BY <1>1, <2>1, <2>2, Induction
    <2>4. QED
      BY <1>1, <2>3 DEF T
  <1>18. Prefix(order, m) = C
    <2>1. m \in 0..m
      BY <1>1
    <2>2. QED
      BY <1>1, <1>2, <2>1, PrefixGrows DEF m
  <1> DEFINE found == combined[m]
  <1>19. IsCombined(found, items, counts, C, budget, wide)
    BY <1>17, <1>18 DEF Good
  <1>20. found \in SUBSET Point /\ \A p \in found : p.cost \in Nat
    BY <1>19, PointParts DEF IsCombined
  <1>21. ASSUME NEW p \in found
         PROVE  /\ p \in Point /\ Len(p.chosen) = Slots(counts) /\ p.total <= average * Slots(counts)
                /\ \E W \in FullOf(items, counts, C) : Selects(p, W)
    BY <1>1, <1>19 DEF IsCombined, Slots, budget
  <1>22. ASSUME NEW W \in FullOf(items, counts, C), FloatSum(W) <= average * Slots(counts)
         PROVE  \E p \in found : /\ \A q \in found : p.cost <= q.cost
                                 /\ Cardinality(FullOf(items, counts, C)) <= limit => p.cost <= CostSum(W)
    <2>1. PICK q \in found : wide => q.cost <= CostSum(W)
      BY <1>19, <1>22 DEF IsCombined, budget
    <2> DEFINE T == {r.cost : r \in found}
    <2>2. T \subseteq Nat /\ T # {}
      BY <1>20, <2>1
    <2>3. \A r \in found : r.cost \in T
      OBVIOUS
    <2>4. \A t \in T : \E r \in found : r.cost = t
      OBVIOUS
    <2> HIDE DEF T
    <2>5. PICK t \in T : \A u \in T : t <= u
      BY <2>2, Least
    <2>6. PICK p \in found : p.cost = t
      BY <2>4
    <2>7. \A r \in found : p.cost <= r.cost
      BY <2>3, <2>5, <2>6
    <2>8. ASSUME Cardinality(FullOf(items, counts, C)) <= limit
          PROVE  p.cost <= CostSum(W)
      <3>1. wide
        BY <2>8 DEF wide
      <3>2. q.cost <= CostSum(W) /\ p.cost <= q.cost
        BY <2>1, <2>7, <3>1
      <3>3. CostSum(W) \in Nat
        <4>1. C \in SUBSET C
          OBVIOUS
        <4>2. W \in SUBSET ItemType /\ IsFiniteSet(W)
          BY <4>1, FullFinite
        <4>3. QED
          BY <4>2, ItemSums
      <3>4. QED
        BY <1>20, <3>2, <3>3
    <2>9. QED
      BY <2>7, <2>8
  <1> HIDE DEF found
  <1>23. Solve(counts, items, average, limit) = {p \in found : \A q \in found : p.cost <= q.cost}
    BY <1>13 DEF found
  <1>24. \A p, q \in Solve(counts, items, average, limit) : p.cost <= q.cost
    BY <1>23
  <1>25. QED
    BY <1>21, <1>22, <1>23, <1>24 DEF IsSolution

(* A sum over what a one-to-one map makes of a set. *)
LEMMA SumMapped ==
  ASSUME NEW S, IsFiniteSet(S), NEW f, \A x, y \in S : f[x] = f[y] => x = y,
         NEW g, \A x \in S : g[f[x]] \in Int, NEW h, \A x \in S : h[x] = g[f[x]]
  PROVE  SumOver({f[x] : x \in S}, g) = SumOver(S, h)
  <1> DEFINE img(s) == {f[x] : x \in s}
             T == {s \in SUBSET S : SumOver(img(s), g) = SumOver(s, h)}
  <1>1. {} \in T
    <2>1. img({}) = {}
      OBVIOUS
    <2>2. QED
      BY <2>1, SumNothing
  <1>2. ASSUME NEW s \in SUBSET S, s # {}, s \ {Pick(s)} \in T PROVE s \in T
    <2> DEFINE y == Pick(s)
               r == s \ {y}
    <2>1. y \in s
      BY <1>2 DEF Pick
    <2>2. r \in SUBSET S /\ y \in S /\ y \notin r /\ s = r \cup {y}
      BY <2>1
    <2>3. IsFiniteSet(r) /\ SumOver(img(r), g) = SumOver(r, h)
      <3>1. IsFiniteSet(r)
        BY FS_Subset
      <3>2. QED
        BY <1>2, <3>1
    <2> HIDE DEF y, r
    <2>4. IsFiniteSet(img(r))
      BY <2>3, ImageFinite
    <2>5. img(s) = img(r) \cup {f[y]}
      BY <2>2
    <2>6. f[y] \notin img(r)
      BY <2>2
    <2>7. \A z \in img(r) \cup {f[y]} : g[z] \in Int
      BY <2>2
    <2>8. \A x \in r \cup {y} : h[x] \in Int
      BY <2>2
    <2>9. SumOver(s, h) = SumOver(r, h) + h[y]
      BY <2>2, <2>3, <2>8, SumMore
    <2> HIDE DEF img
    <2> DEFINE W == img(r)
               z == f[y]
    <2>a. IsFiniteSet(W) /\ z \notin W /\ \A w \in W \cup {z} : g[w] \in Int
      BY <2>4, <2>6, <2>7
    <2> HIDE DEF W, z
    <2>b. SumOver(W \cup {z}, g) = SumOver(W, g) + g[z]
      BY <2>a, SumMore
    <2>10. SumOver(img(r) \cup {f[y]}, g) = SumOver(img(r), g) + g[f[y]]
      BY <2>b DEF W, z
    <2>11. h[y] = g[f[y]]
      BY <2>2
    <2>12. QED
      BY <2>3, <2>5, <2>9, <2>10, <2>11
  <1> HIDE DEF T
  <1>3. S \in T
    BY <1>1, <1>2, PickInduction
  <1>4. QED
    BY <1>3 DEF T

(* The pieces of S, without overlap. *)
IsPartition(P, C, S) ==
  /\ \A c \in C : P[c] \in SUBSET S
  /\ \A c, d \in C : c # d => P[c] \cap P[d] = {}
  /\ \A x \in S : \E c \in C : x \in P[c]

(* The sizes of the pieces add up. *)
LEMMA PiecesAdd ==
  ASSUME NEW S, IsFiniteSet(S), NEW C, IsFiniteSet(C), NEW P, IsPartition(P, C, S),
         NEW n, \A c \in C : n[c] = Cardinality(P[c])
  PROVE  SumOver(C, n) = Cardinality(S)
  <1> DEFINE all(D) == UNION {P[c] : c \in D}
             T == {D \in SUBSET C : SumOver(D, n) = Cardinality(all(D))}
  <1>1. {} \in T
    <2>1. all({}) = {}
      OBVIOUS
    <2>2. QED
      BY <2>1, SumNothing, FS_EmptySet
  <1>2. \A D \in SUBSET C : all(D) \in SUBSET S /\ IsFiniteSet(all(D))
    <2> SUFFICES ASSUME NEW D \in SUBSET C PROVE all(D) \in SUBSET S /\ IsFiniteSet(all(D))
      OBVIOUS
    <2>1. all(D) \in SUBSET S
      BY DEF IsPartition
    <2>2. QED
      BY <2>1, FS_Subset
  <1>3. \A c \in C : IsFiniteSet(P[c]) /\ n[c] \in Nat
    BY FS_Subset, FS_CardinalityType DEF IsPartition
  <1>4. ASSUME NEW s \in SUBSET C, s # {}, s \ {Pick(s)} \in T PROVE s \in T
    <2> DEFINE y == Pick(s)
               r == s \ {y}
    <2>1. y \in s
      BY <1>4 DEF Pick
    <2>2. r \in SUBSET C /\ y \in C /\ y \notin r /\ s = r \cup {y}
      BY <2>1
    <2>3. IsFiniteSet(r) /\ SumOver(r, n) = Cardinality(all(r)) /\ IsFiniteSet(all(r))
      <3>1. IsFiniteSet(r)
        BY FS_Subset
      <3>2. QED
        BY <1>2, <1>4, <2>2, <3>1
    <2> HIDE DEF y, r
    <2>4. SumOver(s, n) = SumOver(r, n) + n[y]
      <3>1. \A c \in r \cup {y} : n[c] \in Int
        BY <1>3, <2>2
      <3>2. QED
        BY <2>2, <2>3, <3>1, SumMore
    <2>5. all(s) = all(r) \cup P[y] /\ all(r) \cap P[y] = {}
      <3>1. all(s) = all(r) \cup P[y]
        BY <2>2
      <3>2. \A c \in r : P[c] \cap P[y] = {}
        BY <2>2 DEF IsPartition
      <3>3. QED
        BY <3>1, <3>2
    <2>6. IsFiniteSet(P[y]) /\ Cardinality(P[y]) \in Nat /\ n[y] = Cardinality(P[y])
      BY <1>3, <2>2
    <2> HIDE DEF all
    <2>7. Cardinality(all(r) \cup P[y])
            = Cardinality(all(r)) + Cardinality(P[y]) - Cardinality(all(r) \cap P[y])
      BY <2>3, <2>6, FS_Union
    <2>8. Cardinality(all(r)) \in Nat /\ Cardinality(all(r) \cap P[y]) = 0
      BY <2>3, <2>5, FS_CardinalityType, FS_EmptySet
    <2>9. Cardinality(all(s)) = SumOver(s, n)
      BY <2>3, <2>4, <2>5, <2>6, <2>7, <2>8
    <2>10. QED
      BY <2>9
  <1> HIDE DEF T
  <1>5. C \in T
    BY <1>1, <1>4, PickInduction
  <1>6. all(C) = S
    BY DEF IsPartition
  <1>7. QED
    BY <1>5, <1>6 DEF T

(* The elements of I in growing order. *)
Ascends(s, I) ==
  /\ s \in Seq(I) /\ Len(s) = Cardinality(I) /\ Len(s) \in Nat /\ DOMAIN s = 1..Len(s)
  /\ \A x \in I : \E k \in 1..Len(s) : s[k] = x
  /\ \A i, k \in 1..Len(s) : i < k => s[i] < s[k]

LEMMA NumbersAscend ==
  ASSUME NEW I \in SUBSET Int, IsFiniteSet(I)
  PROVE  Ascends(InOrder(I, LAMBDA j, k : j < k), I)
  <1> DEFINE m == Cardinality(I)
             s == InOrder(I, LAMBDA j, k : j < k)
             Nth(k) == CHOOSE x \in I : Cardinality({y \in I \ {x} : y < x}) = k - 1
             lower(x) == {y \in I \ {x} : y < x}
             B == {p \in I \X I : p[1] < p[2]}
  <1>1. Lists(s, I)
    BY NumbersListed
  <1>2. m \in Nat /\ DOMAIN s = 1..m
    BY <1>1, FS_CardinalityType DEF Lists
  <1>3. s = [k \in 1..m |-> Nth(k)]
    BY DEF InOrder
  <1> HIDE DEF s
  <1>4. Len(s) = m
    <2> HIDE DEF m, Nth
    <2>1. s = [k \in 1..m |-> s[k]]
      BY <1>3
    <2>2. QED
      BY <1>2, <2>1, LenOfInitial
  <1>5. s \in Seq(I)
    <2> HIDE DEF m, Nth
    <2>1. \A k \in 1..m : s[k] \in I
      BY <1>1 DEF Lists, m
    <2>2. s \in [1..m -> I]
      BY <1>3, <2>1
    <2>3. QED
      BY <1>2, <2>2
  <1>6. \A k \in 1..m : s[k] \in I /\ Cardinality(lower(s[k])) = k - 1
    <2>1. Orders(B, I)
      BY DEF Orders
    <2>2. \A x \in I : lower(x) = Below(I, B, x)
      BY DEF Below
    <2> HIDE DEF B, lower
    <2>3. \A k \in 1..m : \E x \in I : Cardinality(Below(I, B, x)) = k - 1
      BY <2>1, Ranks
    <2> SUFFICES ASSUME NEW k \in 1..m PROVE s[k] \in I /\ Cardinality(lower(s[k])) = k - 1
      OBVIOUS
    <2>4. PICK x \in I : Cardinality(lower(x)) = k - 1
      BY <2>2, <2>3
    <2>5. s[k] = Nth(k)
      BY <1>3
    <2>6. QED
      BY <2>4, <2>5 DEF lower
  <1> HIDE DEF m, Nth, B
  <1>7. ASSUME NEW i \in 1..m, NEW k \in 1..m, i < k
        PROVE  s[i] < s[k]
    <2>1. s[i] \in Int /\ s[k] \in Int /\ s[i] \in I /\ s[k] \in I
      BY <1>6
    <2>2. CASE s[i] = s[k]
      <3>1. Cardinality(lower(s[i])) = i - 1 /\ Cardinality(lower(s[k])) = k - 1
        BY <1>6
      <3> HIDE DEF lower
      <3>2. i - 1 = k - 1
        BY <2>2, <3>1
      <3>3. QED
        BY <1>2, <1>7, <3>2
    <2>3. CASE s[k] < s[i]
      <3>1. lower(s[k]) \in SUBSET lower(s[i])
        <4> SUFFICES ASSUME NEW y \in I, y # s[k], y < s[k] PROVE y \in lower(s[i])
          OBVIOUS
        <4>1. y \in Int
          OBVIOUS
        <4>2. y < s[i] /\ y # s[i]
          BY <2>1, <2>3, <4>1
        <4>3. QED
          BY <4>2
      <3>2. IsFiniteSet(lower(s[i]))
        BY FS_Subset
      <3> HIDE DEF lower
      <3>3. Cardinality(lower(s[k])) <= Cardinality(lower(s[i]))
        BY <3>1, <3>2, FS_Subset
      <3>4. QED
        BY <1>2, <1>6, <1>7, <3>3
    <2>4. QED
      BY <2>1, <2>2, <2>3
  <1>8. Ascends(s, I)
    BY <1>1, <1>2, <1>4, <1>5, <1>7 DEF Lists, m, Ascends
  <1>9. QED
    BY <1>8 DEF s

-----------------------------------------------------------------------------
(* The shapes in their order.                                              *)
IsShape(a) ==
  /\ a = [c \in DOMAIN a |-> a[c]] /\ DOMAIN a \in SUBSET Nat /\ IsFiniteSet(DOMAIN a)
  /\ \A c \in DOMAIN a : a[c] \in Nat

LEMMA LeadingIs ==
  ASSUME NEW S \in SUBSET Nat, S # {}
  PROVE  Leading(S) \in S /\ \A y \in S : Leading(S) <= y
  <1>1. PICK m \in S : \A k \in S : m <= k
    BY Least
  <1>2. QED
    BY <1>1 DEF Leading

(* D has the first number that one of two sets has and the other has not. *)
InFront(D, E) == \E x \in D \ E : \A z \in Nat : z < x => (z \in D <=> z \in E)

(* The first share that differs is smaller in a. *)
Lighter(a, b) == \E x \in DOMAIN a : a[x] < b[x] /\ \A z \in DOMAIN a : z < x => a[z] = b[z]

LEMMA FrontIs ==
  ASSUME NEW D \in SUBSET Nat, NEW E \in SUBSET Nat
  PROVE  (D \ E) \cup (E \ D) # {} /\ Leading((D \ E) \cup (E \ D)) \in D <=> InFront(D, E)
  <1> DEFINE A == (D \ E) \cup (E \ D)
  <1>1. A \in SUBSET Nat
    OBVIOUS
  <1>2. ASSUME A # {}, Leading(A) \in D
        PROVE  InFront(D, E)
    <2> DEFINE x == Leading(A)
    <2>1. x \in A /\ \A y \in A : x <= y
      BY <1>1, <1>2, LeadingIs
    <2>2. x \in D \ E
      BY <1>2, <2>1
    <2> HIDE DEF x
    <2>3. ASSUME NEW z \in Nat, z < x PROVE z \in D <=> z \in E
      <3>1. z \notin A
        BY <1>1, <2>1, <2>3
      <3>2. QED
        BY <3>1
    <2>4. QED
      BY <2>2, <2>3 DEF InFront
  <1>3. ASSUME InFront(D, E)
        PROVE  A # {} /\ Leading(A) \in D
    <2>1. PICK x \in D \ E : \A z \in Nat : z < x => (z \in D <=> z \in E)
      BY <1>3 DEF InFront
    <2>2. x \in A
      OBVIOUS
    <2> DEFINE y == Leading(A)
    <2>3. y \in A /\ \A z \in A : y <= z
      BY <1>1, <2>2, LeadingIs
    <2> HIDE DEF y
    <2>4. ~(y < x)
      BY <1>1, <2>1, <2>3
    <2>5. y <= x /\ y \in Nat /\ x \in Nat
      BY <1>1, <2>2, <2>3
    <2>6. y = x
      BY <2>4, <2>5
    <2>7. QED
      BY <2>2, <2>6 DEF y
  <1>4. QED
    BY <1>2, <1>3

LEMMA LighterIs ==
  ASSUME NEW a, IsShape(a), NEW b, IsShape(b), DOMAIN a = DOMAIN b,
         NEW A, A = {c \in DOMAIN a : a[c] # b[c]}
  PROVE  A # {} /\ a[Leading(A)] < b[Leading(A)] <=> Lighter(a, b)
  <1>1. A \in SUBSET Nat /\ A \in SUBSET DOMAIN a
    BY DEF IsShape
  <1>2. ASSUME A # {}, a[Leading(A)] < b[Leading(A)]
        PROVE  Lighter(a, b)
    <2> DEFINE x == Leading(A)
    <2>1. x \in A /\ \A y \in A : x <= y
      BY <1>1, <1>2, LeadingIs
    <2>2. x \in DOMAIN a /\ a[x] < b[x]
      BY <1>1, <1>2, <2>1
    <2> HIDE DEF x
    <2>3. ASSUME NEW z \in DOMAIN a, z < x PROVE a[z] = b[z]
      <3>1. z \notin A
        BY <1>1, <2>1, <2>3
      <3>2. QED
        BY <3>1
    <2>4. QED
      BY <2>2, <2>3 DEF Lighter
  <1>3. ASSUME Lighter(a, b)
        PROVE  A # {} /\ a[Leading(A)] < b[Leading(A)]
    <2>1. PICK x \in DOMAIN a : a[x] < b[x] /\ \A z \in DOMAIN a : z < x => a[z] = b[z]
      BY <1>3 DEF Lighter
    <2>2. a[x] \in Nat /\ b[x] \in Nat
      BY DEF IsShape
    <2>3. x \in A
      BY <2>1, <2>2
    <2> DEFINE y == Leading(A)
    <2>4. y \in A /\ \A z \in A : y <= z
      BY <1>1, <2>3, LeadingIs
    <2> HIDE DEF y
    <2>5. ~(y < x)
      BY <2>1, <2>4
    <2>6. y <= x /\ y \in Nat /\ x \in Nat
      BY <1>1, <2>3, <2>4
    <2>7. y = x
      BY <2>5, <2>6
    <2>8. QED
      BY <2>1, <2>3, <2>7 DEF y
  <1>4. QED
    BY <1>2, <1>3

LEMMA FrontOrders ==
  ASSUME NEW D \in SUBSET Nat, NEW E \in SUBSET Nat
  PROVE  /\ D # E => (InFront(D, E) <=> ~InFront(E, D))
         /\ InFront(D, E) => D # E
         /\ \A F \in SUBSET Nat : InFront(D, E) /\ InFront(E, F) => InFront(D, F)
  <1>1. ASSUME D # E
        PROVE  InFront(D, E) <=> ~InFront(E, D)
    <2> DEFINE A == (D \ E) \cup (E \ D)
    <2>1. A # {} /\ A \in SUBSET Nat
      BY <1>1
    <2>2. Leading(A) \in A
      BY <2>1, LeadingIs
    <2>3. (E \ D) \cup (D \ E) = A
      OBVIOUS
    <2>4. InFront(D, E) <=> Leading(A) \in D
      BY <2>1, FrontIs
    <2>5. InFront(E, D) <=> Leading(A) \in E
      <3>1. (E \ D) \cup (D \ E) # {} /\ Leading((E \ D) \cup (D \ E)) \in E <=> InFront(E, D)
        BY FrontIs
      <3>2. QED
        BY <2>1, <2>3, <3>1
    <2>6. QED
      BY <2>2, <2>4, <2>5
  <1>2. ASSUME NEW F \in SUBSET Nat, InFront(D, E), InFront(E, F)
        PROVE  InFront(D, F)
    <2>1. PICK x \in D \ E : \A z \in Nat : z < x => (z \in D <=> z \in E)
      BY <1>2 DEF InFront
    <2>2. PICK y \in E \ F : \A z \in Nat : z < y => (z \in E <=> z \in F)
      BY <1>2 DEF InFront
    <2>3. x \in Nat /\ y \in Nat /\ x # y
      OBVIOUS
    <2>4. CASE x < y
      <3>1. x \in D \ F
        BY <2>2, <2>3, <2>4
      <3>2. \A z \in Nat : z < x => (z \in D <=> z \in F)
        BY <2>1, <2>2, <2>3, <2>4
      <3>3. QED
        BY <3>1, <3>2 DEF InFront
    <2>5. CASE y < x
      <3>1. y \in D \ F
        BY <2>1, <2>3, <2>5
      <3>2. \A z \in Nat : z < y => (z \in D <=> z \in F)
        BY <2>1, <2>2, <2>3, <2>5
      <3>3. QED
        BY <3>1, <3>2 DEF InFront
    <2>6. QED
      BY <2>3, <2>4, <2>5
  <1>3. QED
    BY <1>1, <1>2 DEF InFront

LEMMA LighterOrders ==
  ASSUME NEW a, IsShape(a), NEW b, IsShape(b), DOMAIN a = DOMAIN b
  PROVE  /\ a # b => (Lighter(a, b) <=> ~Lighter(b, a))
         /\ \A c : IsShape(c) /\ DOMAIN c = DOMAIN a /\ Lighter(a, b) /\ Lighter(b, c) => Lighter(a, c)
  <1> DEFINE C == DOMAIN a
  <1>1. C \in SUBSET Nat /\ \A x \in C : a[x] \in Nat /\ b[x] \in Nat
    BY DEF IsShape
  <1>2. ASSUME a # b
        PROVE  Lighter(a, b) <=> ~Lighter(b, a)
    <2> DEFINE A == {x \in DOMAIN a : a[x] # b[x]}
               Z == {x \in DOMAIN b : b[x] # a[x]}
    <2>1. A = Z
      OBVIOUS
    <2>2. A # {}
      BY <1>2 DEF IsShape
    <2>3. A \in SUBSET Nat
      BY <1>1
    <2>4. Lighter(a, b) <=> a[Leading(A)] < b[Leading(A)]
      BY <2>2, LighterIs
    <2>5. Lighter(b, a) <=> b[Leading(A)] < a[Leading(A)]
      <3>1. Z # {} /\ b[Leading(Z)] < a[Leading(Z)] <=> Lighter(b, a)
        BY LighterIs
      <3> HIDE DEF A, Z
      <3>2. QED
        BY <2>1, <2>2, <3>1
    <2>6. Leading(A) \in A
      BY <2>2, <2>3, LeadingIs
    <2>7. Leading(A) \in C /\ a[Leading(A)] # b[Leading(A)]
      BY <2>6
    <2> HIDE DEF A, Z
    <2>8. QED
      BY <1>1, <2>4, <2>5, <2>7
  <1>3. ASSUME NEW c, IsShape(c), DOMAIN c = DOMAIN a, Lighter(a, b), Lighter(b, c)
        PROVE  Lighter(a, c)
    <2>1. PICK x \in C : a[x] < b[x] /\ \A z \in C : z < x => a[z] = b[z]
      BY <1>3 DEF Lighter
    <2>2. PICK y \in C : b[y] < c[y] /\ \A z \in C : z < y => b[z] = c[z]
      BY <1>3 DEF Lighter
    <2>3. \A z \in C : c[z] \in Nat
      BY <1>3 DEF IsShape
    <2>4. x \in Nat /\ y \in Nat
      BY <1>1
    <2>5. CASE x < y
      <3>1. a[x] < c[x]
        BY <1>1, <2>1, <2>2, <2>5
      <3>2. \A z \in C : z < x => a[z] = c[z]
        BY <1>1, <2>1, <2>2, <2>4, <2>5
      <3>3. QED
        BY <3>1, <3>2 DEF Lighter
    <2>6. CASE y < x
      <3>1. a[y] < c[y]
        BY <1>1, <2>1, <2>2, <2>6
      <3>2. \A z \in C : z < y => a[z] = c[z]
        BY <1>1, <2>1, <2>2, <2>4, <2>6
      <3>3. QED
        BY <3>1, <3>2 DEF Lighter
    <2>7. CASE x = y
      <3>1. a[x] < c[x]
        BY <1>1, <2>1, <2>2, <2>3, <2>7
      <3>2. \A z \in C : z < x => a[z] = c[z]
        BY <2>1, <2>2, <2>7
      <3>3. QED
        BY <3>1, <3>2 DEF Lighter
    <2>8. QED
      BY <2>4, <2>5, <2>6, <2>7
  <1>4. QED
    BY <1>2, <1>3

(* ShapeOrder, without its arithmetic. *)
LEMMA ShapeOrderIs ==
  ASSUME NEW a, IsShape(a), NEW b, IsShape(b)
  PROVE  ShapeOrder(a, b) <=>
           \/ Cardinality(DOMAIN a) < Cardinality(DOMAIN b)
           \/ Cardinality(DOMAIN a) = Cardinality(DOMAIN b) /\ InFront(DOMAIN a, DOMAIN b)
           \/ DOMAIN a = DOMAIN b /\ Lighter(a, b)
  <1> DEFINE A == (DOMAIN a \ DOMAIN b) \cup (DOMAIN b \ DOMAIN a)
             Z == {c \in DOMAIN a : a[c] # b[c]}
  <1>1. DOMAIN a \in SUBSET Nat /\ DOMAIN b \in SUBSET Nat
    BY DEF IsShape
  <1>2. A # {} /\ Leading(A) \in DOMAIN a <=> InFront(DOMAIN a, DOMAIN b)
    BY <1>1, FrontIs
  <1>3. A = {} <=> DOMAIN a = DOMAIN b
    OBVIOUS
  <1>4. DOMAIN a = DOMAIN b => (Z # {} /\ a[Leading(Z)] < b[Leading(Z)] <=> Lighter(a, b))
    BY LighterIs
  <1>5. ShapeOrder(a, b) <=>
           \/ Cardinality(DOMAIN a) < Cardinality(DOMAIN b)
           \/ Cardinality(DOMAIN a) = Cardinality(DOMAIN b) /\ A # {} /\ Leading(A) \in DOMAIN a
           \/ A = {} /\ Z # {} /\ a[Leading(Z)] < b[Leading(Z)]
    BY DEF ShapeOrder
  <1> HIDE DEF A, Z
  <1>6. QED
    BY <1>2, <1>3, <1>4, <1>5

LEMMA ShapesOrdered ==
  ASSUME NEW T, \A a \in T : IsShape(a)
  PROVE  Orders({p \in T \X T : ShapeOrder(p[1], p[2])}, T)
  <1> DEFINE B == {p \in T \X T : ShapeOrder(p[1], p[2])}
             size(a) == Cardinality(DOMAIN a)
             Goes(a, b) == \/ size(a) < size(b)
                           \/ size(a) = size(b) /\ InFront(DOMAIN a, DOMAIN b)
                           \/ DOMAIN a = DOMAIN b /\ Lighter(a, b)
  <1>1. \A a, b \in T : <<a, b>> \in B <=> Goes(a, b)
    <2> SUFFICES ASSUME NEW a \in T, NEW b \in T PROVE <<a, b>> \in B <=> Goes(a, b)
      OBVIOUS
    <2>1. <<a, b>> \in B <=> ShapeOrder(a, b)
      OBVIOUS
    <2> HIDE DEF B
    <2>2. QED
      BY <2>1, ShapeOrderIs
  <1>2. \A a \in T : size(a) \in Nat /\ DOMAIN a \in SUBSET Nat
    BY FS_CardinalityType DEF IsShape
  <1>3. \A a, b \in T : DOMAIN a = DOMAIN b => size(a) = size(b)
    OBVIOUS
  <1> HIDE DEF B, size
  <1>4. ASSUME NEW a \in T, NEW b \in T, a # b
        PROVE  Goes(a, b) <=> ~Goes(b, a)
    <2>1. CASE DOMAIN a = DOMAIN b
      <3>1. ~InFront(DOMAIN a, DOMAIN b) /\ ~InFront(DOMAIN b, DOMAIN a)
        BY <2>1 DEF InFront
      <3>2. size(a) = size(b) /\ ~(size(a) < size(b)) /\ ~(size(b) < size(a))
        BY <1>2, <1>3, <2>1
      <3>3. Lighter(a, b) <=> ~Lighter(b, a)
        BY <1>4, <2>1, LighterOrders
      <3>4. QED
        BY <2>1, <3>1, <3>2, <3>3
    <2>2. CASE DOMAIN a # DOMAIN b
      <3>1. InFront(DOMAIN a, DOMAIN b) <=> ~InFront(DOMAIN b, DOMAIN a)
        BY <1>2, <2>2, FrontOrders
      <3>2. size(a) \in Nat /\ size(b) \in Nat
        BY <1>2
      <3>3. QED
        BY <2>2, <3>1, <3>2
    <2>3. QED
      BY <2>1, <2>2
  <1>5. ASSUME NEW a \in T, NEW b \in T, NEW c \in T, Goes(a, b), Goes(b, c)
        PROVE  Goes(a, c)
    <2>1. size(a) \in Nat /\ size(b) \in Nat /\ size(c) \in Nat
      BY <1>2
    <2>2. size(a) <= size(b) /\ size(b) <= size(c)
      BY <1>3, <1>5, <2>1
    <2>3. CASE size(a) < size(b) \/ size(b) < size(c)
      BY <2>1, <2>2, <2>3
    <2>4. CASE size(a) = size(b) /\ size(b) = size(c)
      <3>0. ~(size(a) < size(b)) /\ ~(size(b) < size(c))
        BY <2>1, <2>4
      <3>1. InFront(DOMAIN a, DOMAIN b) \/ (DOMAIN a = DOMAIN b /\ Lighter(a, b))
        BY <1>5, <3>0, Zenon
      <3>2. InFront(DOMAIN b, DOMAIN c) \/ (DOMAIN b = DOMAIN c /\ Lighter(b, c))
        BY <1>5, <3>0, Zenon
      <3>3. DOMAIN a \in SUBSET Nat /\ DOMAIN b \in SUBSET Nat /\ DOMAIN c \in SUBSET Nat
        BY <1>2
      <3>4. CASE InFront(DOMAIN a, DOMAIN b) /\ InFront(DOMAIN b, DOMAIN c)
        <4>1. InFront(DOMAIN a, DOMAIN c)
          BY <3>3, <3>4, FrontOrders
        <4>2. QED
          BY <2>4, <4>1
      <3>5. CASE InFront(DOMAIN a, DOMAIN b) /\ DOMAIN b = DOMAIN c
        BY <2>4, <3>5
      <3>6. CASE DOMAIN a = DOMAIN b /\ InFront(DOMAIN b, DOMAIN c)
        BY <2>4, <3>6
      <3>7. CASE DOMAIN a = DOMAIN b /\ Lighter(a, b) /\ DOMAIN b = DOMAIN c /\ Lighter(b, c)
        <4>1. Lighter(a, c)
          BY <3>7, LighterOrders
        <4>2. QED
          BY <3>7, <4>1
      <3>8. QED
        BY <3>1, <3>2, <3>4, <3>5, <3>6, <3>7
    <2>5. QED
      BY <2>1, <2>2, <2>3, <2>4
  <1> HIDE DEF Goes
  <1>6. Orders(B, T)
    BY <1>1, <1>4, <1>5 DEF Orders
  <1>7. QED
    BY <1>6 DEF B

(* Which shapes there are: those of a few collections that have enough. *)
IsComposition(a, available, n, maxDistinct, minimum) ==
  /\ DOMAIN a \in SUBSET DOMAIN available /\ DOMAIN a # {} /\ a \in [DOMAIN a -> minimum..n]
  /\ Cardinality(DOMAIN a) <= maxDistinct
  /\ \A c \in DOMAIN a : a[c] <= available[c]
  /\ Slots(a) = n

LEMMA CompositionsAre ==
  ASSUME NEW available, DOMAIN available \in SUBSET Nat, IsFiniteSet(DOMAIN available),
         \A c \in DOMAIN available : available[c] \in Nat,
         NEW n \in Nat \ {0}, NEW maxDistinct \in Nat, NEW minimum \in Nat \ {0},
         NEW T, T = Compositions(available, n, maxDistinct, minimum)
  PROVE  /\ \A a \in T : IsShape(a) /\ IsComposition(a, available, n, maxDistinct, minimum)
         /\ \A a : IsComposition(a, available, n, maxDistinct, minimum) => a \in T
         /\ IsFiniteSet(T)
  <1> DEFINE usable == {c \in DOMAIN available : available[c] >= minimum}
             caps == [c \in usable |-> IF available[c] < n THEN available[c] ELSE n]
             subsets == {s \in SUBSET usable : /\ Cardinality(s) \in 1..maxDistinct
                                               /\ Cardinality(s) <= n
                                               /\ Room(s, caps, n)}
             Of(s) == {counts \in [s -> minimum..n] : (\A c \in s : counts[c] <= caps[c]) /\ Slots(counts) = n}
  <1>1. T = UNION {Of(s) : s \in subsets}
    BY DEF Compositions
  <1>2. \A c \in usable : caps[c] \in Nat /\ caps[c] <= available[c] /\ caps[c] <= n
    OBVIOUS
  <1>3. usable \in SUBSET DOMAIN available /\ \A c \in usable : caps[c] \in Nat /\ available[c] \in Nat
    OBVIOUS
  <1>4. IsFiniteSet(usable)
    BY <1>3, FS_Subset
  <1>5. ASSUME NEW a \in T
        PROVE  IsShape(a) /\ IsComposition(a, available, n, maxDistinct, minimum) /\ a \in [DOMAIN a -> Nat]
    <2>1. PICK s \in subsets : a \in Of(s)
      BY <1>1
    <2>2. /\ s \in SUBSET usable /\ Cardinality(s) \in 1..maxDistinct
          /\ a \in [s -> minimum..n] /\ Slots(a) = n /\ \A c \in s : a[c] <= caps[c]
      BY <2>1
    <2> HIDE DEF caps, Of, subsets
    <2>3. DOMAIN a = s /\ s \in SUBSET DOMAIN available /\ IsFiniteSet(s)
      BY <1>3, <1>4, <2>2, FS_Subset
    <2>4. \A c \in s : a[c] \in Nat /\ a[c] <= available[c]
      <3> SUFFICES ASSUME NEW c \in s PROVE a[c] \in Nat /\ a[c] <= available[c]
        OBVIOUS
      <3>1. a[c] \in minimum..n /\ a[c] <= caps[c] /\ caps[c] <= available[c]
        BY <1>2, <2>2
      <3>2. caps[c] \in Nat /\ available[c] \in Nat
        BY <1>3, <2>2
      <3>3. QED
        BY <3>1, <3>2
    <2>5. s # {}
      <3>1. Cardinality({}) = 0
        BY FS_EmptySet
      <3>2. QED
        BY <2>2, <3>1
    <2>6. IsShape(a)
      <3>1. a = [c \in s |-> a[c]]
        BY <2>2
      <3>2. QED
        BY <2>3, <2>4, <3>1 DEF IsShape
    <2>7. IsComposition(a, available, n, maxDistinct, minimum)
      BY <2>2, <2>3, <2>4, <2>5 DEF IsComposition
    <2>8. a \in [DOMAIN a -> Nat]
      BY <2>2, <2>3
    <2>9. QED
      BY <2>6, <2>7, <2>8
  <1>6. ASSUME NEW a, IsComposition(a, available, n, maxDistinct, minimum)
        PROVE  a \in T
    <2> DEFINE s == DOMAIN a
    <2>1. /\ s \in SUBSET DOMAIN available /\ s # {} /\ a \in [s -> minimum..n]
          /\ Cardinality(s) <= maxDistinct /\ Slots(a) = n
          /\ \A c \in s : a[c] <= available[c]
      BY <1>6 DEF IsComposition
    <2>2. \A c \in s : a[c] \in Nat /\ minimum <= a[c] /\ a[c] <= n /\ available[c] \in Nat
      <3> SUFFICES ASSUME NEW c \in s
                   PROVE  a[c] \in Nat /\ minimum <= a[c] /\ a[c] <= n /\ available[c] \in Nat
        OBVIOUS
      <3>1. a[c] \in minimum..n
        BY <2>1
      <3>2. available[c] \in Nat
        BY <2>1
      <3>3. QED
        BY <3>1, <3>2
    <2>3. s \in SUBSET usable
      BY <2>1, <2>2
    <2>4. \A c \in s : a[c] <= caps[c]
      BY <2>1, <2>2, <2>3
    <2>5. IsFiniteSet(s) /\ Cardinality(s) \in Nat /\ Cardinality(s) # 0
      <3>1. IsFiniteSet(s)
        BY <1>4, <2>3, FS_Subset
      <3>2. QED
        BY <2>1, <3>1, FS_CardinalityType, FS_EmptySet
    <2> HIDE DEF caps
    <2>6. SumOver(s, a) = n
      BY <2>1 DEF Slots
    <2>7. Room(s, caps, n)
      <3>1. \A c \in s : a[c] \in Int /\ caps[c] \in Int /\ a[c] <= caps[c]
        BY <1>3, <2>2, <2>3, <2>4
      <3>2. SumOver(s, caps) \in Int /\ SumOver(s, a) <= SumOver(s, caps)
        BY <2>5, <3>1, SumMonotone
      <3>3. QED
        BY <2>6, <3>2 DEF Room
    <2>8. Cardinality(s) <= n
      <3>1. \A c \in s : a[c] \in Nat /\ 1 <= a[c]
        BY <2>2
      <3>2. 1 * Cardinality(s) <= SumOver(s, a)
        BY <2>5, <3>1, SumBounded
      <3>3. QED
        BY <2>5, <2>6, <3>2
    <2>9. s \in subsets
      BY <2>1, <2>3, <2>5, <2>7, <2>8
    <2>10. a \in Of(s)
      BY <2>1, <2>4
    <2> HIDE DEF s, Of, subsets
    <2>11. QED
      BY <1>1, <2>9, <2>10
  <1>7. IsFiniteSet(T)
    <2> DEFINE G == SUBSET (usable \X (0..n))
               graph == [a \in T |-> {<<c, a[c]>> : c \in DOMAIN a}]
    <2>1. IsFiniteSet(G)
      <3>1. IsFiniteSet(0..n)
        BY FS_Interval
      <3>2. IsFiniteSet(usable \X (0..n))
        BY <1>4, <3>1, FS_Product
      <3>3. QED
        BY <3>2, FS_SUBSET
    <2>2. ASSUME NEW a \in T PROVE graph[a] \in G
      <3>1. /\ DOMAIN a \in SUBSET DOMAIN available /\ a \in [DOMAIN a -> minimum..n]
            /\ \A c \in DOMAIN a : a[c] <= available[c]
        BY <1>5 DEF IsComposition
      <3>2. ASSUME NEW c \in DOMAIN a PROVE <<c, a[c]>> \in usable \X (0..n)
        <4>1. a[c] \in minimum..n /\ a[c] <= available[c] /\ available[c] \in Nat /\ c \in DOMAIN available
          BY <3>1
        <4>2. a[c] \in 0..n /\ available[c] >= minimum
          BY <4>1
        <4>3. QED
          BY <4>1, <4>2
      <3>3. QED
        BY <3>2
    <2>3. graph \in [T -> G]
      BY <2>2
    <2>4. ASSUME NEW a \in T, NEW b \in T, graph[a] = graph[b]
          PROVE  a = b
      <3>1. {<<c, a[c]>> : c \in DOMAIN a} = {<<c, b[c]>> : c \in DOMAIN b}
        BY <2>4
      <3> HIDE DEF graph, G
      <3>2. \A c \in DOMAIN a : c \in DOMAIN b /\ a[c] = b[c]
        <4> SUFFICES ASSUME NEW c \in DOMAIN a PROVE c \in DOMAIN b /\ a[c] = b[c]
          OBVIOUS
        <4>1. <<c, a[c]>> \in {<<d, b[d]>> : d \in DOMAIN b}
          BY <3>1
        <4>2. QED
          BY <4>1
      <3>3. \A c \in DOMAIN b : c \in DOMAIN a
        <4> SUFFICES ASSUME NEW c \in DOMAIN b PROVE c \in DOMAIN a
          OBVIOUS
        <4>1. <<c, b[c]>> \in {<<d, a[d]>> : d \in DOMAIN a}
          BY <3>1
        <4>2. QED
          BY <4>1
      <3>4. DOMAIN a = DOMAIN b
        BY <3>2, <3>3
      <3>5. a = [c \in DOMAIN a |-> a[c]] /\ b = [c \in DOMAIN b |-> b[c]]
        BY <1>5 DEF IsShape
      <3>6. QED
        BY <3>2, <3>4, <3>5
    <2> HIDE DEF graph, G
    <2>5. graph \in Injection(T, G)
      BY <2>3, <2>4 DEF Injection, IsInjective
    <2>6. QED
      BY <2>1, <2>5, FS_Injection
  <1>8. QED
    BY <1>5, <1>6, <1>7

(* Every one of them is listed. *)
LEMMA ShapesListed ==
  ASSUME NEW T, IsFiniteSet(T), \A a \in T : IsShape(a)
  PROVE  Lists(InOrder(T, ShapeOrder), T) /\ Len(InOrder(T, ShapeOrder)) = Cardinality(T)
  <1> DEFINE B == {p \in T \X T : ShapeOrder(p[1], p[2])}
             order == InOrder(T, ShapeOrder)
             m == Cardinality(T)
             Nth(k) == CHOOSE x \in T : Cardinality({y \in T \ {x} : ShapeOrder(y, x)}) = k - 1
  <1>1. Orders(B, T)
    BY ShapesOrdered
  <1>2. \A x \in T : {y \in T \ {x} : ShapeOrder(y, x)} = Below(T, B, x)
    BY DEF Below
  <1>3. DOMAIN order = 1..m /\ order = [k \in 1..m |-> Nth(k)] /\ m \in Nat
    BY FS_CardinalityType DEF InOrder
  <1> HIDE DEF B, order, m
  <1>4. ASSUME NEW k \in 1..m, NEW x \in T, Cardinality(Below(T, B, x)) = k - 1
        PROVE  order[k] \in T /\ Cardinality(Below(T, B, order[k])) = k - 1
    <2>1. Cardinality({y \in T \ {x} : ShapeOrder(y, x)}) = k - 1
      BY <1>2, <1>4
    <2>2. Nth(k) \in T /\ Cardinality({y \in T \ {Nth(k)} : ShapeOrder(y, Nth(k))}) = k - 1
      BY <2>1
    <2> HIDE DEF Nth
    <2>3. order[k] = Nth(k)
      BY <1>3
    <2>4. QED
      BY <1>2, <2>2, <2>3
  <1> HIDE DEF Nth
  <1>5. Lists(order, T)
    BY <1>1, <1>3, <1>4, OrderedLists DEF m
  <1>6. Len(order) = m
    <2>1. order = [k \in 1..m |-> order[k]]
      BY <1>3
    <2>2. QED
      BY <1>3, <2>1, LenOfInitial
  <1>7. QED
    BY <1>5, <1>6 DEF order, m

-----------------------------------------------------------------------------
(* Floats and bands.                                                       *)
LEMMA Cancelled ==
  ASSUME NEW w \in Nat \ {0}, NEW a \in Int, NEW b \in Int
  PROVE  /\ w * a \in Int /\ w * b \in Int
         /\ a <= b <=> w * a <= w * b
         /\ a < b <=> w * a < w * b
  <1>1. w * a \in Int /\ w * b \in Int
    OBVIOUS
  <1>2. a <= b => w * a <= w * b
    BY Monotone
  <1>3. b <= a => w * b <= w * a
    BY Monotone
  <1>4. a < b => w * a < w * b
    <2>1. ASSUME a < b PROVE w * a < w * b
      <3>1. w * (a + 1) <= w * b
        BY <2>1, Monotone
      <3>2. w * (a + 1) = w * a + w
        OBVIOUS
      <3>3. QED
        BY <1>1, <3>1, <3>2
    <2>2. QED
      BY <2>1
  <1>5. b < a => w * b < w * a
    <2>1. ASSUME b < a PROVE w * b < w * a
      <3>1. w * (b + 1) <= w * a
        BY <2>1, Monotone
      <3>2. w * (b + 1) = w * b + w
        OBVIOUS
      <3>3. QED
        BY <1>1, <3>1, <3>2
    <2>2. QED
      BY <2>1
  <1>6. QED
    BY <1>1, <1>2, <1>3, <1>4, <1>5

(* A range's width divides a thousand, at least ten times. *)
LEMMA WidthIs ==
  ASSUME NEW r \in Ranges
  PROVE  /\ Width(r) \in 1..100 /\ r.min \in 0..100 /\ r.max \in 0..100 /\ Width(r) = r.max - r.min
         /\ \E q \in Nat : q >= 10 /\ Width(r) * q = Whole
  <1>1. /\ r.min \in 0..100 /\ r.max \in 0..100 /\ r.min < r.max /\ Whole % (r.max - r.min) = 0
    BY DEF Ranges
  <1>2. Width(r) \in 1..100 /\ Width(r) = r.max - r.min
    BY <1>1 DEF Width
  <1> DEFINE w == r.max - r.min
             q == Whole \div w
  <1>3. w \in Nat \ {0} /\ w <= 100 /\ Whole \in Int /\ Whole = 1000
    <2>1. w \in 1..100
      BY <1>2
    <2> HIDE DEF w
    <2>2. QED
      BY <2>1 DEF Whole
  <1>4. Whole = w * q + (Whole % w) /\ q \in Int
    <2> HIDE DEF w
    <2>1. QED
      BY <1>3
  <1>5. w * q = Whole
    <2>1. Whole % w = 0
      BY <1>1
    <2> HIDE DEF w, q
    <2>2. w * q \in Int
      BY <1>3, <1>4
    <2>3. QED
      BY <1>3, <1>4, <2>1, <2>2
  <1> HIDE DEF w, q
  <1>6. q >= 10
    <2>1. SUFFICES ASSUME q <= 9 PROVE FALSE
      BY <1>4
    <2>2. w * q <= w * 9
      BY <1>3, <1>4, <2>1, Cancelled
    <2>3. QED
      BY <1>3, <1>5, <2>2
  <1>7. QED
    BY <1>1, <1>2, <1>4, <1>5, <1>6 DEF w

(* On this grid a normalised float is exact. *)
LEMMA NormalizedIs ==
  ASSUME NEW r \in Ranges, NEW f \in Int, r.min <= f
  PROVE  /\ Normalized(f, r) \in Nat /\ Width(r) * Normalized(f, r) = (f - r.min) * Whole
         /\ f <= r.max => Normalized(f, r) <= Whole
         /\ r.min < f => Normalized(f, r) >= 10
  <1> DEFINE w == Width(r)
             d == f - r.min
  <1>1. PICK q \in Nat : q >= 10 /\ w * q = Whole
    BY WidthIs
  <1>2. w \in Nat \ {0} /\ d \in Nat /\ Whole \in Nat /\ w = r.max - r.min /\ r.min \in Int /\ r.max \in Int
    BY WidthIs DEF Whole
  <1>3. (f <= r.max => d <= w) /\ (r.min < f => 1 <= d)
    BY <1>2
  <1>4. Normalized(f, r) = (d * Whole) \div w
    BY DEF Normalized
  <1> HIDE DEF w, d
  <1>5. d * q \in Nat /\ w * (d * q) = d * Whole /\ d * Whole \in Nat
    <2>1. d * q \in Nat /\ d * Whole \in Nat
      BY <1>2, Product
    <2>2. w * (d * q) = d * (w * q)
      BY <1>1, <1>2
    <2>3. QED
      BY <1>1, <2>1, <2>2
  <1> DEFINE x == (d * Whole) \div w
  <1>6. x \in Int /\ w * x <= d * Whole /\ d * Whole < w * (x + 1)
    <2> DEFINE y == d * Whole
    <2>1. y \in Int
      BY <1>5
    <2> HIDE DEF y
    <2>2. y \div w \in Int /\ w * (y \div w) <= y /\ y < w * ((y \div w) + 1)
      BY <1>2, <2>1, Rounding DEF RoundDown
    <2>3. QED
      BY <2>2 DEF y
  <1> HIDE DEF x
  <1>7. x <= d * q /\ d * q < x + 1
    BY <1>2, <1>5, <1>6, Cancelled
  <1>8. x = d * q
    BY <1>5, <1>6, <1>7
  <1>9. f <= r.max => x <= Whole
    <2>1. ASSUME d <= w PROVE x <= Whole
      <3>1. q * d <= q * w
        BY <1>2, <2>1, Monotone
      <3>2. q * d = d * q /\ q * w = w * q
        BY <1>2
      <3>3. QED
        BY <1>1, <1>8, <3>1, <3>2
    <2>2. QED
      BY <1>3, <2>1
  <1>10. r.min < f => x >= 10
    <2>1. ASSUME 1 <= d PROVE x >= 10
      <3>1. q * 1 <= q * d
        BY <1>2, <2>1, Monotone
      <3>2. q * d = d * q /\ q * 1 = q
        BY <1>2
      <3>3. d * q \in Nat
        BY <1>5
      <3>4. QED
        BY <1>1, <1>8, <3>1, <3>2, <3>3
    <2>2. QED
      BY <1>3, <2>1
  <1>11. QED
    BY <1>4, <1>5, <1>8, <1>9, <1>10 DEF w, d, x

LEMMA WearIs ==
  ASSUME NEW num \in Nat, NEW den \in Nat \ {0}
  PROVE  /\ Wear(num, den) \in 1..5 /\ BandLow[Wear(num, den)] * den <= num
         /\ num < BandHigh[Wear(num, den)] * den \/ Wear(num, den) = 5
  <1> DEFINE Is(w) == BandLow[w] * den <= num /\ (num < BandHigh[w] * den \/ w = 5)
  <1>1. /\ BandLow[1] = 0 /\ BandLow[2] = 7 /\ BandLow[3] = 15 /\ BandLow[4] = 38 /\ BandLow[5] = 45
        /\ BandHigh[1] = 7 /\ BandHigh[2] = 15 /\ BandHigh[3] = 38 /\ BandHigh[4] = 45
    BY DEF BandLow, BandHigh
  <1>2. \E w \in 1..5 : Is(w)
    <2>1. CASE num < 7 * den
      <3>1. Is(1)
        BY <1>1, <2>1
      <3>2. QED
        BY <3>1
    <2>2. CASE 7 * den <= num /\ num < 15 * den
      <3>1. Is(2)
        BY <1>1, <2>2
      <3>2. QED
        BY <3>1
    <2>3. CASE 15 * den <= num /\ num < 38 * den
      <3>1. Is(3)
        BY <1>1, <2>3
      <3>2. QED
        BY <3>1
    <2>4. CASE 38 * den <= num /\ num < 45 * den
      <3>1. Is(4)
        BY <1>1, <2>4
      <3>2. QED
        BY <3>1
    <2>5. CASE 45 * den <= num
      <3>1. Is(5)
        BY <1>1, <2>5
      <3>2. QED
        BY <3>1
    <2>6. QED
      BY <2>1, <2>2, <2>3, <2>4, <2>5
  <1>3. Wear(num, den) = CHOOSE w \in 1..5 : Is(w)
    BY DEF Wear, Wears
  <1> HIDE DEF Is
  <1>4. Wear(num, den) \in 1..5 /\ Is(Wear(num, den))
    BY <1>2, <1>3
  <1>5. QED
    BY <1>4 DEF Is

(* Below the next band, the band is no worse. *)
LEMMA WearBounded ==
  ASSUME NEW num \in Nat, NEW den \in Nat \ {0}, NEW w \in 1..4, num < BandHigh[w] * den
  PROVE  Wear(num, den) <= w
  <1> DEFINE v == Wear(num, den)
  <1>1. v \in 1..5 /\ BandLow[v] * den <= num
    BY WearIs
  <1> HIDE DEF v
  <1>2. /\ BandLow[1] = 0 /\ BandLow[2] = 7 /\ BandLow[3] = 15 /\ BandLow[4] = 38 /\ BandLow[5] = 45
        /\ BandHigh[1] = 7 /\ BandHigh[2] = 15 /\ BandHigh[3] = 38 /\ BandHigh[4] = 45
    BY DEF BandLow, BandHigh
  <1>3. BandHigh[w] \in Int /\ BandLow[v] \in Int /\ BandHigh[w] * den \in Int
    BY <1>1, <1>2
  <1>4. BandLow[v] < BandHigh[w]
    <2>1. SUFFICES ASSUME BandHigh[w] <= BandLow[v] PROVE FALSE
      BY <1>3
    <2>2. den * BandHigh[w] <= den * BandLow[v]
      BY <1>3, <2>1, Monotone
    <2>3. den * BandHigh[w] = BandHigh[w] * den /\ den * BandLow[v] = BandLow[v] * den
      BY <1>3
    <2>4. BandLow[v] * den \in Int
      BY <1>3
    <2>5. QED
      BY <1>1, <1>3, <2>2, <2>3, <2>4
  <1>5. v <= w
    BY <1>1, <1>2, <1>4
  <1>6. QED
    BY <1>5 DEF v

LEMMA BreakpointsAre ==
  ASSUME NEW R \in SUBSET Ranges
  PROVE  Breakpoints(R) \in SUBSET (1..Whole) /\ \A z \in Breakpoints(R) : z >= 10
  <1> SUFFICES ASSUME NEW z \in Breakpoints(R)
               PROVE  z \in 1..Whole /\ z >= 10
    OBVIOUS
  <1>1. 0 < z /\ z <= Whole /\ \E r \in R : z \in Crossings(r)
    BY DEF Breakpoints
  <1>2. PICK r \in R : z \in Crossings(r)
    BY <1>1
  <1>3. PICK v \in Wears : r.min < BandLow[v] /\ BandLow[v] <= r.max /\ z = Normalized(BandLow[v], r)
    BY <1>2 DEF Crossings
  <1>4. BandLow[v] \in Int /\ r.min \in Int /\ r \in Ranges
    <2>1. \A u \in Wears : BandLow[u] \in Int
      BY DEF Wears, BandLow
    <2>2. QED
      BY <2>1, WidthIs
  <1>5. z \in Nat /\ z >= 10
    BY <1>3, <1>4, NormalizedIs
  <1>6. QED
    BY <1>1, <1>5 DEF Whole

LEMMA BudgetsAre ==
  ASSUME NEW R \in SUBSET Ranges
  PROVE  /\ Budgets(R) \in SUBSET Nat /\ Budgets(R) \in SUBSET Int /\ IsFiniteSet(Budgets(R))
         /\ Whole \in Budgets(R) /\ \A b \in Budgets(R) : b <= Whole
         /\ \A z \in Breakpoints(R) : z - EPSILON \in Budgets(R)
  <1>1. Breakpoints(R) \in SUBSET (1..Whole) /\ \A z \in Breakpoints(R) : z >= 10
    BY BreakpointsAre
  <1>2. Budgets(R) = {z \in {b - EPSILON : b \in Breakpoints(R)} : z > 0} \cup {Whole}
    BY DEF Budgets
  <1>3. Budgets(R) \in SUBSET (0..Whole)
    <2> SUFFICES ASSUME NEW z \in Budgets(R) PROVE z \in 0..Whole
      OBVIOUS
    <2>1. z = Whole \/ \E b \in 1..Whole : z = b - 1 /\ z > 0
      BY <1>1, <1>2 DEF EPSILON
    <2>2. QED
      BY <2>1 DEF Whole
  <1>4. IsFiniteSet(Budgets(R))
    <2>1. IsFiniteSet(0..Whole)
      <3>1. 0 \in Int /\ Whole \in Int
        BY DEF Whole
      <3>2. QED
        BY <3>1, FS_Interval
    <2>2. QED
      BY <1>3, <2>1, FS_Subset
  <1>5. \A b \in Budgets(R) : b \in Nat /\ b <= Whole
    BY <1>3 DEF Whole
  <1>6. Whole \in Budgets(R)
    BY <1>2
  <1>7. ASSUME NEW z \in Breakpoints(R) PROVE z - EPSILON \in Budgets(R)
    <2>1. z \in 1..Whole /\ z >= 10
      BY <1>1
    <2>2. z - EPSILON > 0
      BY <2>1 DEF EPSILON, Whole
    <2>3. QED
      BY <1>2, <2>2
  <1>8. QED
    BY <1>4, <1>5, <1>6, <1>7

(* A total that stays below every breakpoint that another is below makes    *)
(* outputs in as good a band. *)
LEMMA NoWorse ==
  ASSUME NEW R \in SUBSET Ranges, NEW r \in R, NEW n \in Nat \ {0}, NEW T \in Nat, NEW t \in Nat,
         t <= Whole * n, \A z \in Breakpoints(R) : T < z * n => t < z * n
  PROVE  OutputWear(t, n, r) <= OutputWear(T, n, r)
  <1> DEFINE w == Width(r)
             a == r.min
             N == n * Whole
             low == a * n * Whole
  <1>1. /\ w \in Nat \ {0} /\ a \in Nat /\ r.max \in Nat /\ w = r.max - a /\ r \in Ranges
    BY WidthIs
  <1>2. N \in Nat \ {0}
    BY DEF Whole
  <1> HIDE DEF w, a
  <1>3. low \in Nat /\ low = a * N
    BY <1>1 DEF Whole
  <1>4. T * w \in Nat /\ t * w \in Nat
    BY <1>1, Product
  <1>5. /\ OutputWear(t, n, r) = Wear(low + t * w, N)
        /\ OutputWear(T, n, r) = Wear(low + T * w, N)
    BY DEF OutputWear, OutputFloat, w, a
  <1> DEFINE num == low + T * w
             v == Wear(num, N)
  <1>6. num \in Nat /\ low + t * w \in Nat
    BY <1>3, <1>4
  <1> HIDE DEF N, low
  <1>7. v \in 1..5 /\ (num < BandHigh[v] * N \/ v = 5)
    <2> HIDE DEF num
    <2>1. QED
      BY <1>2, <1>6, WearIs
  <1>8. Wear(low + t * w, N) \in 1..5
    BY <1>2, <1>6, WearIs
  <1>9. CASE v = 5
    BY <1>5, <1>8, <1>9
  <1>10. CASE v # 5
    <2> DEFINE b == BandHigh[v]
               D == b - a
    <2>1. v \in 1..4 /\ num < b * N
      BY <1>7, <1>10
    <2> HIDE DEF v
    <2>2. b \in Nat /\ v + 1 \in Wears /\ BandLow[v + 1] = b
      BY <2>1 DEF BandHigh, BandLow, Wears
    <2> HIDE DEF b
    <2>3. b * N = low + D * N /\ D \in Int /\ D * N \in Int
      <3>1. D \in Int /\ b = a + D
        BY <1>1, <2>2
      <3> HIDE DEF D
      <3>2. (a + D) * N = a * N + D * N
        BY <1>1, <1>2, <3>1
      <3>3. QED
        BY <1>2, <1>3, <3>1, <3>2
    <2>4. T * w < D * N
      BY <1>3, <1>4, <2>1, <2>3
    <2>5. D > 0
      <3>1. SUFFICES ASSUME D <= 0 PROVE FALSE
        BY <2>3
      <3>2. N * D <= N * 0
        BY <1>2, <2>3, <3>1, Monotone
      <3>3. N * D = D * N /\ N * 0 = 0
        BY <1>2, <2>3
      <3>4. QED
        BY <1>4, <2>3, <2>4, <3>2, <3>3
    <2>6. t * w < D * N
      <3>1. CASE b <= r.max
        <4> DEFINE z == Normalized(b, r)
        <4>1. z \in Nat /\ w * z = D * Whole /\ z <= Whole /\ z >= 10
          BY <1>1, <2>2, <2>5, <3>1, NormalizedIs DEF w, a
        <4>2. z \in Breakpoints(R)
          <5>1. r.min < BandLow[v + 1] /\ BandLow[v + 1] <= r.max
            BY <1>1, <2>2, <2>5, <3>1 DEF a
          <5>2. z \in Crossings(r)
            BY <2>2, <5>1 DEF Crossings
          <5>3. 0 < z /\ z <= Whole
            BY <4>1
          <5>4. QED
            BY <5>2, <5>3 DEF Breakpoints
        <4> HIDE DEF z
        <4>3. w * (z * n) = D * N /\ z * n \in Nat
          <5>1. w * (z * n) = (w * z) * n
            BY <1>1, <4>1
          <5>2. (D * Whole) * n = D * N
            BY <2>3 DEF N, Whole
          <5>3. QED
            BY <4>1, <5>1, <5>2, Product
        <4>4. w * T = T * w /\ w * t = t * w
          BY <1>1
        <4>5. T < z * n
          <5>1. w * T < w * (z * n)
            BY <2>4, <4>3, <4>4
          <5>2. QED
            BY <1>1, <4>3, <5>1, Cancelled
        <4>6. t < z * n
          BY <4>2, <4>5
        <4>7. w * t < w * (z * n)
          BY <1>1, <4>3, <4>6, Cancelled
        <4>8. QED
          BY <4>3, <4>4, <4>7
      <3>2. CASE r.max < b
        <4>1. w < D
          BY <1>1, <2>2, <3>2
        <4>2. t <= N
          BY DEF N, Whole
        <4>3. w * t <= w * N /\ w * N \in Int /\ w * t \in Int
          BY <1>1, <1>2, <4>2, Cancelled
        <4>4. N * w < N * D
          BY <1>1, <1>2, <2>3, <4>1, Cancelled
        <4>5. w * N = N * w /\ N * D = D * N /\ w * t = t * w
          BY <1>1, <1>2, <2>3
        <4>6. QED
          BY <2>3, <4>3, <4>4, <4>5
      <3>3. QED
        BY <1>1, <2>2, <3>1, <3>2
    <2>7. low + t * w < b * N
      BY <1>3, <1>4, <2>3, <2>6
    <2>8. Wear(low + t * w, N) <= v
      BY <1>2, <1>6, <2>1, <2>7, WearBounded DEF b
    <2>9. QED
      BY <1>5, <2>8 DEF v
  <1>11. QED
    BY <1>9, <1>10

-----------------------------------------------------------------------------
(* What a scan searches.                                                   *)

(* The listings of the scan are offers of its venue. *)
Venue == {market[j] : j \in DOMAIN market}
FromVenue(rows) == rows \in Seq(Venue)
Ready == market \in Markets /\ FromVenue(scan.listings)

LEMMA VenueOffers ==
  ASSUME market \in Markets
  PROVE  /\ Venue \in SUBSET Offer /\ market \in Seq(Venue)
         /\ \A rows : FromVenue(rows) => rows \in Seq(Offer)
  <1>1. Venue \in SUBSET Offer
    BY DEF Venue, Offer
  <1>2. market \in Seq(Venue)
    <2>1. market \in Seq(Offer)
      BY PageAssumption
    <2>2. market = [k \in 1..Len(market) |-> market[k]] /\ Len(market) \in Nat
      BY <2>1
    <2>3. \A k \in 1..Len(market) : market[k] \in Venue
      BY <2>2 DEF Venue
    <2>4. QED
      BY <2>2, <2>3
  <1>3. ASSUME NEW rows, FromVenue(rows)
        PROVE  rows \in Seq(Offer)
    <2>1. rows = [k \in 1..Len(rows) |-> rows[k]] /\ Len(rows) \in Nat
            /\ \A k \in 1..Len(rows) : rows[k] \in Venue
      BY <1>3 DEF FromVenue
    <2>2. QED
      BY <1>1, <2>1
  <1>4. QED
    BY <1>1, <1>2, <1>3

Goods == {k \in DOMAIN scan.listings : scan.listings[k].fit = "good"}

IsGood(k) ==
  /\ scan.listings[k] \in Usable /\ scan.listings[k] \in Offer
  /\ Item(k) \in ItemType /\ Item(k).nth = k /\ Item(k).id = scan.listings[k].id
  /\ Item(k).z = FloatOf(scan.listings[k]) /\ Item(k).cost = scan.listings[k].cost
  /\ Item(k).z <= Whole
  /\ Home[scan.listings[k].skin] \in DOMAIN Pool

LEMMA GoodsAre ==
  ASSUME Ready
  PROVE  /\ IsFiniteSet(Goods) /\ Goods \in SUBSET Nat /\ \A k \in Goods : IsGood(k)
         /\ \A j, k \in DOMAIN scan.listings :
              scan.listings[j].id = scan.listings[k].id => scan.listings[j] = scan.listings[k]
  <1>1. /\ market \in Markets /\ scan.listings \in Seq(Offer)
        /\ \A k \in DOMAIN scan.listings : scan.listings[k] \in {market[j] : j \in DOMAIN market}
    <2>1. scan.listings \in Seq(Venue) /\ scan.listings \in Seq(Offer)
      BY VenueOffers DEF Ready, FromVenue
    <2>2. \A k \in DOMAIN scan.listings : scan.listings[k] \in Venue
      BY <2>1
    <2>3. QED
      BY <2>1, <2>2 DEF Ready, Venue
  <1>2. DOMAIN scan.listings = 1..Len(scan.listings) /\ Len(scan.listings) \in Nat
    BY <1>1
  <1>3. IsFiniteSet(Goods) /\ Goods \in SUBSET Nat
    <2>1. IsFiniteSet(1..Len(scan.listings))
      <3>1. 1 \in Int /\ Len(scan.listings) \in Int
        BY <1>2
      <3>2. QED
        BY <3>1, FS_Interval
    <2>2. Goods \in SUBSET (1..Len(scan.listings))
      BY <1>2 DEF Goods
    <2>3. QED
      BY <1>2, <2>1, <2>2, FS_Subset
  <1>4. ASSUME NEW k \in Goods PROVE IsGood(k)
    <2> DEFINE row == scan.listings[k]
               r == InputRange[row.skin]
    <2>1. k \in DOMAIN scan.listings /\ row.fit = "good" /\ row \in Offer /\ k \in Nat
      BY <1>1, <1>3 DEF Goods
    <2>2. row \in Usable
      BY <2>1 DEF Usable
    <2> HIDE DEF row
    <2>3. /\ IsItem(row) /\ Home[row.skin] \in DOMAIN Pool /\ r \in Ranges
      BY <2>1, ScanAssumption
    <2>4. /\ row.id \in Nat /\ row.cost \in Nat /\ row.float \in Nat
          /\ r.min <= row.float /\ row.float <= r.max
      BY <2>3 DEF IsItem, InRange
    <2> HIDE DEF r
    <2>5. Normalized(row.float, r) \in Nat /\ Normalized(row.float, r) <= Whole
      <3>1. row.float \in Int
        BY <2>4
      <3>2. QED
        BY <2>3, <2>4, <3>1, NormalizedIs
    <2>6. FloatOf(row) \in Nat /\ FloatOf(row) <= Whole
      BY <2>5 DEF FloatOf, r
    <2>7. Item(k) = [id |-> row.id, nth |-> k, cost |-> row.cost, z |-> FloatOf(row)]
      BY DEF Item, row
    <2>8. /\ Item(k) \in ItemType /\ Item(k).nth = k /\ Item(k).id = row.id
          /\ Item(k).z = FloatOf(row) /\ Item(k).cost = row.cost
      BY <2>1, <2>4, <2>6, <2>7 DEF ItemType
    <2>9. QED
      BY <2>1, <2>2, <2>3, <2>6, <2>8 DEF IsGood, row
  <1>5. ASSUME NEW j \in DOMAIN scan.listings, NEW k \in DOMAIN scan.listings,
               scan.listings[j].id = scan.listings[k].id
        PROVE  scan.listings[j] = scan.listings[k]
    <2>1. PICK u \in DOMAIN market : scan.listings[j] = market[u]
      BY <1>1
    <2>2. PICK v \in DOMAIN market : scan.listings[k] = market[v]
      BY <1>1
    <2>3. u = v
      BY <1>1, <1>5, <2>1, <2>2, PageAssumption
    <2>4. QED
      BY <2>1, <2>2, <2>3
  <1>6. QED
    BY <1>3, <1>4, <1>5

HomeOf(k) == Home[scan.listings[k].skin]

LEMMA ItemsAre ==
  ASSUME Ready
  PROVE  /\ DOMAIN Items = DOMAIN Pool
         /\ \A c \in DOMAIN Pool : Items[c] = {Item(k) : k \in {j \in Goods : HomeOf(j) = c}}
         /\ \A j, k \in Goods : Item(j) = Item(k) => j = k
         /\ AreStocks(Items, DOMAIN Pool)
  <1>1. /\ DOMAIN Items = DOMAIN Pool
        /\ \A c \in DOMAIN Pool : Items[c] = {Item(k) : k \in {j \in Goods : HomeOf(j) = c}}
    <2>1. \A c : {i \in DOMAIN scan.listings : /\ scan.listings[i].fit = "good"
                                               /\ Home[scan.listings[i].skin] = c}
                   = {j \in Goods : HomeOf(j) = c}
      BY DEF Goods, HomeOf
    <2>2. Items = [c \in DOMAIN Pool |->
             {Item(k) : k \in {i \in DOMAIN scan.listings : /\ scan.listings[i].fit = "good"
                                                         /\ Home[scan.listings[i].skin] = c}}]
      BY DEF Items
    <2>3. QED
      BY <2>1, <2>2
  <1>2. \A j, k \in Goods : Item(j) = Item(k) => j = k
    BY GoodsAre DEF IsGood
  <1>3. \A c \in DOMAIN Pool : Items[c] \in SUBSET ItemType /\ IsFiniteSet(Items[c])
    <2> SUFFICES ASSUME NEW c \in DOMAIN Pool
                 PROVE  Items[c] \in SUBSET ItemType /\ IsFiniteSet(Items[c])
      OBVIOUS
    <2> DEFINE G == {j \in Goods : HomeOf(j) = c}
               f == [k \in G |-> Item(k)]
    <2>1. IsFiniteSet(G)
      BY GoodsAre, FS_Subset
    <2>2. Items[c] = {f[k] : k \in G}
      BY <1>1
    <2>3. IsFiniteSet({f[k] : k \in G})
      <3> HIDE DEF f, G
      <3>1. QED
        BY <2>1, ImageFinite
    <2>4. \A k \in G : Item(k) \in ItemType
      BY GoodsAre DEF IsGood
    <2>5. Items[c] \in SUBSET ItemType
      BY <1>1, <2>4
    <2>6. QED
      BY <2>2, <2>3, <2>5
  <1>4. ASSUME NEW c \in DOMAIN Pool, NEW d \in DOMAIN Pool, c # d
        PROVE  Items[c] \cap Items[d] = {}
    <2> SUFFICES ASSUME NEW i \in Items[c], i \in Items[d] PROVE FALSE
      OBVIOUS
    <2>1. PICK j \in Goods : HomeOf(j) = c /\ i = Item(j)
      BY <1>1
    <2>2. PICK k \in Goods : HomeOf(k) = d /\ i = Item(k)
      BY <1>1
    <2>3. QED
      BY <1>2, <1>4, <2>1, <2>2
  <1>5. DOMAIN Pool \subseteq Nat /\ IsFiniteSet(DOMAIN Pool)
    BY ScanAssumption
  <1>6. AreStocks(Items, DOMAIN Pool)
    BY <1>3, <1>4, <1>5 DEF AreStocks
  <1>7. QED
    BY <1>1, <1>2, <1>6

LEMMA FewerStocks ==
  ASSUME NEW items, NEW D, AreStocks(items, D), NEW C \in SUBSET D
  PROVE  AreStocks(items, C)
  BY FS_Subset DEF AreStocks

(* The shapes of the scan. *)
Available == [c \in DOMAIN Pool |-> Cardinality(Items[c])]

AreShapes ==
  /\ Len(Shapes) \in Nat /\ DOMAIN Shapes = 1..Len(Shapes)
  /\ \A k \in DOMAIN Shapes : /\ IsShape(Shapes[k])
                              /\ IsComposition(Shapes[k], Available, InputCount, MaxDistinct, MinPerCollection)
  /\ \A a : IsComposition(a, Available, InputCount, MaxDistinct, MinPerCollection) =>
       \E k \in DOMAIN Shapes : Shapes[k] = a

LEMMA ShapesAre ==
  ASSUME Ready
  PROVE  AreShapes
  <1> DEFINE T == Compositions(Available, InputCount, MaxDistinct, MinPerCollection)
  <1>1. /\ DOMAIN Available \in SUBSET Nat /\ IsFiniteSet(DOMAIN Available)
        /\ \A c \in DOMAIN Available : Available[c] \in Nat
    BY ItemsAre, FS_CardinalityType DEF Available, AreStocks
  <1>2. InputCount \in Nat \ {0} /\ MaxDistinct \in Nat /\ MinPerCollection \in Nat \ {0}
    BY ScanAssumption
  <1>3. /\ \A a \in T : IsShape(a) /\ IsComposition(a, Available, InputCount, MaxDistinct, MinPerCollection)
        /\ \A a : IsComposition(a, Available, InputCount, MaxDistinct, MinPerCollection) => a \in T
        /\ IsFiniteSet(T)
    <2> HIDE DEF T
    <2>1. T = Compositions(Available, InputCount, MaxDistinct, MinPerCollection)
      BY DEF T
    <2>2. QED
      BY <1>1, <1>2, <2>1, CompositionsAre
  <1>4. Shapes = InOrder(T, ShapeOrder)
    BY DEF Shapes, Available
  <1> HIDE DEF T
  <1>5. Lists(Shapes, T) /\ Len(Shapes) = Cardinality(T)
    BY <1>3, <1>4, ShapesListed
  <1>6. QED
    BY <1>3, <1>5 DEF Lists, AreShapes

(* The budgets of a shape: the loosest is no constraint, and when none is   *)
(* left out every one of its outputs' is there.                             *)
RangesOf(counts) == {OutputRange[y] : y \in Outputs(counts)}

AreBudgets(counts) ==
  /\ RangesOf(counts) \in SUBSET Ranges
  /\ BudgetsFor(counts) \in Seq(Nat) /\ Len(BudgetsFor(counts)) \in Nat
  /\ DOMAIN BudgetsFor(counts) = 1..Len(BudgetsFor(counts))
  /\ Outputs(counts) # {} /\ BudgetsFor(counts) # << >> =>
       BudgetsFor(counts)[Len(BudgetsFor(counts))] = Whole
  /\ Outputs(counts) = {} => BudgetsFor(counts) = << >>
  /\ Outputs(counts) # {} => BudgetsFor(counts) # << >>
  /\ Outputs(counts) # {} /\ Len(BudgetsFor(counts)) = Cardinality(Budgets(RangesOf(counts))) =>
       \A b \in Budgets(RangesOf(counts)) :
         \E k \in DOMAIN BudgetsFor(counts) : BudgetsFor(counts)[k] = b

LEMMA BudgetsForAre ==
  ASSUME NEW counts, DOMAIN counts \in SUBSET DOMAIN Pool
  PROVE  AreBudgets(counts)
  <1> DEFINE R == RangesOf(counts)
             s == IF R = {} THEN << >> ELSE InOrder(Budgets(R), LAMBDA y, z : y < z)
             m == Len(s)
             first == IF m > MaxBudgets THEN m - MaxBudgets + 1 ELSE 1
  <1>1. R \in SUBSET Ranges /\ (R = {} <=> Outputs(counts) = {})
    BY ScanAssumption DEF RangesOf, Outputs
  <1>2. BudgetsFor(counts) = SubSeq(s, first, m)
    BY DEF BudgetsFor, RangesOf
  <1>3. CASE R = {}
    <2>1. s = << >>
      BY <1>3
    <2> HIDE DEF s
    <2>2. MaxBudgets \in Nat \ {0} /\ m = 0
      BY <2>1, ScanAssumption
    <2>3. first = 1
      BY <2>2
    <2>4. BudgetsFor(counts) = << >>
      BY <1>2, <2>1, <2>2, <2>3
    <2>5. BudgetsFor(counts) \in Seq(Nat) /\ Len(BudgetsFor(counts)) = 0 /\ DOMAIN BudgetsFor(counts) = 1..0
      BY <2>4
    <2> HIDE DEF R
    <2>6. QED
      BY <1>1, <1>3, <2>4, <2>5 DEF AreBudgets, R
  <1>4. CASE R # {}
    <2> DEFINE B == Budgets(R)
    <2>1. /\ B \in SUBSET Nat /\ B \in SUBSET Int /\ IsFiniteSet(B)
          /\ Whole \in B /\ \A b \in B : b <= Whole
      BY <1>1, BudgetsAre
    <2>2. s = InOrder(B, LAMBDA y, z : y < z)
      BY <1>4
    <2> HIDE DEF B, s
    <2>3. Ascends(InOrder(B, LAMBDA y, z : y < z), B)
      BY <2>1, NumbersAscend
    <2>4. Ascends(s, B)
      BY <2>2, <2>3
    <2>5. /\ s \in Seq(B) /\ m = Cardinality(B) /\ m \in Nat /\ DOMAIN s = 1..m
          /\ \A x \in B : \E k \in 1..m : s[k] = x
          /\ \A i, k \in 1..m : i < k => s[i] < s[k]
      BY <2>4 DEF Ascends
    <2>6. m >= 1 /\ s[m] = Whole
      <3>1. PICK k \in 1..m : s[k] = Whole
        BY <2>1, <2>5
      <3>2. m \in 1..m /\ s[m] \in B
        BY <2>5, <3>1
      <3>3. s[m] <= Whole /\ s[m] \in Int /\ s[k] \in Int
        BY <2>1, <3>1, <3>2
      <3>4. k = m
        <4>1. CASE k < m
          <5>1. s[k] < s[m]
            BY <2>5, <3>2, <4>1
          <5>2. QED
            BY <3>1, <3>3, <5>1 DEF Whole
        <4>2. QED
          BY <2>5, <4>1
      <3>5. QED
        BY <3>1, <3>4
    <2> HIDE DEF m
    <2>7. first \in 1..m /\ first \in Nat
      BY <2>5, <2>6, ScanAssumption
    <2> HIDE DEF first
    <2> DEFINE t == SubSeq(s, first, m)
    <2>8. /\ t \in Seq(B) /\ Len(t) = m - first + 1 /\ DOMAIN t = 1..Len(t)
          /\ \A k \in 1..(m - first + 1) : t[k] = s[first + k - 1]
      BY <2>5, <2>7 DEF m
    <2>9. BudgetsFor(counts) = t
      BY <1>2 DEF m
    <2> HIDE DEF t
    <2>10. /\ t \in Seq(Nat) /\ Len(t) \in Nat /\ t # << >> /\ t[Len(t)] = Whole
      <3>1. t \in Seq(Nat)
        <4>1. ASSUME NEW k \in 1..Len(t)
              PROVE  t[k] \in Nat
          <5>1. t \in Seq(B) /\ DOMAIN t = 1..Len(t)
            BY <2>8
          <5>2. t[k] \in B
            BY <5>1
          <5>3. QED
            BY <2>1, <5>2
        <4>2. t = [k \in 1..Len(t) |-> t[k]] /\ Len(t) \in Nat
          BY <2>8
        <4>3. QED
          BY <4>1, <4>2
      <3>2. Len(t) \in Nat /\ Len(t) >= 1 /\ Len(t) \in 1..(m - first + 1) /\ first + Len(t) - 1 = m
        BY <2>5, <2>7, <2>8
      <3>3. t[Len(t)] = Whole
        BY <2>6, <2>8, <3>2
      <3>4. QED
        BY <3>1, <3>2, <3>3
    <2>11. Len(t) = Cardinality(B) => \A b \in B : \E k \in DOMAIN t : t[k] = b
      <3> SUFFICES ASSUME Len(t) = Cardinality(B), NEW b \in B
                   PROVE  \E k \in DOMAIN t : t[k] = b
        OBVIOUS
      <3>1. first = 1
        BY <2>5, <2>7, <2>8
      <3>2. PICK k \in 1..m : s[k] = b
        BY <2>5
      <3>3. k \in 1..(m - first + 1) /\ first + k - 1 = k /\ k \in DOMAIN t
        BY <2>5, <2>8, <3>1
      <3>4. t[k] = b
        BY <2>8, <3>2, <3>3
      <3>5. QED
        BY <3>3, <3>4
    <2>12. Outputs(counts) # {}
      BY <1>1, <1>4
    <2> HIDE DEF R
    <2>13. QED
      BY <1>1, <2>8, <2>9, <2>10, <2>11, <2>12 DEF AreBudgets, R, B
  <1>5. QED
    BY <1>3, <1>4

-----------------------------------------------------------------------------
(* What the search has solved so far.                                      *)
Solved(counts, average, p) ==
  [counts |-> counts, average |-> average, chosen |-> p.chosen, total |-> p.total, cost |-> p.cost]

SolvedAt(shapes, items, limit, k, b) == Solve(shapes[k], items, BudgetsFor(shapes[k])[b], limit)

IsAnswer(s, shapes, items, limit) ==
  \E k \in DOMAIN shapes : \E b \in DOMAIN BudgetsFor(shapes[k]) :
    \E p \in SolvedAt(shapes, items, limit, k, b) : s = Solved(shapes[k], BudgetsFor(shapes[k])[b], p)

IsAnswered(solved, shapes, items, limit, k, b) ==
  SolvedAt(shapes, items, limit, k, b) # {} =>
    \E p \in SolvedAt(shapes, items, limit, k, b) : Solved(shapes[k], BudgetsFor(shapes[k])[b], p) \in solved

(* Every shape before comp, and comp's budgets before budget, were solved.  *)
IsSearch(solved, comp, budget, shapes, items, limit) ==
  /\ comp \in Nat \ {0} /\ budget \in Nat \ {0}
  /\ budget = 1 \/ (comp \in DOMAIN shapes => budget \in DOMAIN BudgetsFor(shapes[comp]))
  /\ \A s \in solved : IsAnswer(s, shapes, items, limit)
  /\ \A k \in DOMAIN shapes : \A b \in DOMAIN BudgetsFor(shapes[k]) :
       k < comp \/ (k = comp /\ b < budget) => IsAnswered(solved, shapes, items, limit, k, b)

LEMMA SearchStarts ==
  ASSUME NEW shapes, DOMAIN shapes \in SUBSET (Nat \ {0}),
         \A k \in DOMAIN shapes : DOMAIN BudgetsFor(shapes[k]) \in SUBSET (Nat \ {0}),
         NEW items, NEW limit
  PROVE  IsSearch({}, 1, 1, shapes, items, limit)
  <1>1. \A k \in DOMAIN shapes : \A b \in DOMAIN BudgetsFor(shapes[k]) : ~(k < 1 \/ (k = 1 /\ b < 1))
    <2> TAKE k \in DOMAIN shapes
    <2> TAKE b \in DOMAIN BudgetsFor(shapes[k])
    <2>1. k \in Nat \ {0} /\ b \in Nat \ {0}
      OBVIOUS
    <2>2. QED
      BY <2>1
  <1>2. QED
    BY <1>1 DEF IsSearch

(* Each shape has its budgets. *)
HaveBudgets(shapes) ==
  /\ DOMAIN shapes \in SUBSET (Nat \ {0})
  /\ \A k \in DOMAIN shapes :
       /\ BudgetsFor(shapes[k]) \in Seq(Nat) /\ Len(BudgetsFor(shapes[k])) \in Nat
       /\ DOMAIN BudgetsFor(shapes[k]) = 1..Len(BudgetsFor(shapes[k]))

(* A budget is solved, or has no solution, and the search goes on with the  *)
(* next one. *)
GoesOn(solved, comp, budget, more, c, d, shapes, items, limit) ==
  LET budgets == BudgetsFor(shapes[comp])
      found == IF budgets = << >> THEN {} ELSE Solve(shapes[comp], items, budgets[budget], limit)
  IN /\ IF budget < Len(budgets) THEN c = comp /\ d = budget + 1 ELSE c = comp + 1 /\ d = 1
     /\ \/ found = {} /\ more = solved
        \/ \E p \in found : more = solved \cup {Solved(shapes[comp], budgets[budget], p)}

LEMMA SearchGoesOn ==
  ASSUME NEW solved, NEW comp, NEW budget, NEW shapes, NEW items, NEW limit,
         IsSearch(solved, comp, budget, shapes, items, limit),
         comp \in DOMAIN shapes, HaveBudgets(shapes),
         NEW more, NEW c, NEW d, GoesOn(solved, comp, budget, more, c, d, shapes, items, limit)
  PROVE  IsSearch(more, c, d, shapes, items, limit)
  <1>a. PICK budgets : budgets = BudgetsFor(shapes[comp])
    OBVIOUS
  <1>b. PICK found : found = IF budgets = << >> THEN {} ELSE Solve(shapes[comp], items, budgets[budget], limit)
    OBVIOUS
  <1>c. /\ DOMAIN shapes \in SUBSET (Nat \ {0})
        /\ \A k \in DOMAIN shapes : DOMAIN BudgetsFor(shapes[k]) \in SUBSET (Nat \ {0})
        /\ budgets \in Seq(Nat) /\ Len(budgets) \in Nat /\ DOMAIN budgets = 1..Len(budgets)
    BY <1>a DEF HaveBudgets
  <1>d. /\ IF budget < Len(budgets) THEN c = comp /\ d = budget + 1 ELSE c = comp + 1 /\ d = 1
        /\ \/ found = {} /\ more = solved
           \/ \E p \in found : more = solved \cup {Solved(shapes[comp], budgets[budget], p)}
    BY <1>a, <1>b DEF GoesOn
  <1> USE <1>a, <1>b, <1>c, <1>d
  <1>1. /\ comp \in Nat \ {0} /\ budget \in Nat \ {0}
        /\ budget = 1 \/ budget \in DOMAIN budgets
    BY DEF IsSearch
  <1>2. /\ c \in Nat \ {0} /\ d \in Nat \ {0}
        /\ d = 1 \/ (c \in DOMAIN shapes => d \in DOMAIN BudgetsFor(shapes[c]))
    <2>1. CASE budget < Len(budgets)
      <3>1. c = comp /\ d = budget + 1 /\ d \in DOMAIN budgets
        BY <1>1, <2>1
      <3>2. QED
        BY <1>1, <3>1
    <2>2. CASE ~(budget < Len(budgets))
      BY <1>1, <2>2
    <2>3. QED
      BY <2>1, <2>2
  <1>3. solved \in SUBSET more
    OBVIOUS
  <1>4. ASSUME budget \in DOMAIN budgets
        PROVE  found = SolvedAt(shapes, items, limit, comp, budget)
    <2>1. budgets # << >>
      <3>1. Len(budgets) >= 1
        BY <1>1, <1>4
      <3>2. Len(<< >>) = 0
        OBVIOUS
      <3>3. QED
        BY <3>1, <3>2
    <2>2. QED
      BY <2>1 DEF SolvedAt
  <1>5. found # {} => budget \in DOMAIN budgets
    <2> SUFFICES ASSUME found # {}
                 PROVE  budget \in DOMAIN budgets
      OBVIOUS
    <2>1. budgets # << >>
      OBVIOUS
    <2>2. 1 \in DOMAIN budgets
      BY <2>1
    <2>3. QED
      BY <1>1, <2>2
  <1>6. \A s \in more : IsAnswer(s, shapes, items, limit)
    <2> SUFFICES ASSUME NEW s \in more, s \notin solved
                 PROVE  IsAnswer(s, shapes, items, limit)
      BY DEF IsSearch
    <2>1. PICK p \in found : s = Solved(shapes[comp], budgets[budget], p)
      OBVIOUS
    <2>2. budget \in DOMAIN budgets /\ found = SolvedAt(shapes, items, limit, comp, budget)
      BY <1>4, <1>5, <2>1
    <2>3. QED
      BY <2>1, <2>2 DEF IsAnswer
  <1>7. \A k, b : IsAnswered(solved, shapes, items, limit, k, b) => IsAnswered(more, shapes, items, limit, k, b)
    BY <1>3 DEF IsAnswered
  <1>8. budget \in DOMAIN budgets => IsAnswered(more, shapes, items, limit, comp, budget)
    BY <1>4 DEF IsAnswered
  <1>9. ASSUME NEW k \in DOMAIN shapes, NEW b \in DOMAIN BudgetsFor(shapes[k]),
               k < c \/ (k = c /\ b < d)
        PROVE  IsAnswered(more, shapes, items, limit, k, b)
    <2>1. k \in Nat \ {0} /\ b \in Nat \ {0}
      OBVIOUS
    <2>2. CASE k < comp \/ (k = comp /\ b < budget)
      <3>1. IsAnswered(solved, shapes, items, limit, k, b)
        BY <2>2 DEF IsSearch
      <3>2. QED
        BY <1>7, <3>1
    <2>3. CASE ~(k < comp \/ (k = comp /\ b < budget))
      <3>1. k = comp /\ b = budget
        <4>1. CASE budget < Len(budgets)
          BY <1>1, <1>9, <2>1, <2>3, <4>1
        <4>2. CASE ~(budget < Len(budgets))
          <5>1. c = comp + 1 /\ d = 1
            BY <4>2
          <5>2. k = comp
            BY <1>1, <1>9, <2>1, <2>3, <5>1
          <5>3. b \in 1..Len(budgets)
            BY <5>2
          <5>4. QED
            BY <1>1, <2>1, <2>3, <4>2, <5>2, <5>3
        <4>3. QED
          BY <4>1, <4>2
      <3>2. QED
        BY <1>8, <3>1
    <2>4. QED
      BY <2>2, <2>3
  <1>10. QED
    BY <1>2, <1>6, <1>9 DEF IsSearch

-----------------------------------------------------------------------------
(* The search, step by step.                                               *)
Unsearched == {"start", "fetch", "refused", "escaped", "sales", "asks", "quotes"}

FoundInv ==
  /\ market \in Markets /\ FromVenue(fetch.rows) /\ FromVenue(scan.listings)
  /\ scan.pc # "start" => scan.limit \in Nat \ {0}
  /\ scan.pc \in Unsearched => scan.solved = {} /\ scan.comp = 1 /\ scan.budget = 1
  /\ scan.pc \notin Unsearched =>
       IsSearch(scan.solved, scan.comp, scan.budget, Shapes, Items, scan.limit)

(* The same listings make the same items and shapes. *)
LEMMA ItemsStay ==
  ASSUME scan'.listings = scan.listings
  PROVE  Items' = Items /\ Shapes' = Shapes
  <1>1. Items' = Items
    BY DEF Items, Item
  <1>2. QED
    BY <1>1 DEF Shapes

LEMMA VenueStays ==
  ASSUME market' = market
  PROVE  Venue' = Venue
  BY DEF Venue

(* No search before the listings are priced. *)
LEMMA FoundBefore ==
  ASSUME FoundInv, scan.pc \in Unsearched, scan'.pc \in Unsearched, market' = market,
         fetch'.rows \in Seq(Venue), scan'.listings \in Seq(Venue),
         scan'.solved = scan.solved, scan'.comp = scan.comp, scan'.budget = scan.budget,
         scan'.pc # "start" => scan'.limit \in Nat \ {0}
  PROVE  FoundInv'
  <1>1. FromVenue(fetch.rows)' /\ FromVenue(scan.listings)'
    BY VenueStays DEF FromVenue
  <1>2. QED
    BY <1>1 DEF FoundInv

LEMMA ShapesHaveBudgets ==
  ASSUME Ready
  PROVE  /\ DOMAIN Shapes \in SUBSET (Nat \ {0})
         /\ \A k \in DOMAIN Shapes : /\ AreBudgets(Shapes[k])
                                     /\ DOMAIN BudgetsFor(Shapes[k]) \in SUBSET (Nat \ {0})
  <1>1. AreShapes
    BY ShapesAre
  <1>2. DOMAIN Shapes \in SUBSET (Nat \ {0})
    BY <1>1 DEF AreShapes
  <1>3. ASSUME NEW k \in DOMAIN Shapes
        PROVE  AreBudgets(Shapes[k]) /\ DOMAIN BudgetsFor(Shapes[k]) \in SUBSET (Nat \ {0})
    <2>1. DOMAIN Shapes[k] \in SUBSET DOMAIN Pool
      BY <1>1 DEF AreShapes, IsComposition, Available
    <2>2. AreBudgets(Shapes[k])
      BY <2>1, BudgetsForAre
    <2>3. QED
      BY <2>2 DEF AreBudgets
  <1>4. QED
    BY <1>2, <1>3

(* The search starts from nothing. *)
LEMMA FoundStarts ==
  ASSUME FoundInv, scan.pc \in {"sales", "quotes"}, scan'.pc = "loop", market' = market, fetch' = fetch,
         scan'.listings = scan.listings, scan'.limit = scan.limit,
         scan'.solved = scan.solved, scan'.comp = scan.comp, scan'.budget = scan.budget
  PROVE  FoundInv'
  <1>1. Ready /\ scan.solved = {} /\ scan.comp = 1 /\ scan.budget = 1 /\ scan.limit \in Nat \ {0}
    BY DEF FoundInv, Ready, Unsearched
  <1>2. IsSearch({}, 1, 1, Shapes, Items, scan.limit)
    BY <1>1, ShapesHaveBudgets, SearchStarts
  <1>3. Items' = Items /\ Shapes' = Shapes /\ Venue' = Venue
    BY ItemsStay, VenueStays
  <1>4. FromVenue(fetch.rows)' /\ FromVenue(scan.listings)' /\ market' \in Markets
    BY <1>3 DEF FoundInv, FromVenue
  <1>5. IsSearch(scan.solved, scan.comp, scan.budget, Shapes, Items, scan.limit)'
    BY <1>1, <1>2, <1>3
  <1>6. QED
    BY <1>1, <1>4, <1>5 DEF FoundInv, Unsearched

(* What is found stays. *)
LEMMA FoundStays ==
  ASSUME FoundInv, scan.pc \notin Unsearched, scan'.pc \notin Unsearched, market' = market, fetch' = fetch,
         scan'.listings = scan.listings, scan'.limit = scan.limit,
         IsSearch(scan'.solved, scan'.comp, scan'.budget, Shapes, Items, scan.limit)
  PROVE  FoundInv'
  <1>1. Items' = Items /\ Shapes' = Shapes /\ Venue' = Venue
    BY ItemsStay, VenueStays
  <1>2. FromVenue(fetch.rows)' /\ FromVenue(scan.listings)' /\ market' \in Markets
    BY <1>1 DEF FoundInv, FromVenue
  <1>3. IsSearch(scan.solved, scan.comp, scan.budget, Shapes, Items, scan.limit)'
    BY <1>1
  <1>4. scan'.limit \in Nat \ {0}
    BY DEF FoundInv, Unsearched
  <1>5. QED
    BY <1>2, <1>3, <1>4 DEF FoundInv

(* The rows of a page are the venue's. *)
LEMMA PageOfVenue ==
  ASSUME LiveInv, FoundInv, Wants, TakePage
  PROVE  fetch'.rows \in Seq(Venue)
  <1>1. PICK from \in Resumes, last \in BOOLEAN :
          LET offers == Offers(fetch.query)
              end == IF from + Asked < Len(offers) THEN from + Asked ELSE Len(offers)
              page == SubSeq(offers, from + 1, end)
              read == [fetch EXCEPT !.rows = @ \o Picked(page, {k \in DOMAIN page : Readable(page[k])}),
                                    !.served = @ + Len(page), !.pages = @ + 1, !.at = end]
          IN fetch' = IF last \/ page = << >> THEN Ended(read) ELSE read
    BY DEF TakePage
  <1> DEFINE offers == Offers(fetch.query)
             end == IF from + Asked < Len(offers) THEN from + Asked ELSE Len(offers)
             page == SubSeq(offers, from + 1, end)
             found == Picked(page, {k \in DOMAIN page : Readable(page[k])})
             rows == fetch.rows \o found
             served == fetch.served + Len(page)
             pages == fetch.pages + 1
             read == [fetch EXCEPT !.rows = rows, !.served = served, !.pages = pages, !.at = end]
  <1>2. fetch' \in {read, Ended(read)}
    <2>1. [fetch EXCEPT !.rows = @ \o found, !.served = @ + Len(page), !.pages = @ + 1, !.at = end] = read
      BY DEF LiveInv, FetchInv
    <2> HIDE DEF read, found, page, end
    <2>2. QED
      BY <1>1, <2>1 DEF found, page, end
  <1>3. offers \in Seq(Venue) /\ Len(offers) \in Nat
    <2>1. market \in Seq(Venue)
      BY VenueOffers DEF FoundInv
    <2>2. {k \in DOMAIN market : fetch.query = "all" \/ market[k].skin = fetch.query}
            \in SUBSET DOMAIN market
      OBVIOUS
    <2>3. offers \in Seq(Venue)
      BY <2>1, <2>2, PickedEntries DEF Offers
    <2>4. QED
      BY <2>3
  <1>4. from \in 0..Len(offers) /\ Asked \in Nat
    <2>1. fetch.limit \in Nat /\ fetch.rows \in Seq(Offer)
      BY DEF LiveInv, FetchInv
    <2>2. Len(fetch.rows) \in Nat /\ Len(fetch.rows) < fetch.limit /\ PageLimit \in Nat \ {0}
      BY <2>1, PageAssumption DEF Wants
    <2> HIDE DEF offers
    <2>3. from \in 0..Len(offers)
      BY <1>3 DEF Resumes, offers
    <2>4. QED
      BY <2>1, <2>2, <2>3 DEF Asked
  <1> HIDE DEF offers
  <1>5. end \in from..Len(offers)
    BY <1>3, <1>4
  <1> HIDE DEF end
  <1>6. page \in Seq(Venue)
    BY <1>3, <1>4, <1>5
  <1> HIDE DEF page
  <1>7. found \in Seq(Venue)
    <2>1. {k \in DOMAIN page : Readable(page[k])} \in SUBSET DOMAIN page
      OBVIOUS
    <2>2. QED
      BY <1>6, <2>1, PickedEntries
  <1> HIDE DEF found
  <1>8. rows \in Seq(Venue)
    BY <1>7 DEF FoundInv, FromVenue
  <1> HIDE DEF rows, served, pages
  <1>9. read.rows = rows /\ Ended(read).rows = rows
    <2>1. read.rows = rows /\ {"rows", "pc", "status", "served"} \subseteq DOMAIN read
      BY DEF LiveInv, FetchInv
    <2> HIDE DEF read
    <2>2. QED
      BY <2>1 DEF Ended
  <1> HIDE DEF read
  <1>10. QED
    BY <1>2, <1>8, <1>9

LEMMA FoundFetching ==
  ASSUME LiveInv, FoundInv, scan.pc = "fetch", FetchNext, scan' = scan
  PROVE  FoundInv'
  <1>1. FetchInv /\ FromVenue(fetch.rows)
    BY DEF LiveInv, FoundInv
  <1>2. fetch'.rows \in Seq(Venue) /\ market' = market
    <2>1. CASE AskPage
      BY <1>1, <2>1 DEF AskPage, FromVenue
    <2>2. CASE TakePage
      <3>1. Wants
        BY <2>2 DEF LiveInv, CallsHavePurpose, TakePage
      <3>2. market' = market
        BY <2>2 DEF TakePage
      <3>3. QED
        BY <2>2, <3>1, <3>2, PageOfVenue
    <2>3. CASE SpoiledPage \/ PageFailed
      BY <1>1, <2>3 DEF SpoiledPage, PageFailed, FetchInv, FromVenue
    <2>4. CASE LastPage
      BY <1>1, <2>4 DEF LastPage, Ended, FetchInv, FromVenue
    <2>5. QED
      BY <2>1, <2>2, <2>3, <2>4 DEF FetchNext
  <1>3. scan'.listings \in Seq(Venue)
    BY DEF FoundInv, FromVenue
  <1>4. scan.pc \in Unsearched /\ scan'.limit \in Nat \ {0}
    BY DEF Unsearched, FoundInv
  <1>5. QED
    BY <1>2, <1>3, <1>4, FoundBefore

(* Until the listings are priced. *)
LEMMA FoundGathering ==
  ASSUME LiveInv, FoundInv, Start \/ Fetching \/ Escapes \/ NextName \/ FetchRefused \/ Fetched
  PROVE  FoundInv'
  <1>0. DOMAIN scan = {"pc", "client", "limit", "targets", "listings", "wanted", "priced", "requests",
                       "evidence", "reference", "comp", "budget", "solved", "held", "cards",
                       "bundle", "verified", "alive"}
    BY DEF LiveInv, ScanShape
  <1>1. /\ fetch.rows \in Seq(Venue) /\ scan.listings \in Seq(Venue)
        /\ scan.listings \o fetch.rows \in Seq(Venue) /\ << >> \in Seq(Venue)
    BY DEF FoundInv, FromVenue
  <1>2. \A query, limit : Begun(query, limit).rows = << >> /\ NoFetch.rows = << >>
    BY DEF Begun, NoFetch
  <1>3. CASE Start
    <2>1. PICK targets \in TargetLists, limit \in PointLimits :
            /\ scan' = [scan EXCEPT !.pc = IF MaxAttempts = 0 THEN "escaped" ELSE "fetch",
                                    !.client = "open", !.limit = limit, !.targets = targets]
            /\ fetch' = IF targets = << >> THEN Begun("all", ListingLimit)
                        ELSE Begun(targets[1], PerNameLimit)
      BY <1>3 DEF Start
    <2>2. /\ scan.pc = "start" /\ market' = market /\ limit \in Nat \ {0}
      BY <1>3, ScanAssumption DEF Start
    <2>3. /\ scan'.pc \in {"fetch", "escaped"} /\ scan'.listings = scan.listings /\ scan'.limit = limit
          /\ scan'.solved = scan.solved /\ scan'.comp = scan.comp /\ scan'.budget = scan.budget
      BY <1>0, <2>1
    <2>4. fetch'.rows \in Seq(Venue)
      BY <1>1, <1>2, <2>1
    <2>5. scan.pc \in Unsearched /\ scan'.pc \in Unsearched
      BY <2>2, <2>3 DEF Unsearched
    <2>6. QED
      BY <1>1, <2>2, <2>3, <2>4, <2>5, FoundBefore
  <1>4. CASE Fetching
    BY <1>4, FoundFetching DEF Fetching
  <1>5. CASE NextName \/ FetchRefused \/ Fetched
    <2>1. /\ scan.pc = "fetch" /\ market' = market
          /\ scan'.pc \in {"fetch", "refused", "sales"} /\ scan'.limit = scan.limit
          /\ scan'.solved = scan.solved /\ scan'.comp = scan.comp /\ scan'.budget = scan.budget
          /\ scan'.listings \in {scan.listings, scan.listings \o fetch.rows}
          /\ fetch'.rows \in {<< >>, fetch.rows}
      <3>1. CASE NextName
        BY <1>0, <1>2, <3>1 DEF NextName
      <3>2. CASE FetchRefused
        BY <1>0, <3>2 DEF FetchRefused, Refused
      <3>3. CASE Fetched
        BY <1>0, <1>2, <3>3 DEF Fetched
      <3>4. QED
        BY <1>5, <3>1, <3>2, <3>3
    <2>2. scan.pc \in Unsearched /\ scan'.pc \in Unsearched /\ scan'.limit \in Nat \ {0}
      BY <2>1 DEF Unsearched, FoundInv
    <2>3. QED
      BY <1>1, <2>1, <2>2, FoundBefore
  <1>6. CASE Escapes
    <2>1. /\ scan.pc \in {"fetch", "sales", "asks", "quotes"} /\ market' = market /\ fetch' = fetch
          /\ scan' = [scan EXCEPT !.pc = "escaped"]
      BY <1>6 DEF Escapes
    <2>2. /\ scan'.pc = "escaped" /\ scan'.listings = scan.listings /\ scan'.limit = scan.limit
          /\ scan'.solved = scan.solved /\ scan'.comp = scan.comp /\ scan'.budget = scan.budget
      BY <1>0, <2>1
    <2>3. scan.pc \in Unsearched /\ scan'.pc \in Unsearched /\ scan'.limit \in Nat \ {0}
      BY <2>1, <2>2 DEF Unsearched, FoundInv
    <2>4. QED
      BY <1>1, <2>1, <2>2, <2>3, FoundBefore
  <1>7. QED
    BY <1>3, <1>4, <1>5, <1>6

LEMMA FoundPricing ==
  ASSUME LiveInv, FoundInv,
         \/ AskSales \/ TakeSales \/ SalesRefused \/ SalesDone
         \/ AskExits \/ TakeExits \/ ExitsDone \/ TakeQuotes
  PROVE  FoundInv'
  <1>0. DOMAIN scan = {"pc", "client", "limit", "targets", "listings", "wanted", "priced", "requests",
                       "evidence", "reference", "comp", "budget", "solved", "held", "cards",
                       "bundle", "verified", "alive"}
    BY DEF LiveInv, ScanShape
  <1>1. fetch.rows \in Seq(Venue) /\ scan.listings \in Seq(Venue)
    BY DEF FoundInv, FromVenue
  <1>2. /\ scan.pc \in {"sales", "asks", "quotes"} /\ market' = market /\ fetch' = fetch
        /\ scan'.pc \in {"sales", "asks", "quotes", "refused", "loop"}
        /\ scan'.pc = "loop" => scan.pc \in {"sales", "quotes"}
        /\ scan'.listings = scan.listings /\ scan'.limit = scan.limit
        /\ scan'.solved = scan.solved /\ scan'.comp = scan.comp /\ scan'.budget = scan.budget
    <2>1. CASE AskSales
      BY <2>1 DEF AskSales, AskPrices
    <2>2. CASE TakeSales
      BY <1>0, <2>2 DEF TakeSales
    <2>3. CASE SalesRefused
      BY <1>0, <2>3 DEF SalesRefused, Refused
    <2>4. CASE SalesDone
      BY <1>0, <2>4 DEF SalesDone
    <2>5. CASE AskExits
      BY <2>5 DEF AskExits, AskPrices
    <2>6. CASE TakeExits
      BY <1>0, <2>6 DEF TakeExits
    <2>7. CASE ExitsDone
      BY <1>0, <2>7 DEF ExitsDone
    <2>8. CASE TakeQuotes
      BY <1>0, <2>8 DEF TakeQuotes
    <2>9. QED
      BY <2>1, <2>2, <2>3, <2>4, <2>5, <2>6, <2>7, <2>8
  <1>3. CASE scan'.pc = "loop"
    BY <1>2, <1>3, FoundStarts
  <1>4. CASE scan'.pc # "loop"
    <2>1. scan.pc \in Unsearched /\ scan'.pc \in Unsearched /\ scan'.limit \in Nat \ {0}
      BY <1>2, <1>4 DEF Unsearched, FoundInv
    <2>2. QED
      BY <1>1, <1>2, <2>1, FoundBefore
  <1>5. QED
    BY <1>3, <1>4

(* Every budget of every shape in turn. *)
LEMMA FoundSearching ==
  ASSUME LiveInv, FoundInv, Skip \/ SkipKnown \/ RaiseOnRepeat \/ Judge
  PROVE  FoundInv'
  <1>0. DOMAIN scan = {"pc", "client", "limit", "targets", "listings", "wanted", "priced", "requests",
                       "evidence", "reference", "comp", "budget", "solved", "held", "cards",
                       "bundle", "verified", "alive"}
    BY DEF LiveInv, ScanShape
  <1>1. Searching /\ market' = market /\ fetch' = fetch
    BY DEF Skip, SkipKnown, RaiseOnRepeat, Judge
  <1>2. /\ scan.pc = "loop" /\ Ready /\ ~(scan.comp > Len(Shapes))
        /\ IsSearch(scan.solved, scan.comp, scan.budget, Shapes, Items, scan.limit)
    BY <1>1 DEF Searching, SearchDone, FoundInv, Ready, Unsearched
  <1>3. scan.comp \in Nat \ {0} /\ scan.budget \in Nat \ {0} /\ scan.comp \in DOMAIN Shapes
    <2>1. AreShapes
      BY <1>2, ShapesAre
    <2>2. scan.comp \in Nat \ {0} /\ scan.budget \in Nat \ {0}
      BY <1>2 DEF IsSearch
    <2>3. QED
      BY <1>2, <2>1, <2>2 DEF AreShapes
  <1> DEFINE budgets == BudgetsFor(Shape)
             result(b) == Solved(Shape, budgets[scan.budget], b)
  <1>4. /\ DOMAIN Passed = DOMAIN scan /\ Passed.pc = scan.pc /\ Passed.limit = scan.limit
        /\ Passed.listings = scan.listings /\ Passed.solved = scan.solved
        /\ IF scan.budget < Len(budgets) THEN Passed.comp = scan.comp /\ Passed.budget = scan.budget + 1
           ELSE Passed.comp = scan.comp + 1 /\ Passed.budget = 1
    BY <1>0 DEF Passed
  <1>5. ASSUME NEW b
        PROVE  /\ DOMAIN Remembered(b) = DOMAIN scan /\ Remembered(b).pc = scan.pc
               /\ Remembered(b).limit = scan.limit /\ Remembered(b).listings = scan.listings
               /\ Remembered(b).solved = scan.solved \cup {result(b)}
               /\ Remembered(b).comp = Passed.comp /\ Remembered(b).budget = Passed.budget
    <2>1. Remembered(b) = [Passed EXCEPT !.solved = @ \cup {result(b)}]
      BY DEF Remembered, Solved
    <2> HIDE DEF result
    <2>2. QED
      BY <1>0, <1>4, <2>1
  <1>6. /\ scan'.limit = scan.limit /\ scan'.listings = scan.listings
        /\ scan'.comp = Passed.comp /\ scan'.budget = Passed.budget
        /\ scan'.pc \in {"loop", "raised", "verify"}
        /\ \/ Solution = {} /\ scan'.solved = scan.solved
           \/ \E b \in Solution : scan'.solved = scan.solved \cup {result(b)}
    <2> HIDE DEF result, budgets
    <2>1. CASE Skip
      BY <1>2, <1>4, <2>1 DEF Skip
    <2>2. CASE SkipKnown
      <3>1. PICK b \in Solution : scan' = Remembered(b)
        BY <2>2 DEF SkipKnown
      <3>2. QED
        BY <1>2, <1>4, <1>5, <3>1
    <2>3. CASE RaiseOnRepeat
      <3>1. PICK b \in Solution : scan' = [Remembered(b) EXCEPT !.pc = "raised", !.client = "closed"]
        BY <2>3 DEF RaiseOnRepeat
      <3>2. QED
        BY <1>0, <1>2, <1>4, <1>5, <3>1
    <2>4. CASE Judge
      <3>1. PICK b \in Solution, passes \in BOOLEAN :
              scan' = IF passes THEN [Remembered(b) EXCEPT !.pc = "verify", !.bundle = b,
                                                           !.verified = << >>, !.alive = {}]
                      ELSE Remembered(b)
        BY <2>4 DEF Judge
      <3>2. CASE passes
        BY <1>0, <1>2, <1>4, <1>5, <3>1, <3>2
      <3>3. CASE ~passes
        BY <1>0, <1>2, <1>4, <1>5, <3>1, <3>3
      <3>4. QED
        BY <3>2, <3>3
    <2>5. QED
      BY <2>1, <2>2, <2>3, <2>4
  <1>7. IsSearch(scan'.solved, scan'.comp, scan'.budget, Shapes, Items, scan.limit)
    <2>1. HaveBudgets(Shapes)
      BY <1>2, ShapesHaveBudgets DEF AreBudgets, HaveBudgets
    <2>2. budgets = BudgetsFor(Shapes[scan.comp]) /\ Shape = Shapes[scan.comp]
      BY DEF Shape
    <2>3. Solution = IF budgets = << >> THEN {} ELSE Solve(Shapes[scan.comp], Items, budgets[scan.budget], scan.limit)
      BY DEF Solution, Shape
    <2> HIDE DEF budgets
    <2>4. \/ Solution = {} /\ scan'.solved = scan.solved
          \/ \E p \in Solution : scan'.solved = scan.solved \cup {Solved(Shapes[scan.comp], budgets[scan.budget], p)}
      BY <1>6, <2>2
    <2>5. IF scan.budget < Len(budgets) THEN scan'.comp = scan.comp /\ scan'.budget = scan.budget + 1
          ELSE scan'.comp = scan.comp + 1 /\ scan'.budget = 1
      BY <1>4, <1>6
    <2>6. GoesOn(scan.solved, scan.comp, scan.budget, scan'.solved, scan'.comp, scan'.budget,
                 Shapes, Items, scan.limit)
      BY <2>2, <2>3, <2>4, <2>5 DEF GoesOn
    <2>7. QED
      BY <1>2, <1>3, <2>1, <2>6, SearchGoesOn
  <1>8. scan.pc \notin Unsearched /\ scan'.pc \notin Unsearched
    BY <1>2, <1>6 DEF Unsearched
  <1>9. QED
    BY <1>1, <1>6, <1>7, <1>8, FoundStays

(* The rest of the scan only reads what was found. *)
LEMMA FoundRequerying ==
  ASSUME LiveInv, FoundInv, AskListing \/ TakeListing \/ ListingFailed \/ RaiseOnAnswer \/ Decide \/ Finish
  PROVE  FoundInv'
  <1>0. DOMAIN scan = {"pc", "client", "limit", "targets", "listings", "wanted", "priced", "requests",
                       "evidence", "reference", "comp", "budget", "solved", "held", "cards",
                       "bundle", "verified", "alive"}
    BY DEF LiveInv, ScanShape
  <1>1. /\ scan.pc \in {"verify", "loop"} /\ market' = market /\ fetch' = fetch
        /\ scan'.pc \in {"verify", "loop", "recorded", "raised"}
        /\ scan'.listings = scan.listings /\ scan'.limit = scan.limit
        /\ scan'.solved = scan.solved /\ scan'.comp = scan.comp /\ scan'.budget = scan.budget
    <2>1. CASE AskListing
      BY <2>1 DEF AskListing
    <2>2. CASE TakeListing
      BY <1>0, <2>2 DEF TakeListing
    <2>3. CASE ListingFailed
      BY <1>0, <2>3 DEF ListingFailed
    <2>4. CASE Decide
      BY <1>0, <2>4 DEF Decide
    <2>5. CASE Finish
      BY <1>0, <2>5 DEF Finish
    <2>6. CASE RaiseOnAnswer
      BY <1>0, <2>6 DEF RaiseOnAnswer
    <2>7. QED
      BY <2>1, <2>2, <2>3, <2>4, <2>5, <2>6
  <1>2. scan.pc \notin Unsearched /\ scan'.pc \notin Unsearched
    BY <1>1 DEF Unsearched
  <1>3. IsSearch(scan'.solved, scan'.comp, scan'.budget, Shapes, Items, scan.limit)
    BY <1>1, <1>2 DEF FoundInv
  <1>4. QED
    BY <1>1, <1>2, <1>3, FoundStays

LEMMA FoundStanding ==
  ASSUME FoundInv, market' = market, fetch' = fetch, scan' = scan
  PROVE  FoundInv'
  <1>1. CASE scan.pc \in Unsearched
    <2>1. fetch'.rows \in Seq(Venue) /\ scan'.listings \in Seq(Venue)
      BY DEF FoundInv, FromVenue
    <2>2. QED
      BY <1>1, <2>1, FoundBefore DEF FoundInv
  <1>2. CASE scan.pc \notin Unsearched
    BY <1>2, FoundStays DEF FoundInv
  <1>3. QED
    BY <1>1, <1>2

LEMMA StartsSearch == Init => FoundInv
  <1> SUFFICES ASSUME Init PROVE FoundInv
    OBVIOUS
  <1>1. fetch = NoFetch /\ scan = NoScan /\ market \in Markets
    BY DEF Init
  <1>2. << >> \in Seq(Venue)
    OBVIOUS
  <1>3. QED
    BY <1>1, <1>2 DEF FoundInv, FromVenue, NoFetch, NoScan, Unsearched

LEMMA KeepsSearch == LiveInv /\ FoundInv /\ [Next]_vars => FoundInv'
  <1> SUFFICES ASSUME LiveInv, FoundInv, [Next]_vars PROVE FoundInv'
    OBVIOUS
  <1>1. CASE Start \/ Fetching \/ Escapes \/ NextName \/ FetchRefused \/ Fetched
    BY <1>1, FoundGathering
  <1>2. CASE \/ AskSales \/ TakeSales \/ SalesRefused \/ SalesDone
             \/ AskExits \/ TakeExits \/ ExitsDone \/ TakeQuotes
    BY <1>2, FoundPricing
  <1>3. CASE Skip \/ SkipKnown \/ RaiseOnRepeat \/ Judge
    BY <1>3, FoundSearching
  <1>4. CASE AskListing \/ TakeListing \/ ListingFailed \/ RaiseOnAnswer \/ Decide \/ Finish
    BY <1>4, FoundRequerying
  <1>5. CASE Waiting
    BY <1>5, FoundStanding DEF Waiting
  <1>6. CASE UNCHANGED vars
    BY <1>6, FoundStanding DEF vars
  <1>7. QED
    BY <1>1, <1>2, <1>3, <1>4, <1>5, <1>6 DEF Next

LEMMA AlwaysSearched == Spec => [](LiveInv /\ FoundInv)
  <1>1. QED
    BY StartsSound, KeepsSound, StartsSearch, KeepsSearch, PTL DEF Spec

-----------------------------------------------------------------------------
(* A choice of items, and the listings it is made of.                       *)

(* What f makes of a set, and when it makes as much. *)
LEMMA ImageSize ==
  ASSUME NEW S, IsFiniteSet(S), NEW f, NEW T, \A x \in S : f[x] \in T, \A t \in T : \E x \in S : f[x] = t
  PROVE  /\ IsFiniteSet(T) /\ Cardinality(T) \in Nat /\ Cardinality(T) <= Cardinality(S)
         /\ Cardinality(T) = Cardinality(S) <=> \A x, y \in S : f[x] = f[y] => x = y
  <1> DEFINE g == [x \in S |-> f[x]]
  <1>1. g \in Surjection(S, T)
    BY DEF Surjection
  <1>2. g \in Injection(S, T) <=> \A x, y \in S : f[x] = f[y] => x = y
    BY DEF Injection, IsInjective
  <1> HIDE DEF g
  <1>3. /\ IsFiniteSet(T) /\ Cardinality(T) <= Cardinality(S)
        /\ Cardinality(T) = Cardinality(S) <=> g \in Injection(S, T)
    BY <1>1, FS_Surjection
  <1>4. QED
    BY <1>2, <1>3, FS_CardinalityType

IsScanShape(a) ==
  IsShape(a) /\ IsComposition(a, Available, InputCount, MaxDistinct, MinPerCollection)

(* The listings of a choice. *)
RowsOf(V) == {scan.listings[v.nth] : v \in V}

IsChoice(V, a) ==
  /\ IsFiniteSet(V) /\ V \in SUBSET ItemType /\ Cardinality(V) = InputCount
  /\ \A v \in V : v.nth \in Goods /\ v = Item(v.nth) /\ HomeOf(v.nth) \in DOMAIN a
  /\ \A v \in V, c \in DOMAIN a : v \in Items[c] <=> HomeOf(v.nth) = c
  /\ \A c \in DOMAIN a : Cardinality(V \cap Items[c]) = a[c] /\ a[c] \in Nat \ {0}

LEMMA ScanShapeIs ==
  ASSUME Ready, NEW a, IsScanShape(a)
  PROVE  /\ DOMAIN a \in SUBSET DOMAIN Pool /\ AreStocks(Items, DOMAIN a) /\ a \in [DOMAIN a -> Nat]
         /\ Slots(a) = InputCount /\ \A c \in DOMAIN a : a[c] \in Nat \ {0}
  <1>1. DOMAIN a \in SUBSET DOMAIN Pool /\ Slots(a) = InputCount
    BY DEF IsScanShape, IsComposition, Available
  <1>2. AreStocks(Items, DOMAIN a)
    BY <1>1, ItemsAre, FewerStocks
  <1>3. a = [c \in DOMAIN a |-> a[c]] /\ \A c \in DOMAIN a : a[c] \in Nat
    BY DEF IsScanShape, IsShape
  <1>4. ASSUME NEW c \in DOMAIN a
        PROVE  a[c] \in Nat \ {0}
    <2>1. a[c] \in MinPerCollection..InputCount
      BY DEF IsScanShape, IsComposition
    <2>2. MinPerCollection \in Nat \ {0} /\ InputCount \in Nat \ {0}
      BY ScanAssumption
    <2>3. QED
      BY <2>1, <2>2
  <1>5. QED
    BY <1>1, <1>2, <1>3, <1>4

LEMMA ChoiceIs ==
  ASSUME Ready, NEW a, IsScanShape(a), NEW V \in FullOf(Items, a, DOMAIN a)
  PROVE  IsChoice(V, a)
  <1> DEFINE C == DOMAIN a
  <1>1. /\ C \in SUBSET DOMAIN Pool /\ AreStocks(Items, C) /\ a \in [C -> Nat]
        /\ Slots(a) = InputCount /\ \A c \in C : a[c] \in Nat \ {0}
    BY ScanShapeIs
  <1>2. V \in SUBSET ItemType /\ IsFiniteSet(V)
    <2>1. C \in SUBSET C
      OBVIOUS
    <2> HIDE DEF C
    <2>2. V \in FullOf(Items, a, C)
      BY DEF C
    <2>3. QED
      BY <1>1, <2>1, <2>2, FullFinite
  <1>3. /\ \A v \in V : \E c \in C : v \in Items[c]
        /\ \A c \in C : Cardinality(V \cap Items[c]) = a[c]
    BY DEF FullOf, StockOf
  <1> HIDE DEF C
  <1>4. ASSUME NEW c \in C, NEW v \in Items[c]
        PROVE  v.nth \in Goods /\ v = Item(v.nth) /\ HomeOf(v.nth) = c
    <2>1. PICK k \in Goods : HomeOf(k) = c /\ v = Item(k)
      BY <1>1, <1>4, ItemsAre
    <2>2. Item(k).nth = k
      BY GoodsAre DEF IsGood
    <2>3. QED
      BY <2>1, <2>2
  <1>5. \A v \in V : v.nth \in Goods /\ v = Item(v.nth) /\ HomeOf(v.nth) \in C
    BY <1>3, <1>4
  <1>6. ASSUME NEW v \in V, NEW c \in C
        PROVE  v \in Items[c] <=> HomeOf(v.nth) = c
    <2>1. PICK d \in C : v \in Items[d]
      BY <1>3
    <2>2. HomeOf(v.nth) = d
      BY <1>4, <2>1
    <2>3. QED
      BY <1>4, <2>1, <2>2
  <1>7. Cardinality(V) = InputCount
    <2> DEFINE P == [c \in C |-> V \cap Items[c]]
    <2>1. IsFiniteSet(C) /\ \A c, d \in C : c # d => Items[c] \cap Items[d] = {}
      BY <1>1 DEF AreStocks
    <2>2. IsPartition(P, C, V)
      BY <1>3, <2>1 DEF IsPartition
    <2>3. \A c \in C : a[c] = Cardinality(P[c])
      BY <1>3
    <2> HIDE DEF P
    <2>4. SumOver(C, a) = Cardinality(V)
      BY <1>2, <2>1, <2>2, <2>3, PiecesAdd
    <2>5. QED
      BY <1>1, <2>4 DEF Slots, C
  <1>8. QED
    BY <1>1, <1>2, <1>3, <1>5, <1>6, <1>7 DEF IsChoice, C

LEMMA RowIs ==
  ASSUME Ready, NEW row \in Usable
  PROVE  Row(row.id) = row /\ row \in Offer
  <1>1. ASSUME NEW u \in Usable, u.id = row.id
        PROVE  u = row
    <2>1. PICK j \in DOMAIN scan.listings : u = scan.listings[j]
      BY <1>1 DEF Usable
    <2>2. PICK k \in DOMAIN scan.listings : row = scan.listings[k]
      BY DEF Usable
    <2>3. QED
      BY <1>1, <2>1, <2>2, GoodsAre
  <1>2. Row(row.id) = row
    BY <1>1 DEF Row
  <1>3. row \in Offer
    <2>1. scan.listings \in Seq(Offer)
      BY VenueOffers DEF Ready
    <2>2. QED
      BY <2>1 DEF Usable
  <1>4. QED
    BY <1>2, <1>3

(* A choice is of as many listings, unless one was listed twice. *)
LEMMA RowsAre ==
  ASSUME Ready, NEW a, NEW V, IsChoice(V, a)
  PROVE  /\ IsFiniteSet(RowsOf(V)) /\ Cardinality(RowsOf(V)) \in Nat /\ Cardinality(RowsOf(V)) <= InputCount
         /\ \A v \in V : scan.listings[v.nth] \in Usable /\ scan.listings[v.nth].id = v.id
                           /\ FloatOf(scan.listings[v.nth]) = v.z /\ scan.listings[v.nth].cost = v.cost
         /\ RowsOf(V) = {Row(v.id) : v \in V} /\ RowsOf(V) \in SUBSET Usable
         /\ Cardinality(RowsOf(V)) = InputCount =>
              \A v, w \in V : scan.listings[v.nth] = scan.listings[w.nth] => v = w
         /\ ~Repeated => Cardinality(RowsOf(V)) = InputCount
  <1>1. /\ IsFiniteSet(V) /\ Cardinality(V) = InputCount
        /\ \A v \in V : v.nth \in Goods /\ v = Item(v.nth)
    BY DEF IsChoice
  <1>2. ASSUME NEW v \in V
        PROVE  /\ scan.listings[v.nth] \in Usable /\ scan.listings[v.nth].id = v.id
               /\ FloatOf(scan.listings[v.nth]) = v.z /\ scan.listings[v.nth].cost = v.cost
    <2>1. IsGood(v.nth) /\ Item(v.nth) = v
      BY <1>1, GoodsAre
    <2>2. QED
      BY <2>1 DEF IsGood
  <1>3. RowsOf(V) = {Row(v.id) : v \in V}
    <2>1. \A v \in V : Row(v.id) = scan.listings[v.nth]
      BY <1>2, RowIs
    <2>2. QED
      BY <2>1 DEF RowsOf
  <1>4. RowsOf(V) \in SUBSET Usable
    BY <1>2 DEF RowsOf
  <1> DEFINE f == [v \in V |-> scan.listings[v.nth]]
  <1>5. /\ IsFiniteSet(RowsOf(V)) /\ Cardinality(RowsOf(V)) \in Nat /\ Cardinality(RowsOf(V)) <= InputCount
        /\ Cardinality(RowsOf(V)) = InputCount <=> \A v, w \in V : f[v] = f[w] => v = w
    <2>1. (\A v \in V : f[v] \in RowsOf(V)) /\ \A row \in RowsOf(V) : \E v \in V : f[v] = row
      BY DEF RowsOf
    <2> HIDE DEF f
    <2>2. /\ IsFiniteSet(RowsOf(V)) /\ Cardinality(RowsOf(V)) \in Nat
          /\ Cardinality(RowsOf(V)) <= Cardinality(V)
          /\ Cardinality(RowsOf(V)) = Cardinality(V) <=> \A v, w \in V : f[v] = f[w] => v = w
      BY <1>1, <2>1, ImageSize
    <2>3. QED
      BY <1>1, <2>2
  <1>6. ~Repeated => \A v, w \in V : f[v] = f[w] => v = w
    <2> SUFFICES ASSUME ~Repeated, NEW v \in V, NEW w \in V, scan.listings[v.nth] = scan.listings[w.nth]
                 PROVE  v = w
      OBVIOUS
    <2>1. v.nth \in DOMAIN scan.listings /\ w.nth \in DOMAIN scan.listings
      BY <1>1 DEF Goods
    <2>2. v.nth = w.nth
      BY <2>1 DEF Repeated
    <2>3. QED
      BY <1>1, <2>2
  <1>7. (\A v, w \in V : f[v] = f[w] => v = w) <=>
          \A v, w \in V : scan.listings[v.nth] = scan.listings[w.nth] => v = w
    OBVIOUS
  <1> HIDE DEF f
  <1>8. QED
    BY <1>2, <1>3, <1>4, <1>5, <1>6, <1>7

(* A choice without repetition has the shape and the totals of its listings. *)
LEMMA RowsExact ==
  ASSUME Ready, NEW a, IsScanShape(a), NEW V, IsChoice(V, a), Cardinality(RowsOf(V)) = InputCount
  PROVE  ShapeOf(RowsOf(V)) = a /\ Total(RowsOf(V)) = FloatSum(V) /\ Cost(RowsOf(V)) = CostSum(V)
  <1> DEFINE rows == RowsOf(V)
             f == [v \in V |-> scan.listings[v.nth]]
             C == DOMAIN a
  <1>1. /\ IsFiniteSet(V) /\ V \in SUBSET ItemType
        /\ \A v \in V : HomeOf(v.nth) \in C
        /\ \A v \in V, c \in C : v \in Items[c] <=> HomeOf(v.nth) = c
        /\ \A c \in C : Cardinality(V \cap Items[c]) = a[c] /\ a[c] \in Nat \ {0}
    BY DEF IsChoice
  <1>2. /\ \A v, w \in V : f[v] = f[w] => v = w
        /\ \A v \in V : FloatOf(f[v]) = v.z /\ f[v].cost = v.cost
        /\ rows = {f[v] : v \in V}
    <2>1. /\ \A v, w \in V : scan.listings[v.nth] = scan.listings[w.nth] => v = w
          /\ \A v \in V : FloatOf(scan.listings[v.nth]) = v.z /\ scan.listings[v.nth].cost = v.cost
      BY RowsAre
    <2>2. rows = {f[v] : v \in V}
      BY DEF RowsOf
    <2>3. QED
      BY <2>1, <2>2
  <1>3. \A v \in V : Home[f[v].skin] = HomeOf(v.nth)
    BY DEF HomeOf
  <1>4. \A v \in V : v.z \in Nat /\ v.cost \in Nat /\ Zs[v] = v.z /\ Costs[v] = v.cost
    BY <1>1 DEF ItemType, Zs, Costs
  <1> HIDE DEF f, rows
  <1>5. Total(rows) = FloatSum(V)
    <2> DEFINE g == [row \in rows |-> FloatOf(row)]
    <2>1. \A v \in V : g[f[v]] \in Int /\ Zs[v] = g[f[v]]
      BY <1>2, <1>4
    <2>2. Total(rows) = SumOver(rows, g)
      BY DEF Total
    <2> HIDE DEF g
    <2>3. SumOver({f[v] : v \in V}, g) = SumOver(V, Zs)
      BY <1>1, <1>2, <2>1, SumMapped
    <2>4. QED
      BY <1>2, <2>2, <2>3 DEF FloatSum
  <1>6. Cost(rows) = CostSum(V)
    <2> DEFINE g == [row \in rows |-> row.cost]
    <2>1. \A v \in V : g[f[v]] \in Int /\ Costs[v] = g[f[v]]
      BY <1>2, <1>4
    <2>2. Cost(rows) = SumOver(rows, g)
      BY DEF Cost
    <2> HIDE DEF g
    <2>3. SumOver({f[v] : v \in V}, g) = SumOver(V, Costs)
      BY <1>1, <1>2, <2>1, SumMapped
    <2>4. QED
      BY <1>2, <2>2, <2>3 DEF CostSum
  <1>7. ASSUME NEW c \in C
        PROVE  Cardinality({row \in rows : Home[row.skin] = c}) = a[c] /\ \E row \in rows : Home[row.skin] = c
    <2> DEFINE U == V \cap Items[c]
               T == {row \in rows : Home[row.skin] = c}
    <2>1. IsFiniteSet(U) /\ Cardinality(U) = a[c]
      <3>1. U \in SUBSET V
        OBVIOUS
      <3>2. IsFiniteSet(U)
        BY <1>1, <3>1, FS_Subset
      <3>3. QED
        BY <1>1, <3>2
    <2>2. \A v \in U : f[v] \in T
      BY <1>1, <1>2, <1>3
    <2>3. \A t \in T : \E v \in U : f[v] = t
      BY <1>1, <1>2, <1>3
    <2>4. \A v, w \in U : f[v] = f[w] => v = w
      BY <1>2
    <2> HIDE DEF T
    <2>5. Cardinality(T) = a[c]
      <3> HIDE DEF U
      <3>1. Cardinality(T) = Cardinality(U)
        <4>1. Cardinality(T) = Cardinality(U) <=> \A v, w \in U : f[v] = f[w] => v = w
          BY ONLY <2>1, <2>2, <2>3, ImageSize
        <4>2. QED
          BY <2>4, <4>1
      <3>2. QED
        BY <2>1, <3>1
    <2>6. \E v \in U : TRUE
      <3>1. U # {}
        <4>1. Cardinality({}) = 0
          BY FS_EmptySet
        <4> HIDE DEF U
        <4>2. QED
          BY <1>1, <2>1, <4>1
      <3>2. QED
        BY <3>1
    <2>7. QED
      BY <2>2, <2>5, <2>6 DEF T
  <1>8. {Home[row.skin] : row \in rows} = C
    <2>1. \A row \in rows : Home[row.skin] \in C
      BY <1>1, <1>2, <1>3
    <2>2. QED
      BY <1>7, <2>1
  <1>9. ShapeOf(rows) = a
    <2>1. ShapeOf(rows) = [c \in C |-> Cardinality({row \in rows : Home[row.skin] = c})]
      BY <1>8 DEF ShapeOf
    <2>2. a = [c \in C |-> a[c]]
      BY DEF IsScanShape, IsShape
    <2>3. QED
      BY <1>7, <2>1, <2>2
  <1>10. QED
    BY <1>5, <1>6, <1>9 DEF rows

(* What a solution of the search stands for. *)
Stands(s, a, average, limit) ==
  /\ s.counts = a /\ s.average = average /\ Len(s.chosen) = InputCount /\ s.total <= average * InputCount
  /\ s.total \in Nat /\ s.cost \in Nat
  /\ \E V \in FullOf(Items, a, DOMAIN a) :
       s.total = FloatSum(V) /\ s.cost = CostSum(V) /\ Offered(s) = {v.id : v \in V}

LEMMA SolvedStands ==
  ASSUME Ready, NEW a, IsScanShape(a), NEW average \in Nat, NEW limit \in Nat \ {0},
         NEW p \in Solve(a, Items, average, limit)
  PROVE  Stands(Solved(a, average, p), a, average, limit)
  <1> DEFINE C == DOMAIN a
             found == Solve(a, Items, average, limit)
             s == Solved(a, average, p)
  <1>1. AreStocks(Items, C) /\ a \in [C -> Nat] /\ Slots(a) = InputCount
    BY ScanShapeIs
  <1>2. IsSolution(found, Items, a, C, average, limit)
    <2> HIDE DEF C
    <2>1. QED
      BY <1>1, SolveIs
  <1>3. /\ p \in Point /\ Len(p.chosen) = InputCount /\ p.total <= average * InputCount
        /\ \E V \in FullOf(Items, a, C) : Selects(p, V)
    BY <1>1, <1>2 DEF IsSolution
  <1>4. /\ s.counts = a /\ s.average = average /\ s.chosen = p.chosen /\ s.total = p.total /\ s.cost = p.cost
    BY DEF Solved
  <1> HIDE DEF s, C
  <1>5. Offered(s) = Elems(p.chosen)
    BY <1>4 DEF Offered, Elems
  <1>6. p.total \in Nat /\ p.cost \in Nat
    BY <1>3, PointParts
  <1>7. \E V \in FullOf(Items, a, C) :
          s.total = FloatSum(V) /\ s.cost = CostSum(V) /\ Offered(s) = {v.id : v \in V}
    BY <1>3, <1>4, <1>5 DEF Selects
  <1>8. Stands(s, a, average, limit)
    BY <1>3, <1>4, <1>6, <1>7 DEF Stands, C
  <1>9. QED
    BY <1>8 DEF s

LEMMA ShapeListed ==
  ASSUME Ready, NEW k \in DOMAIN Shapes
  PROVE  IsScanShape(Shapes[k])
  BY ShapesAre DEF AreShapes, IsScanShape

(* Every solution is exact. *)
LEMMA ExactFound ==
  ASSUME FoundInv
  PROVE  BundlesAreExact
  <1> SUFFICES ASSUME scan.pc \in {"loop", "verify", "recorded", "raised"}, NEW s \in scan.solved
               PROVE  LET rows == {Row(id) : id \in Offered(s)}
                      IN /\ Len(s.chosen) = InputCount /\ s.total <= s.average * InputCount
                         /\ Offered(s) \subseteq {row.id : row \in Usable}
                         /\ Cardinality(rows) < InputCount => Repeated
                         /\ Cardinality(rows) = InputCount =>
                              ShapeOf(rows) = s.counts /\ Total(rows) = s.total /\ Cost(rows) = s.cost
    BY DEF BundlesAreExact
  <1>1. /\ Ready /\ scan.limit \in Nat \ {0}
        /\ IsSearch(scan.solved, scan.comp, scan.budget, Shapes, Items, scan.limit)
    BY DEF FoundInv, Ready, Unsearched
  <1>2. PICK k \in DOMAIN Shapes : \E b \in DOMAIN BudgetsFor(Shapes[k]) :
          \E p \in SolvedAt(Shapes, Items, scan.limit, k, b) : s = Solved(Shapes[k], BudgetsFor(Shapes[k])[b], p)
    BY <1>1 DEF IsSearch, IsAnswer
  <1> DEFINE a == Shapes[k]
  <1>3. PICK b \in DOMAIN BudgetsFor(a) :
          \E p \in SolvedAt(Shapes, Items, scan.limit, k, b) : s = Solved(a, BudgetsFor(a)[b], p)
    BY <1>2
  <1>4. PICK average : average = BudgetsFor(a)[b]
    OBVIOUS
  <1>5. PICK p \in Solve(a, Items, average, scan.limit) : s = Solved(a, average, p)
    BY <1>3, <1>4 DEF SolvedAt
  <1>6. IsScanShape(a)
    BY <1>1, ShapeListed
  <1>7. average \in Nat
    <2>1. BudgetsFor(a) \in Seq(Nat)
      BY <1>1, ShapesHaveBudgets DEF AreBudgets
    <2> HIDE DEF a
    <2>2. QED
      BY <1>3, <1>4, <2>1
  <1> HIDE DEF a
  <1>8. Stands(s, a, average, scan.limit)
    BY <1>1, <1>5, <1>6, <1>7, SolvedStands
  <1>9. PICK V \in FullOf(Items, a, DOMAIN a) :
          s.total = FloatSum(V) /\ s.cost = CostSum(V) /\ Offered(s) = {v.id : v \in V}
    BY <1>8 DEF Stands
  <1>10. IsChoice(V, a)
    BY <1>1, <1>6, <1>9, ChoiceIs
  <1> DEFINE rows == {Row(id) : id \in Offered(s)}
  <1>11. /\ Cardinality(RowsOf(V)) \in Nat /\ Cardinality(RowsOf(V)) <= InputCount
         /\ \A v \in V : scan.listings[v.nth] \in Usable /\ scan.listings[v.nth].id = v.id
         /\ RowsOf(V) = {Row(v.id) : v \in V}
         /\ ~Repeated => Cardinality(RowsOf(V)) = InputCount
    BY <1>1, <1>10, RowsAre
  <1>12. rows = RowsOf(V)
    <2>1. {Row(id) : id \in {v.id : v \in V}} = {Row(v.id) : v \in V}
      OBVIOUS
    <2>2. QED
      BY <1>9, <1>11, <2>1
  <1>13. Offered(s) \subseteq {row.id : row \in Usable}
    BY <1>9, <1>11
  <1>14. Cardinality(rows) < InputCount => Repeated
    <2> HIDE DEF rows
    <2>1. InputCount \in Nat
      BY ScanAssumption
    <2>2. QED
      BY <1>11, <1>12, <2>1
  <1>15. Cardinality(rows) = InputCount =>
           ShapeOf(rows) = s.counts /\ Total(rows) = s.total /\ Cost(rows) = s.cost
    <2> SUFFICES ASSUME Cardinality(rows) = InputCount
                 PROVE  ShapeOf(rows) = s.counts /\ Total(rows) = s.total /\ Cost(rows) = s.cost
      OBVIOUS
    <2>1. ShapeOf(RowsOf(V)) = a /\ Total(RowsOf(V)) = FloatSum(V) /\ Cost(RowsOf(V)) = CostSum(V)
      BY <1>1, <1>6, <1>10, <1>12, RowsExact
    <2>2. s.counts = a
      BY <1>8 DEF Stands
    <2> HIDE DEF rows
    <2>3. QED
      BY <1>9, <1>12, <2>1, <2>2
  <1>16. Len(s.chosen) = InputCount /\ s.total <= s.average * InputCount
    BY <1>8 DEF Stands
  <1> HIDE DEF rows
  <1>17. QED
    BY <1>13, <1>14, <1>15, <1>16 DEF rows

-----------------------------------------------------------------------------
(* What one could buy, as a choice of items.                               *)
LEMMA UsableFinite ==
  ASSUME Ready
  PROVE  IsFiniteSet(Usable)
  <1> DEFINE f == [k \in Goods |-> scan.listings[k]]
  <1>1. IsFiniteSet(Goods)
    BY GoodsAre
  <1>2. (\A k \in Goods : f[k] \in Usable) /\ \A row \in Usable : \E k \in Goods : f[k] = row
    BY DEF Usable, Goods
  <1> HIDE DEF f
  <1>3. QED
    BY <1>1, <1>2, ImageSize

(* The places of the listings of a selection. *)
Place(row) == CHOOSE k \in Goods : scan.listings[k] = row

IsPlaced(S) ==
  /\ IsFiniteSet(S) /\ Cardinality(S) = InputCount
  /\ \A row \in S : /\ Place(row) \in Goods /\ scan.listings[Place(row)] = row
                    /\ Home[row.skin] \in DOMAIN Pool

LEMMA SelectionPlaced ==
  ASSUME Ready, NEW S \in Selections
  PROVE  IsPlaced(S)
  <1>1. S \in SUBSET Usable /\ Cardinality(S) = InputCount
    BY DEF Selections, kSubset
  <1>2. IsFiniteSet(S)
    BY <1>1, UsableFinite, FS_Subset
  <1>3. ASSUME NEW row \in S
        PROVE  /\ Place(row) \in Goods /\ scan.listings[Place(row)] = row
               /\ Home[row.skin] \in DOMAIN Pool
    <2>1. \E k \in Goods : scan.listings[k] = row
      BY <1>1 DEF Usable, Goods
    <2>2. Place(row) \in Goods /\ scan.listings[Place(row)] = row
      BY <2>1 DEF Place
    <2>3. IsGood(Place(row))
      BY <2>2, GoodsAre
    <2>4. QED
      BY <2>2, <2>3 DEF IsGood
  <1>4. QED
    BY <1>1, <1>2, <1>3 DEF IsPlaced

ChoiceOf(S) == {Item(Place(row)) : row \in S}

(* The shape of a selection counts it. *)
LEMMA SelectionShape ==
  ASSUME Ready, NEW S, IsPlaced(S), NEW a, a = ShapeOf(S)
  PROVE  /\ IsShape(a) /\ DOMAIN a \in SUBSET DOMAIN Pool /\ DOMAIN a # {} /\ Slots(a) = InputCount
         /\ \A row \in S : Home[row.skin] \in DOMAIN a
         /\ \A c \in DOMAIN a : /\ a[c] = Cardinality({row \in S : Home[row.skin] = c})
                                /\ a[c] \in Nat /\ a[c] <= InputCount
  <1> DEFINE C == {Home[row.skin] : row \in S}
             Part(c) == {row \in S : Home[row.skin] = c}
             P == [c \in C |-> Part(c)]
  <1>1. IsFiniteSet(S) /\ Cardinality(S) = InputCount /\ InputCount \in Nat \ {0}
    BY ScanAssumption DEF IsPlaced
  <1>2. a = [c \in C |-> Cardinality(Part(c))]
    BY DEF ShapeOf
  <1>3. /\ C \in SUBSET DOMAIN Pool /\ C \in SUBSET Nat /\ IsFiniteSet(C)
        /\ \A row \in S : Home[row.skin] \in C
    <2>1. C \in SUBSET DOMAIN Pool
      BY DEF IsPlaced
    <2>2. \A row \in S : Home[row.skin] \in C
      OBVIOUS
    <2> HIDE DEF C
    <2>3. DOMAIN Pool \subseteq Nat /\ IsFiniteSet(DOMAIN Pool)
      BY ScanAssumption
    <2>4. QED
      BY <2>1, <2>2, <2>3, FS_Subset
  <1>4. C # {}
    <2>1. S # {}
      BY <1>1, FS_EmptySet
    <2>2. QED
      BY <1>3, <2>1
  <1>5. ASSUME NEW c \in C
        PROVE  Cardinality(Part(c)) \in Nat /\ Cardinality(Part(c)) <= InputCount
    <2>1. Part(c) \in SUBSET S
      OBVIOUS
    <2> HIDE DEF Part
    <2>2. IsFiniteSet(Part(c)) /\ Cardinality(Part(c)) <= Cardinality(S)
      BY <1>1, <2>1, FS_Subset
    <2>3. QED
      BY <1>1, <2>2, FS_CardinalityType
  <1>6. IsPartition(P, C, S)
    <2>1. \A c \in C : P[c] = {row \in S : Home[row.skin] = c}
      OBVIOUS
    <2>2. \A row \in S : Home[row.skin] \in C
      BY <1>3
    <2> HIDE DEF P, C, Part
    <2>3. QED
      BY <2>1, <2>2 DEF IsPartition
  <1>7. DOMAIN a = C /\ \A c \in C : a[c] = Cardinality(Part(c))
    BY <1>2
  <1>8. \A c \in C : a[c] = Cardinality(P[c])
    BY <1>7
  <1> HIDE DEF C, P
  <1>9. Slots(a) = InputCount
    <2>1. SumOver(C, a) = Cardinality(S)
      BY <1>1, <1>3, <1>6, <1>8, PiecesAdd
    <2>2. QED
      BY <1>1, <1>7, <2>1 DEF Slots
  <1>10. a = [c \in DOMAIN a |-> a[c]]
    BY <1>2, <1>7
  <1>11. IsShape(a)
    BY <1>3, <1>5, <1>7, <1>10 DEF IsShape
  <1>12. QED
    BY <1>3, <1>4, <1>5, <1>7, <1>9, <1>11

(* A selection fills its shape. *)
LEMMA SelectionFills ==
  ASSUME Ready, NEW S, IsPlaced(S), NEW a, a = ShapeOf(S)
  PROVE  /\ ChoiceOf(S) \in FullOf(Items, a, DOMAIN a)
         /\ FloatSum(ChoiceOf(S)) = Total(S) /\ CostSum(ChoiceOf(S)) = Cost(S)
         /\ \A c \in DOMAIN a : a[c] <= Cardinality(Items[c])
  <1> DEFINE V == ChoiceOf(S)
             f == [row \in S |-> Item(Place(row))]
             C == DOMAIN a
  <1>1. /\ IsFiniteSet(S) /\ Cardinality(S) = InputCount
        /\ \A row \in S : Place(row) \in Goods /\ scan.listings[Place(row)] = row
    BY DEF IsPlaced
  <1>2. /\ C \in SUBSET DOMAIN Pool /\ \A row \in S : Home[row.skin] \in C
        /\ \A c \in C : a[c] = Cardinality({row \in S : Home[row.skin] = c})
    BY SelectionShape
  <1>3. V = {f[row] : row \in S}
    BY DEF ChoiceOf
  <1>4. ASSUME NEW row \in S
        PROVE  /\ f[row] = Item(Place(row)) /\ f[row] \in ItemType /\ f[row].nth = Place(row)
               /\ f[row].z = FloatOf(row) /\ f[row].cost = row.cost
               /\ HomeOf(Place(row)) = Home[row.skin]
    <2>1. IsGood(Place(row)) /\ scan.listings[Place(row)] = row
      BY <1>1, GoodsAre
    <2>2. QED
      BY <2>1 DEF IsGood, HomeOf
  <1> HIDE DEF f, V, C
  <1>5. \A x, y \in S : f[x] = f[y] => x = y
    BY <1>1, <1>4
  <1>6. ASSUME NEW row \in S, NEW c \in C
        PROVE  f[row] \in Items[c] <=> Home[row.skin] = c
    <2>1. /\ Items[c] = {Item(k) : k \in {j \in Goods : HomeOf(j) = c}}
          /\ \A j, k \in Goods : Item(j) = Item(k) => j = k
      BY <1>2, ItemsAre
    <2>2. QED
      BY <1>1, <1>4, <2>1
  <1>7. V \in SUBSET StockOf(Items, C)
    BY <1>2, <1>3, <1>6 DEF StockOf
  <1>8. ASSUME NEW c \in C
        PROVE  Cardinality(V \cap Items[c]) = a[c]
    <2> DEFINE T == V \cap Items[c]
               U == {row \in S : Home[row.skin] = c}
    <2>1. IsFiniteSet(U) /\ Cardinality(U) = a[c]
      <3>1. U \in SUBSET S
        OBVIOUS
      <3>2. IsFiniteSet(U)
        BY <1>1, <3>1, FS_Subset
      <3>3. QED
        BY <1>2, <3>2
    <2>2. \A row \in U : f[row] \in T
      BY <1>3, <1>6
    <2>3. \A t \in T : \E row \in U : f[row] = t
      BY <1>3, <1>6
    <2>4. \A x, y \in U : f[x] = f[y] => x = y
      BY <1>5
    <2> HIDE DEF T, U
    <2>5. Cardinality(T) = Cardinality(U) <=> \A x, y \in U : f[x] = f[y] => x = y
      BY ONLY <2>1, <2>2, <2>3, ImageSize
    <2>6. QED
      BY <2>1, <2>4, <2>5 DEF T
  <1>9. V \in FullOf(Items, a, C)
    BY <1>7, <1>8 DEF FullOf
  <1>10. \A c \in C : a[c] <= Cardinality(Items[c])
    <2> TAKE c \in C
    <2>1. IsFiniteSet(Items[c]) /\ V \cap Items[c] \in SUBSET Items[c]
      BY <1>2, ItemsAre DEF AreStocks
    <2>2. Cardinality(V \cap Items[c]) <= Cardinality(Items[c])
      BY <2>1, FS_Subset
    <2>3. QED
      BY <1>8, <2>2
  <1>11. FloatSum(V) = Total(S)
    <2> DEFINE h == [row \in S |-> FloatOf(row)]
    <2>1. \A row \in S : Zs[f[row]] \in Int /\ h[row] = Zs[f[row]]
      BY <1>4 DEF Zs, ItemType
    <2>2. Total(S) = SumOver(S, h)
      BY DEF Total
    <2> HIDE DEF h
    <2>3. SumOver({f[row] : row \in S}, Zs) = SumOver(S, h)
      BY <1>1, <1>5, <2>1, SumMapped
    <2>4. QED
      BY <1>3, <2>2, <2>3 DEF FloatSum
  <1>12. CostSum(V) = Cost(S)
    <2> DEFINE h == [row \in S |-> row.cost]
    <2>1. \A row \in S : Costs[f[row]] \in Int /\ h[row] = Costs[f[row]]
      BY <1>4 DEF Costs, ItemType
    <2>2. Cost(S) = SumOver(S, h)
      BY DEF Cost
    <2> HIDE DEF h
    <2>3. SumOver({f[row] : row \in S}, Costs) = SumOver(S, h)
      BY <1>1, <1>5, <2>1, SumMapped
    <2>4. QED
      BY <1>3, <2>2, <2>3 DEF CostSum
  <1>13. QED
    BY <1>9, <1>10, <1>11, <1>12 DEF V, C

(* What the search makes of a selection.                                   *)
LEMMA TriedIsShape ==
  ASSUME Ready, NEW S \in Selections, NEW a, a = ShapeOf(S), Tried(a)
  PROVE  IsScanShape(a)
  <1>1. IsPlaced(S)
    BY SelectionPlaced
  <1>2. /\ IsShape(a) /\ DOMAIN a \in SUBSET DOMAIN Pool /\ DOMAIN a # {} /\ Slots(a) = InputCount
        /\ \A c \in DOMAIN a : a[c] \in Nat /\ a[c] <= InputCount
    BY <1>1, SelectionShape
  <1>3. \A c \in DOMAIN a : a[c] <= Cardinality(Items[c])
    BY <1>1, SelectionFills
  <1>4. Cardinality(DOMAIN a) <= MaxDistinct /\ \A c \in DOMAIN a : a[c] >= MinPerCollection
    BY DEF Tried
  <1>5. a \in [DOMAIN a -> MinPerCollection..InputCount]
    <2>1. MinPerCollection \in Nat /\ InputCount \in Nat
      BY ScanAssumption
    <2>2. \A c \in DOMAIN a : a[c] \in MinPerCollection..InputCount
      BY <1>2, <1>4, <2>1
    <2>3. a = [c \in DOMAIN a |-> a[c]]
      BY <1>2 DEF IsShape
    <2>4. QED
      BY <2>2, <2>3
  <1>6. \A c \in DOMAIN a : a[c] <= Available[c]
    BY <1>2, <1>3 DEF Available
  <1>7. DOMAIN a \in SUBSET DOMAIN Available
    BY <1>2 DEF Available
  <1>8. QED
    BY <1>2, <1>4, <1>5, <1>6, <1>7 DEF IsScanShape, IsComposition

LEMMA TriedFound ==
  ASSUME FoundInv, scan.pc = "recorded", NEW S \in Selections, NEW a, a = ShapeOf(S), Tried(a),
         NEW j \in DOMAIN BudgetsFor(a), NEW average, average = BudgetsFor(a)[j],
         Total(S) <= average * InputCount
  PROVE  \E s \in scan.solved :
           /\ Stands(s, a, average, scan.limit)
           /\ Cardinality(FullOf(Items, a, DOMAIN a)) <= scan.limit => s.cost <= Cost(S)
  <1> DEFINE found == Solve(a, Items, average, scan.limit)
             V == ChoiceOf(S)
  <1>1. /\ Ready /\ scan.limit \in Nat \ {0}
        /\ IsSearch(scan.solved, scan.comp, scan.budget, Shapes, Items, scan.limit)
    BY DEF FoundInv, Ready, Unsearched
  <1>2. IsScanShape(a)
    BY <1>1, TriedIsShape
  <1>3. PICK k \in DOMAIN Shapes : Shapes[k] = a
    BY <1>1, <1>2, ShapesAre DEF AreShapes, IsScanShape
  <1>4. k < scan.comp
    <2>1. ~(k >= scan.comp)
      BY <1>3 DEF Tried
    <2>2. k \in Nat /\ scan.comp \in Nat
      BY <1>1, ShapesHaveBudgets DEF IsSearch
    <2>3. QED
      BY <2>1, <2>2
  <1>5. IsAnswered(scan.solved, Shapes, Items, scan.limit, k, j)
    BY <1>1, <1>3, <1>4 DEF IsSearch
  <1>6. SolvedAt(Shapes, Items, scan.limit, k, j) = found
    BY <1>3 DEF SolvedAt
  <1>7. average \in Nat
    <2>1. BudgetsFor(a) \in Seq(Nat)
      BY <1>1, <1>3, ShapesHaveBudgets DEF AreBudgets
    <2>2. QED
      BY <2>1
  <1>8. V \in FullOf(Items, a, DOMAIN a) /\ FloatSum(V) = Total(S) /\ CostSum(V) = Cost(S)
    BY <1>1, SelectionPlaced, SelectionFills
  <1>9. AreStocks(Items, DOMAIN a) /\ a \in [DOMAIN a -> Nat] /\ Slots(a) = InputCount
    BY <1>1, <1>2, ScanShapeIs
  <1> HIDE DEF found, V
  <1>10. IsSolution(found, Items, a, DOMAIN a, average, scan.limit)
    BY <1>1, <1>7, <1>9, SolveIs DEF found
  <1>11. PICK p \in found : Cardinality(FullOf(Items, a, DOMAIN a)) <= scan.limit => p.cost <= Cost(S)
    BY <1>8, <1>9, <1>10 DEF IsSolution
  <1>12. PICK q \in found : Solved(Shapes[k], BudgetsFor(Shapes[k])[j], q) \in scan.solved
    BY <1>5, <1>6, <1>11 DEF IsAnswered
  <1>13. Solved(a, average, q) \in scan.solved
    BY <1>3, <1>12
  <1>14. Stands(Solved(a, average, q), a, average, scan.limit)
    BY <1>1, <1>2, <1>7, SolvedStands DEF found
  <1>15. Solved(a, average, q).cost = q.cost
    BY DEF Solved
  <1>16. p \in Point /\ q \in Point /\ q.cost <= p.cost
    BY <1>10 DEF IsSolution
  <1>17. p.cost \in Nat /\ q.cost \in Nat /\ Cost(S) \in Nat
    <2>1. V \in SUBSET ItemType /\ IsFiniteSet(V)
      BY <1>1, <1>2, <1>8, ChoiceIs DEF IsChoice
    <2>2. CostSum(V) \in Nat
      BY <2>1, ItemSums
    <2>3. QED
      BY <1>8, <1>16, <2>2, PointParts
  <1>18. Cardinality(FullOf(Items, a, DOMAIN a)) <= scan.limit => Solved(a, average, q).cost <= Cost(S)
    BY <1>11, <1>15, <1>16, <1>17
  <1>19. QED
    BY <1>13, <1>14, <1>18

(* Whatever some selection fits is solved. *)
LEMMA FeasibleFound ==
  ASSUME FoundInv
  PROVE  FeasibleIsFound
  <1> SUFFICES ASSUME scan.pc = "recorded", NEW S \in Selections, NEW a, a = ShapeOf(S),
                      Tried(a), BudgetsFor(a) # << >>
               PROVE  /\ BudgetsFor(a)[Len(BudgetsFor(a))] = Whole
                      /\ \A k \in DOMAIN BudgetsFor(a) :
                           Total(S) <= BudgetsFor(a)[k] * InputCount =>
                             \E s \in scan.solved : s.counts = a /\ s.average = BudgetsFor(a)[k]
    BY DEF FeasibleIsFound
  <1>1. Ready
    BY DEF FoundInv, Ready
  <1>2. AreBudgets(a)
    <2>1. DOMAIN a \in SUBSET DOMAIN Pool
      BY <1>1, TriedIsShape, ScanShapeIs
    <2>2. QED
      BY <2>1, BudgetsForAre
  <1>3. BudgetsFor(a)[Len(BudgetsFor(a))] = Whole
    BY <1>2 DEF AreBudgets
  <1>4. ASSUME NEW k \in DOMAIN BudgetsFor(a), Total(S) <= BudgetsFor(a)[k] * InputCount
        PROVE  \E s \in scan.solved : s.counts = a /\ s.average = BudgetsFor(a)[k]
    <2>1. PICK average : average = BudgetsFor(a)[k]
      OBVIOUS
    <2>2. \E s \in scan.solved : Stands(s, a, average, scan.limit)
      BY <1>4, <2>1, TriedFound
    <2>3. QED
      BY <2>1, <2>2 DEF Stands
  <1>5. QED
    BY <1>3, <1>4

(* A shape has no more choices than there are selections, unless an offer   *)
(* was served twice.                                                        *)
LEMMA FewChoices ==
  ASSUME Ready, ~Repeated, NEW a, IsScanShape(a)
  PROVE  Cardinality(FullOf(Items, a, DOMAIN a)) <= Cardinality(Selections)
  <1> DEFINE F == FullOf(Items, a, DOMAIN a)
             f == [V \in F |-> RowsOf(V)]
  <1>1. ASSUME NEW V \in F
        PROVE  /\ RowsOf(V) \in Selections
               /\ \A v \in V : v = Item(v.nth) /\ v.nth \in DOMAIN scan.listings
    <2>1. IsChoice(V, a)
      BY ChoiceIs
    <2>2. RowsOf(V) \in SUBSET Usable /\ Cardinality(RowsOf(V)) = InputCount
      BY <2>1, RowsAre
    <2>3. \A v \in V : v = Item(v.nth) /\ v.nth \in DOMAIN scan.listings
      BY <2>1 DEF IsChoice, Goods
    <2>4. QED
      BY <2>2, <2>3 DEF Selections, kSubset
  <1> HIDE DEF F
  <1>2. ASSUME NEW V \in F, NEW W \in F, RowsOf(V) \in SUBSET RowsOf(W)
        PROVE  V \in SUBSET W
    <2> SUFFICES ASSUME NEW v \in V PROVE v \in W
      OBVIOUS
    <2>1. scan.listings[v.nth] \in RowsOf(W)
      BY <1>2 DEF RowsOf
    <2>2. PICK w \in W : scan.listings[w.nth] = scan.listings[v.nth]
      BY <2>1 DEF RowsOf
    <2>3. w.nth = v.nth
      BY <1>1, <2>2 DEF Repeated
    <2>4. w = Item(w.nth) /\ v = Item(v.nth)
      BY <1>1
    <2>5. QED
      BY <2>3, <2>4
  <1>3. f \in Injection(F, Selections)
    <2>1. f \in [F -> Selections]
      BY <1>1
    <2>2. \A V, W \in F : f[V] = f[W] => V = W
      <3> SUFFICES ASSUME NEW V \in F, NEW W \in F, f[V] = f[W] PROVE V = W
        OBVIOUS
      <3>1. RowsOf(V) = RowsOf(W)
        OBVIOUS
      <3>2. V \in SUBSET W /\ W \in SUBSET V
        BY <1>2, <3>1
      <3>3. QED
        BY <3>2
    <2> HIDE DEF f
    <2>3. QED
      BY <2>1, <2>2 DEF Injection, IsInjective
  <1>4. IsFiniteSet(Selections)
    <2>1. IsFiniteSet(SUBSET Usable)
      BY UsableFinite, FS_SUBSET
    <2>2. Selections \in SUBSET SUBSET Usable
      BY DEF Selections, kSubset
    <2>3. QED
      BY <2>1, <2>2, FS_Subset
  <1> HIDE DEF f
  <1>5. Cardinality(F) <= Cardinality(Selections)
    BY <1>3, <1>4, FS_Injection
  <1>6. QED
    BY <1>5 DEF F

(* The whole range is room for every selection. *)
LEMMA SelectionTotal ==
  ASSUME Ready, NEW S \in Selections
  PROVE  Total(S) \in Nat /\ Total(S) <= Whole * InputCount
  <1> DEFINE h == [row \in S |-> FloatOf(row)]
  <1>1. IsPlaced(S)
    BY SelectionPlaced
  <1>2. IsFiniteSet(S) /\ Cardinality(S) = InputCount
    BY <1>1 DEF IsPlaced
  <1>3. ASSUME NEW row \in S
        PROVE  h[row] \in Nat /\ h[row] <= Whole
    <2>1. IsGood(Place(row)) /\ scan.listings[Place(row)] = row
      BY <1>1, GoodsAre DEF IsPlaced
    <2>2. QED
      BY <2>1 DEF IsGood, ItemType
  <1>4. Total(S) = SumOver(S, h)
    BY DEF Total
  <1>5. Whole \in Nat
    BY DEF Whole
  <1> HIDE DEF h
  <1>6. SumOver(S, h) \in Nat
    BY <1>2, <1>3, SumNat
  <1>7. SumOver(S, h) <= Whole * Cardinality(S)
    BY <1>2, <1>3, <1>5, SumBounded
  <1>8. QED
    BY <1>2, <1>4, <1>6, <1>7

(* The tightest budget a total fits, unless it lies within EPSILON below a  *)
(* boundary, keeps below every boundary the total is below.                 *)
IsTight(b, R, n, T) ==
  /\ b \in Budgets(R) /\ b \in Nat /\ b <= Whole /\ T <= b * n
  /\ \A z \in Breakpoints(R) : T < z * n => b <= z - EPSILON

LEMMA Tightest ==
  ASSUME NEW R \in SUBSET Ranges, NEW n \in Nat \ {0}, NEW T \in Nat, T <= Whole * n,
         \A z \in Breakpoints(R) : T < z * n => T <= (z - EPSILON) * n
  PROVE  \E b : IsTight(b, R, n, T)
  <1> DEFINE B == {b \in Budgets(R) : T <= b * n}
  <1>1. /\ Budgets(R) \in SUBSET Nat /\ Whole \in Budgets(R) /\ \A b \in Budgets(R) : b <= Whole
        /\ \A z \in Breakpoints(R) : z - EPSILON \in Budgets(R)
    BY BudgetsAre
  <1>2. B \subseteq Nat /\ B # {}
    BY <1>1
  <1>3. \A z \in Breakpoints(R) : T < z * n => z - EPSILON \in B
    BY <1>1
  <1>4. PICK b \in B : \A k \in B : b <= k
    <2> HIDE DEF B
    <2>1. QED
      BY <1>2, Least
  <1>5. b \in Budgets(R) /\ b \in Nat /\ b <= Whole /\ T <= b * n
    BY <1>1
  <1>6. \A z \in Breakpoints(R) : T < z * n => b <= z - EPSILON
    BY <1>3, <1>4
  <1>7. QED
    BY <1>5, <1>6 DEF IsTight

(* What fits the tightest budget of a total is in no worse a band. *)
LEMMA TightSuffices ==
  ASSUME NEW R \in SUBSET Ranges, NEW n \in Nat \ {0}, NEW T \in Nat, NEW b, IsTight(b, R, n, T),
         NEW t \in Nat, t <= b * n, NEW r \in R
  PROVE  OutputWear(t, n, r) <= OutputWear(T, n, r)
  <1>1. b \in Nat /\ b <= Whole /\ \A z \in Breakpoints(R) : T < z * n => b <= z - EPSILON
    BY DEF IsTight
  <1>2. Whole \in Nat /\ EPSILON \in Nat \ {0}
    BY DEF Whole, EPSILON
  <1>3. b * n <= Whole * n
    BY <1>1, <1>2, Cancelled
  <1>4. b * n \in Nat /\ Whole * n \in Nat
    BY <1>1, <1>2
  <1>5. t <= Whole * n
    BY <1>3, <1>4
  <1>6. ASSUME NEW z \in Breakpoints(R), T < z * n
        PROVE  t < z * n
    <2>1. z \in Nat
      BY BreakpointsAre
    <2>2. b < z
      BY <1>1, <1>2, <1>6, <2>1
    <2>3. n * b < n * z
      BY <1>1, <2>1, <2>2, Cancelled
    <2>4. n * b = b * n /\ n * z = z * n /\ z * n \in Nat
      BY <1>1, <2>1
    <2>5. QED
      BY <1>4, <2>3, <2>4
  <1>7. QED
    BY <1>5, <1>6, NoWorse

(* One no dearer and in no worse a band was found. *)
LEMMA BestFound ==
  ASSUME FoundInv
  PROVE  BestBundleFound
  <1> SUFFICES ASSUME scan.pc = "recorded", ~Repeated, scan.limit >= Cardinality(Selections),
                      NEW S \in Selections, NEW a, a = ShapeOf(S),
                      Tried(a), Outputs(a) # {},
                      Len(BudgetsFor(a)) = Cardinality(Budgets(RangesOf(a))),
                      \A z \in Breakpoints(RangesOf(a)) :
                        Total(S) < z * InputCount => Total(S) <= (z - EPSILON) * InputCount
               PROVE  \E s \in scan.solved :
                        /\ s.counts = a /\ s.cost <= Cost(S)
                        /\ \A y \in Outputs(a) : OutputWear(s.total, InputCount, OutputRange[y])
                                               <= OutputWear(Total(S), InputCount, OutputRange[y])
    BY DEF BestBundleFound, RangesOf
  <1> DEFINE R == RangesOf(a)
             n == InputCount
             T == Total(S)
  <1>1. Ready /\ scan.limit \in Nat \ {0}
    BY DEF FoundInv, Ready, Unsearched
  <1>2. IsScanShape(a) /\ DOMAIN a \in SUBSET DOMAIN Pool
    BY <1>1, TriedIsShape, ScanShapeIs
  <1>3. Cardinality(FullOf(Items, a, DOMAIN a)) <= scan.limit
    <2>1. Cardinality(FullOf(Items, a, DOMAIN a)) <= Cardinality(Selections)
      BY <1>1, <1>2, FewChoices
    <2>2. IsFiniteSet(FullOf(Items, a, DOMAIN a))
      BY <1>1, <1>2, ItemsAre, FullFinite
    <2>3. IsFiniteSet(Selections)
      <3>1. IsFiniteSet(SUBSET Usable)
        BY <1>1, UsableFinite, FS_SUBSET
      <3>2. Selections \in SUBSET SUBSET Usable
        BY DEF Selections, kSubset
      <3>3. QED
        BY <3>1, <3>2, FS_Subset
    <2>4. QED
      BY <1>1, <2>1, <2>2, <2>3, FS_CardinalityType
  <1>4. /\ R \in SUBSET Ranges
        /\ \A b \in Budgets(R) : \E k \in DOMAIN BudgetsFor(a) : BudgetsFor(a)[k] = b
    BY <1>2, BudgetsForAre DEF AreBudgets
  <1>5. T \in Nat /\ T <= Whole * n /\ n \in Nat \ {0}
    BY <1>1, SelectionTotal, ScanAssumption
  <1>6. \A z \in Breakpoints(R) : T < z * n => T <= (z - EPSILON) * n
    OBVIOUS
  <1>7. \A y \in Outputs(a) : OutputRange[y] \in R
    BY DEF RangesOf
  <1> HIDE DEF R
  <1>8. PICK b : IsTight(b, R, n, T)
    <2> HIDE DEF T
    <2>1. QED
      BY <1>4, <1>5, <1>6, Tightest
  <1>9. PICK j \in DOMAIN BudgetsFor(a) : BudgetsFor(a)[j] = b
    BY <1>4, <1>8 DEF IsTight
  <1>10. PICK s \in scan.solved :
           /\ Stands(s, a, b, scan.limit)
           /\ Cardinality(FullOf(Items, a, DOMAIN a)) <= scan.limit => s.cost <= Cost(S)
    <2>1. Total(S) <= b * InputCount
      BY <1>8 DEF IsTight
    <2>2. QED
      BY <1>9, <2>1, TriedFound
  <1>11. s.counts = a /\ s.cost <= Cost(S) /\ s.total \in Nat /\ s.total <= b * n
    BY <1>3, <1>10 DEF Stands
  <1>12. \A r \in R : OutputWear(s.total, n, r) <= OutputWear(T, n, r)
    <2> HIDE DEF T
    <2>1. QED
      BY <1>4, <1>5, <1>8, <1>11, TightSuffices
  <1>13. QED
    BY <1>7, <1>11, <1>12

LEMMA BestFacts == FoundInv => BundlesAreBest
  BY ExactFound, BestFound, FeasibleFound DEF BundlesAreBest

-----------------------------------------------------------------------------
(* The theorems.                                                            *)

(* Every variable of a scan keeps its type, verdicts are no more than the   *)
(* listings asked about, and a scan that ended waits for no request         *)
(* (run_live_scan, RestClient.get).                                         *)
THEOREM LiveTypes == Spec => []LiveTypeOK
  <1>1. QED
    BY AlwaysSound, LiveFacts, PTL

(* However often the venue fails or limits, a call waits once less than it  *)
(* attempts and never longer than the capped delay and its jitter unless    *)
(* the venue said so; the names asked for are within the budget, whole      *)
(* collections at a time; and the client is closed by the scans that end    *)
(* with a refusal, with a report or with an exception of the search or      *)
(* after, never earlier, while an exception that escapes before the search  *)
(* leaves it open (RestClient.get, _wanted_output_names,                    *)
(* _gather_market_data, run_live_scan's finally).                           *)
THEOREM RequestsAccounted == Spec => []RequestsAreAccounted
  <1>1. QED
    BY AlwaysSound, LiveFacts, PTL

(* An empty fetch is an empty market, whatever pages it took and however    *)
(* offers moved between them; and every input of a card was found at the    *)
(* venue as it was listed after its bundle was chosen, in no other card     *)
(* (fetch_listings, verify_listing, run_live_scan).                         *)
THEOREM ReportHonest == Spec => []ReportIsHonest
  <1>1. QED
    BY AlwaysSound, LiveFacts, PTL

(* The bundle behind a card is as many real offers as its contract takes,   *)
(* at their own floats and costs and within its budget; nothing one could   *)
(* buy in a shape that was looked at is cheaper and in as good a band, if   *)
(* neither the frontier nor the budgets were cut short; and however short   *)
(* they are cut, whatever fits a budget has a solution (BundleOptimizer,    *)
(* float_budgets, enumerate_compositions, run_live_scan).                   *)
THEOREM BundlesBest == Spec => []BundlesAreBest
  <1>1. QED
    BY AlwaysSearched, BestFacts, PTL
=============================================================================
