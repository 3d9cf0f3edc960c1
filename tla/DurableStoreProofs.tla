------------------------- MODULE DurableStoreProofs -------------------------
(***************************************************************************)
(* Overlapping sessions never leave two active claims of a listing nor     *)
(* change an event of the ledger, and implement the store in which a       *)
(* script is one step, but for the columns its first write was decided on  *)
(* -- for every set of processes and every set of scripts.                 *)
(*                                                                         *)
(* What a session read before it wrote may be stale.  What the holder of   *)
(* the write lock sees is not: its view extends the committed tables, so a *)
(* constraint checked against its view is one on what it will commit.      *)
(***************************************************************************)
EXTENDS DurableStore, FoldProofs

Row == [listing: Key, cand: Value, active: BOOLEAN]
Table == UNION {[D -> Value] : D \in SUBSET Key}
TableSet == [upserted: Table, snapshots: Table, ledger: Table, rows: SUBSET Key]
Session == [pc: {"closed", "select", "flush", "commit"}, script: Scripts \cup {None},
            stmts: Seq(Statement), pos: Nat \ {0}, seen: SUBSET (Key \cup Nat),
            tables: TableSet, rows: Seq(Row)]

(* The events of d are in e, unchanged. *)
KeepsEvents(d, e) ==
  \A id \in DOMAIN d.ledger : id \in DOMAIN e.ledger /\ e.ledger[id] = d.ledger[id]

(* A session is at a statement of its script when it has one to run; it    *)
(* appends only what it did not find; holding the lock, its view extends   *)
(* what is committed. *)
Sound(s, holds, d) ==
  /\ s.pc = "closed" <=> s.script = None
  /\ s.pc \in {"select", "flush"} => s.pos \in 1..Len(s.stmts)
  /\ s.pc = "flush" /\ s.stmts[s.pos].op = "append" => s.seen = {}
  /\ holds => s.pc # "closed" /\ OneActive(s.rows) /\ KeepsEvents(d, s.tables)

StoreInv ==
  /\ db \in TableSet /\ claims \in Seq(Row) /\ done \subseteq Scripts
  /\ sess \in [Process -> Session] /\ lock \in Process \cup {None}
  /\ OneActiveClaim
  /\ \A p \in Process : Sound(sess[p], lock = p, db)

-----------------------------------------------------------------------------
(* A table gains a key and keeps the others.                               *)
LEMMA WithIsTable ==
  ASSUME NEW f \in Table, NEW k \in Key, NEW v \in Value
  PROVE  /\ With(f, k, v) \in Table
         /\ DOMAIN With(f, k, v) = DOMAIN f \cup {k}
         /\ \A x \in DOMAIN f : x # k => With(f, k, v)[x] = f[x]
  <1>1. PICK D \in SUBSET Key : f \in [D -> Value]
    BY DEF Table
  <1>2. DOMAIN f \cup {k} \in SUBSET Key
    BY <1>1
  <1>3. With(f, k, v) \in [DOMAIN f \cup {k} -> Value]
    BY <1>1 DEF With
  <1>4. QED
    BY <1>2, <1>3 DEF With, Table

(* What an upsert makes of a row is a row. *)
LEMMA MergedIsValue ==
  ASSUME NEW f \in Table, NEW st \in Statement
  PROVE  Merged(f, st) \in Value
  <1>1. st.value \in Value
    BY DEF Statement
  <1>2. st.key \in DOMAIN f => f[st.key] \in Value
    BY DEF Table
  <1>3. QED
    BY <1>1, <1>2 DEF Merged, Value

(* A statement leaves well-formed tables, and every event where it was     *)
(* unless it appends under the id of one.                                  *)
LEMMA EffectIsTables ==
  ASSUME NEW d \in TableSet, NEW st \in Statement
  PROVE  /\ Effect(d, st) \in TableSet
         /\ st.op = "append" => Effect(d, st).ledger = With(d.ledger, st.key, st.value)
         /\ st.op # "append" => Effect(d, st).ledger = d.ledger
  <1>1. /\ st.key \in Key /\ st.value \in Value
        /\ d.upserted \in Table /\ d.snapshots \in Table /\ d.ledger \in Table
    BY DEF Statement, TableSet
  <1>2. /\ With(d.upserted, st.key, Merged(d.upserted, st)) \in Table
        /\ With(d.snapshots, st.key, st.value) \in Table
        /\ With(d.ledger, st.key, st.value) \in Table
    BY <1>1, WithIsTable, MergedIsValue
  <1>3. CASE st.op = "upsert"
    BY <1>2, <1>3 DEF Effect, TableSet
  <1>4. CASE st.op = "snapshot"
    BY <1>2, <1>4 DEF Effect, TableSet
  <1>5. CASE st.op = "append"
    BY <1>2, <1>5 DEF Effect, TableSet
  <1>6. CASE st.op = "insert"
    BY <1>1, <1>6 DEF Effect, TableSet
  <1>7. CASE st.op \notin {"upsert", "snapshot", "append", "insert"}
    BY <1>7 DEF Effect
  <1>8. QED
    BY <1>3, <1>4, <1>5, <1>6, <1>7

LEMMA EffectKeepsEvents ==
  ASSUME NEW d \in TableSet, NEW st \in Statement,
         st.op = "append" => st.key \notin DOMAIN d.ledger
  PROVE  KeepsEvents(d, Effect(d, st))
  <1>1. d.ledger \in Table /\ st.key \in Key /\ st.value \in Value
    BY DEF TableSet, Statement
  <1>2. CASE st.op = "append"
    <2>1. Effect(d, st).ledger = With(d.ledger, st.key, st.value)
      BY <1>2, EffectIsTables
    <2>2. /\ DOMAIN With(d.ledger, st.key, st.value) = DOMAIN d.ledger \cup {st.key}
          /\ \A x \in DOMAIN d.ledger :
               x # st.key => With(d.ledger, st.key, st.value)[x] = d.ledger[x]
      BY <1>1, WithIsTable
    <2>3. QED
      BY <1>2, <2>1, <2>2 DEF KeepsEvents
  <1>3. CASE st.op # "append"
    BY <1>3, EffectIsTables DEF KeepsEvents
  <1>4. QED
    BY <1>2, <1>3

(* Where a script stands after its first n - 1 statements.                 *)
LEMMA StartIsSound ==
  ASSUME NEW s \in Seq(Statement), NEW n \in Nat \ {0}
  PROVE  /\ StartOf(s, n) \in {"select", "flush", "commit"}
         /\ StartOf(s, n) \in {"select", "flush"} => n \in 1..Len(s)
         /\ StartOf(s, n) = "flush" => s[n].op # "append"
  BY DEF StartOf, Selects

(* Reserving a listing nobody has active, and deactivating rows, keep one  *)
(* active claim for each listing.                                          *)
LEMMA ReserveKeepsOne ==
  ASSUME NEW rows \in Seq(Row), OneActive(rows),
         NEW r \in Row, ActiveRows(rows, r.listing) = {}
  PROVE  /\ Append(rows, r) \in Seq(Row)
         /\ OneActive(Append(rows, r))
  <1>1. /\ Append(rows, r) \in Seq(Row)
        /\ DOMAIN Append(rows, r) = DOMAIN rows \cup {Len(rows) + 1}
        /\ Append(rows, r)[Len(rows) + 1] = r
        /\ \A i \in DOMAIN rows : Append(rows, r)[i] = rows[i]
    OBVIOUS
  <1>2. \A i \in DOMAIN rows : ~(rows[i].active /\ rows[i].listing = r.listing)
    BY DEF ActiveRows
  <1>3. QED
    BY <1>1, <1>2 DEF OneActive

Deactivated(rows, ids) ==
  [i \in DOMAIN rows |-> IF i \in ids THEN [rows[i] EXCEPT !.active = FALSE] ELSE rows[i]]

LEMMA DeactivateKeepsOne ==
  ASSUME NEW rows \in Seq(Row), OneActive(rows), NEW ids
  PROVE  /\ Deactivated(rows, ids) \in Seq(Row)
         /\ OneActive(Deactivated(rows, ids))
  <1>1. \A i \in DOMAIN rows : rows[i] \in Row
    OBVIOUS
  <1>2. \A i \in DOMAIN rows : Deactivated(rows, ids)[i] \in Row
    BY <1>1 DEF Deactivated, Row
  <1>3. DOMAIN Deactivated(rows, ids) = 1..Len(rows) /\ Len(rows) \in Nat
    BY DEF Deactivated
  <1>4. Deactivated(rows, ids) \in [1..Len(rows) -> Row]
    BY <1>2, <1>3 DEF Deactivated
  <1>5. Deactivated(rows, ids) \in Seq(Row)
    BY <1>3, <1>4
  <1>6. \A i \in DOMAIN rows : /\ Deactivated(rows, ids)[i].listing = rows[i].listing
                               /\ Deactivated(rows, ids)[i].active => rows[i].active
    BY <1>1 DEF Deactivated, Row
  <1>7. QED
    BY <1>3, <1>5, <1>6 DEF OneActive

-----------------------------------------------------------------------------
(* What a session reads is well formed; it extends what is committed, and  *)
(* a session without the lock reads exactly that.                          *)
LEMMA ViewsAreSound ==
  ASSUME StoreInv, NEW p \in Process
  PROVE  /\ Tables(p) \in TableSet /\ Rows(p) \in Seq(Row)
         /\ OneActive(Rows(p)) /\ KeepsEvents(db, Tables(p))
         /\ lock # p => Tables(p) = db /\ Rows(p) = claims
  <1>1. sess[p] \in Session /\ Sound(sess[p], lock = p, db)
    BY DEF StoreInv
  <1>2. KeepsEvents(db, db)
    BY DEF KeepsEvents
  <1>3. CASE lock = p
    BY <1>1, <1>3 DEF Tables, Rows, Sound, Session
  <1>4. CASE lock # p
    BY <1>2, <1>4 DEF StoreInv, Tables, Rows, OneActiveClaim
  <1>5. QED
    BY <1>3, <1>4

(* One session moves to record s; the committed tables stay, and at most   *)
(* this session takes or gives up the lock.                                *)
LEMMA SessionStep ==
  ASSUME StoreInv, NEW p \in Process, NEW s \in Session,
         sess' = [sess EXCEPT ![p] = s],
         lock' \in {lock, p, None}, lock' = p => lock \in {None, p},
         Sound(s, lock' = p, db),
         UNCHANGED <<db, claims, done>>
  PROVE  StoreInv'
  <1>1. sess' \in [Process -> Session] /\ lock' \in Process \cup {None}
    BY DEF StoreInv
  <1>2. OneActiveClaim'
    BY DEF StoreInv, OneActiveClaim, OneActive
  <1>3. ASSUME NEW q \in Process PROVE Sound(sess'[q], lock' = q, db')
    <2>1. CASE q = p
      BY <2>1 DEF StoreInv
    <2>2. CASE q # p
      <3>1. sess'[q] = sess[q] /\ Sound(sess[q], lock = q, db) /\ db' = db
        BY <2>2 DEF StoreInv
      <3>2. lock' = q => lock = q
        BY <2>2, StoreAssumption
      <3>3. QED
        BY <3>1, <3>2 DEF Sound
    <2>3. QED
      BY <2>1, <2>2
  <1>4. QED
    BY <1>1, <1>2, <1>3 DEF StoreInv

LEMMA EmptyIsTables == EmptyTables \in TableSet /\ << >> \in Seq(Row)
  <1>1. << >> \in [{} -> Value] /\ {} \in SUBSET Key
    OBVIOUS
  <1>2. << >> \in Table
    BY <1>1 DEF Table
  <1>3. QED
    BY <1>2 DEF EmptyTables, TableSet

LEMMA ClosedIsSound ==
  ASSUME NEW d
  PROVE  Closed \in Session /\ Sound(Closed, FALSE, d)
  BY EmptyIsTables DEF Closed, Session, Sound

LEMMA RollbackKeepsInv ==
  ASSUME StoreInv, NEW p \in Process, Rollback(p)
  PROVE  StoreInv'
  <1>1. /\ sess' = [sess EXCEPT ![p] = Closed]
        /\ lock' = IF lock = p THEN None ELSE lock
        /\ UNCHANGED <<db, claims, done>>
    BY DEF Rollback, Closes
  <1>2. lock' \in {lock, None} /\ lock' # p
    BY <1>1, StoreAssumption
  <1>3. Sound(Closed, lock' = p, db)
    BY <1>2, ClosedIsSound DEF Sound
  <1>4. QED
    BY <1>1, <1>2, <1>3, ClosedIsSound, SessionStep

-----------------------------------------------------------------------------
LEMMA BeginKeepsInv ==
  ASSUME StoreInv, NEW p \in Process, Begin(p)
  PROVE  StoreInv'
  <1>1. PICK s \in Scripts :
          sess' = [sess EXCEPT ![p] = Opened(s)]
    BY DEF Begin
  <1> DEFINE r == Opened(s)
  <1>2. r.pc = StartOf(s, 1) /\ r.script = s /\ r.stmts = s /\ r.pos = 1 /\ s \in Seq(Statement)
    BY StoreAssumption DEF Closed, Opened
  <1>3. /\ StartOf(s, 1) \in {"select", "flush", "commit"}
        /\ StartOf(s, 1) \in {"select", "flush"} => 1 \in 1..Len(s)
        /\ StartOf(s, 1) = "flush" => s[1].op # "append"
    BY <1>2, StartIsSound
  <1>4. s # None /\ lock # p
    BY StoreAssumption DEF StoreInv, Sound, Begin
  <1>5. r \in Session
    BY <1>2, <1>3, ClosedIsSound DEF Session, Opened
  <1>6. UNCHANGED <<db, claims, lock, done>>
    BY DEF Begin
  <1>7. sess' = [sess EXCEPT ![p] = r]
    BY <1>1
  <1> HIDE DEF r
  <1>8. Sound(r, lock' = p, db)
    BY <1>2, <1>3, <1>4, <1>6 DEF Sound
  <1>9. QED
    BY <1>4, <1>5, <1>6, <1>7, <1>8, SessionStep

(* The statement a session is at. *)
LEMMA AtStatement ==
  ASSUME StoreInv, NEW p \in Process, sess[p].pc \in {"select", "flush"}
  PROVE  /\ sess[p].script \in Scripts /\ sess[p].pos \in 1..Len(sess[p].stmts)
         /\ St(p) \in Statement
  <1>1. sess[p] \in Session /\ Sound(sess[p], lock = p, db)
    BY DEF StoreInv
  <1>2. sess[p].script \in Scripts /\ sess[p].pos \in 1..Len(sess[p].stmts)
    BY <1>1 DEF Sound, Session
  <1>3. QED
    BY <1>1, <1>2 DEF St, Session

(* What an upsert will write leaves the script as it is but for the        *)
(* columns of that upsert. *)
LEMMA LoadedIsScript ==
  ASSUME StoreInv, NEW p \in Process, sess[p].pc = "select"
  PROVE  LET s == sess[p].stmts
             t == Loaded(p)
         IN /\ t \in Seq(Statement) /\ DOMAIN t = DOMAIN s /\ Len(t) = Len(s)
            /\ \A i \in DOMAIN s : i # sess[p].pos => t[i] = s[i]
            /\ t[sess[p].pos] = [St(p) EXCEPT !.cols = t[sess[p].pos].cols]
            /\ t[sess[p].pos].op = St(p).op
  <1> DEFINE s == sess[p].stmts
             k == sess[p].pos
             st == St(p)
             C == Changed(db.upserted[st.key], st.value)
  <1>1. /\ s \in Seq(Statement) /\ k \in DOMAIN s /\ st \in Statement /\ st = s[k]
    <2>1. s \in Seq(Statement) /\ k \in 1..Len(s) /\ st \in Statement
      BY AtStatement DEF StoreInv, Session
    <2>2. QED
      BY <2>1 DEF St
  <1>2. C \subseteq Column
    BY StoreAssumption DEF Changed
  <1>3. CASE Loaded(p) = s
    BY <1>1, <1>3 DEF Statement
  <1>4. CASE Loaded(p) # s
    <2>1. Loaded(p) = [s EXCEPT ![k].cols = C]
      BY <1>4 DEF Loaded
    <2> HIDE DEF C
    <2> DEFINE u == [st EXCEPT !.cols = C]
    <2>2. u \in Statement /\ u.op = st.op /\ u = [st EXCEPT !.cols = u.cols]
      BY <1>1, <1>2 DEF Statement
    <2>3. Loaded(p) = [s EXCEPT ![k] = u]
      BY <1>1, <2>1
    <2> HIDE DEF u, st, s, k
    <2>4. QED
      BY <1>1, <2>2, <2>3 DEF s, k, st
  <1>5. QED
    BY <1>3, <1>4

LEMMA SelectKeepsInv ==
  ASSUME StoreInv, NEW p \in Process, Select(p)
  PROVE  StoreInv'
  <1>1. CASE St(p).op = "append" /\ Found(p) # {}
    BY <1>1, RollbackKeepsInv DEF Select
  <1>2. CASE ~(St(p).op = "append" /\ Found(p) # {})
    <2> DEFINE r == [sess[p] EXCEPT !.pc = "flush", !.seen = Found(p), !.stmts = Loaded(p)]
    <2>1. sess[p] \in Session /\ Sound(sess[p], lock = p, db) /\ sess[p].pc = "select"
      BY DEF StoreInv, Select
    <2>2. sess' = [sess EXCEPT ![p].pc = "flush", ![p].seen = Found(p), ![p].stmts = Loaded(p)]
      BY <1>2 DEF Select
    <2>3. /\ r.pc = "flush" /\ r.seen = Found(p) /\ r.script = sess[p].script
          /\ r.stmts = Loaded(p)
          /\ r.pos = sess[p].pos /\ r.tables = sess[p].tables /\ r.rows = sess[p].rows
      BY <2>1 DEF Session
    <2>4. sess' = [sess EXCEPT ![p] = r]
      BY <2>2 DEF StoreInv
    <2>5. St(p) \in Statement /\ sess[p].pos \in 1..Len(sess[p].stmts)
      BY <2>1, AtStatement
    <2>6. St(p).key \in Key /\ DOMAIN Rows(p) \subseteq Nat
      BY <2>5, ViewsAreSound DEF Statement
    <2>7. Found(p) \subseteq Key \cup Nat
      BY <2>6 DEF Found, ActiveRows
    <2>12. /\ Loaded(p) \in Seq(Statement) /\ Len(Loaded(p)) = Len(sess[p].stmts)
           /\ Loaded(p)[sess[p].pos].op = St(p).op
      BY <2>1, LoadedIsScript
    <2>8. r \in Session
      BY <2>1, <2>7, <2>12 DEF Session
    <2>9. UNCHANGED <<db, claims, lock, done>>
      BY <1>2 DEF Select
    <2> HIDE DEF r
    <2>10. Sound(r, lock' = p, db)
      BY <1>2, <2>1, <2>3, <2>5, <2>9, <2>12 DEF Sound
    <2>11. QED
      BY <2>4, <2>8, <2>9, <2>10, SessionStep DEF StoreInv
  <1>3. QED
    BY <1>1, <1>2

(* The record of a session that has gone past its statement.               *)
Gone(p, t, rows) == [Onward(p) EXCEPT !.tables = t, !.rows = rows]

LEMMA OnwardIsSound ==
  ASSUME StoreInv, NEW p \in Process, sess[p].pc = "flush",
         NEW t \in TableSet, NEW rows \in Seq(Row), NEW holds \in BOOLEAN,
         holds => OneActive(rows) /\ KeepsEvents(db, t)
  PROVE  Gone(p, t, rows) \in Session /\ Sound(Gone(p, t, rows), holds, db)
  <1> DEFINE n == sess[p].pos + 1
             s == sess[p].stmts
             r == Gone(p, t, rows)
  <1>1. sess[p] \in Session
    BY DEF StoreInv
  <1>2. /\ s \in Seq(Statement) /\ n \in Nat \ {0} /\ sess[p].script \in Scripts
    BY <1>1, AtStatement DEF Session
  <1>3. /\ StartOf(s, n) \in {"select", "flush", "commit"}
        /\ StartOf(s, n) \in {"select", "flush"} => n \in 1..Len(s)
        /\ StartOf(s, n) = "flush" => s[n].op # "append"
    BY <1>2, StartIsSound
  <1>4. sess[p].script # None
    BY <1>2, StoreAssumption
  <1>5. Onward(p) \in Session
    BY <1>1, <1>2, <1>3 DEF Onward, Session
  <1>6. r \in Session
    BY <1>5 DEF Session, Gone
  <1>7. /\ r.pc = StartOf(s, n) /\ r.script = sess[p].script /\ r.stmts = s
        /\ r.pos = n /\ r.seen = {} /\ r.tables = t /\ r.rows = rows
    BY <1>1 DEF Onward, Session, Gone
  <1> HIDE DEF n, s, r
  <1>8. Sound(r, holds, db)
    BY <1>3, <1>4, <1>7 DEF Sound
  <1>9. QED
    BY <1>6, <1>8 DEF r

(* A write that no constraint refuses. *)
LEMMA WriteIsSound ==
  ASSUME StoreInv, NEW p \in Process, sess[p].pc = "flush", ~Violates(p)
  PROVE  /\ RowsAfter(p) \in Seq(Row) /\ OneActive(RowsAfter(p))
         /\ Effect(Tables(p), St(p)) \in TableSet
         /\ KeepsEvents(db, Effect(Tables(p), St(p)))
  <1>1. /\ Tables(p) \in TableSet /\ Rows(p) \in Seq(Row)
        /\ OneActive(Rows(p)) /\ KeepsEvents(db, Tables(p))
    BY ViewsAreSound
  <1>2. St(p) \in Statement /\ St(p).key \in Key /\ St(p).value \in Value
    BY AtStatement DEF Statement
  <1>3. Effect(Tables(p), St(p)) \in TableSet
    BY <1>1, <1>2, EffectIsTables
  <1>4. RowsAfter(p) \in Seq(Row) /\ OneActive(RowsAfter(p))
    <2>1. CASE St(p).op = "reserve"
      <3> DEFINE r == [listing |-> St(p).key, cand |-> St(p).value, active |-> TRUE]
      <3>1. r \in Row /\ r.listing = St(p).key
        BY <1>2 DEF Row
      <3>2. ActiveRows(Rows(p), r.listing) = {}
        BY <2>1, <3>1 DEF Violates
      <3>3. RowsAfter(p) = Append(Rows(p), r)
        BY <2>1 DEF RowsAfter
      <3> HIDE DEF r
      <3>4. QED
        BY <1>1, <3>1, <3>2, <3>3, ReserveKeepsOne
    <2>2. CASE St(p).op = "deactivate"
      <3>1. RowsAfter(p) = Deactivated(Rows(p), sess[p].seen)
        BY <2>2 DEF RowsAfter, Deactivated
      <3>2. QED
        BY <1>1, <3>1, DeactivateKeepsOne
    <2>3. CASE St(p).op \notin {"reserve", "deactivate"}
      BY <1>1, <2>3 DEF RowsAfter
    <2>4. QED
      BY <2>1, <2>2, <2>3
  <1>5. ASSUME St(p).op = "append"
        PROVE  St(p).key \notin DOMAIN Tables(p).ledger
    <2>1. sess[p].seen = {}
      BY <1>5 DEF StoreInv, Sound, St
    <2>2. Found(p) = {}
      BY <1>5, <2>1 DEF Violates
    <2>3. QED
      BY <1>5, <2>2 DEF Found
  <1>6. KeepsEvents(Tables(p), Effect(Tables(p), St(p)))
    BY <1>1, <1>2, <1>5, EffectKeepsEvents
  <1>7. QED
    BY <1>1, <1>3, <1>4, <1>6 DEF KeepsEvents

LEMMA FlushKeepsInv ==
  ASSUME StoreInv, NEW p \in Process, Flush(p)
  PROVE  StoreInv'
  <1>1. sess[p].pc = "flush" /\ sess[p] \in Session /\ Sound(sess[p], lock = p, db)
    BY DEF Flush, StoreInv
  <1>2. CASE NoWrite(p)
    <2> DEFINE r == Gone(p, sess[p].tables, sess[p].rows)
    <2>1. sess[p].tables \in TableSet /\ sess[p].rows \in Seq(Row)
      BY <1>1 DEF Session
    <2>2. lock = p => OneActive(sess[p].rows) /\ KeepsEvents(db, sess[p].tables)
      BY <1>1 DEF Sound
    <2>3. r \in Session /\ Sound(r, lock = p, db)
      <3>1. (lock = p) \in BOOLEAN
        OBVIOUS
      <3>2. QED
        BY <1>1, <2>1, <2>2, <3>1, OnwardIsSound
    <2>4. Onward(p) = r
      BY <1>1 DEF Onward, Session, Gone
    <2>5. sess' = [sess EXCEPT ![p] = r] /\ UNCHANGED <<db, claims, lock, done>>
      BY <1>2, <2>4 DEF Flush
    <2> HIDE DEF r
    <2>6. QED
      BY <2>3, <2>5, SessionStep DEF StoreInv
  <1>3. CASE ~NoWrite(p) /\ Violates(p)
    BY <1>3, RollbackKeepsInv DEF Flush
  <1>4. CASE ~NoWrite(p) /\ ~Violates(p)
    <2> DEFINE t == Effect(Tables(p), St(p))
               r == Gone(p, t, RowsAfter(p))
    <2>1. /\ RowsAfter(p) \in Seq(Row) /\ OneActive(RowsAfter(p))
          /\ t \in TableSet /\ KeepsEvents(db, t)
      BY <1>1, <1>4, WriteIsSound
    <2>2. /\ sess' = [sess EXCEPT ![p] = r] /\ lock' = p /\ lock \in {None, p}
          /\ UNCHANGED <<db, claims, done>>
      BY <1>4 DEF Flush, Gone
    <2> HIDE DEF t
    <2>3. r \in Session /\ Sound(r, TRUE, db)
      BY <1>1, <2>1, OnwardIsSound
    <2> HIDE DEF r
    <2>4. Sound(r, lock' = p, db)
      BY <2>2, <2>3
    <2>5. QED
      BY <2>2, <2>3, <2>4, SessionStep
  <1>5. QED
    BY <1>2, <1>3, <1>4

LEMMA CommitKeepsInv ==
  ASSUME StoreInv, NEW p \in Process, Commit(p)
  PROVE  StoreInv' /\ KeepsEvents(db, db')
  <1>1. /\ db' = Tables(p) /\ claims' = Rows(p)
        /\ sess' = [sess EXCEPT ![p] = Closed]
        /\ lock' = IF lock = p THEN None ELSE lock
        /\ done' = done \cup {sess[p].script}
    BY DEF Commit, Closes
  <1>2. /\ Tables(p) \in TableSet /\ Rows(p) \in Seq(Row)
        /\ OneActive(Rows(p)) /\ KeepsEvents(db, Tables(p))
        /\ lock # p => Tables(p) = db /\ Rows(p) = claims
    BY ViewsAreSound
  <1>3. sess[p].script \in Scripts
    BY DEF Commit, StoreInv, Sound, Session
  <1>4. /\ db' \in TableSet /\ claims' \in Seq(Row) /\ done' \subseteq Scripts
        /\ sess' \in [Process -> Session] /\ lock' \in Process \cup {None}
    BY <1>1, <1>2, <1>3, ClosedIsSound DEF StoreInv
  <1>5. OneActiveClaim'
    BY <1>1, <1>2 DEF OneActiveClaim, OneActive
  <1>6. ASSUME NEW q \in Process PROVE Sound(sess'[q], lock' = q, db')
    <2>1. lock' # p
      BY <1>1, StoreAssumption
    <2>2. CASE q = p
      <3>1. sess'[q] = Closed
        BY <1>1, <2>2 DEF StoreInv
      <3>2. QED
        BY <2>1, <2>2, <3>1, ClosedIsSound DEF Sound
    <2>3. CASE q # p
      <3>1. sess'[q] = sess[q] /\ Sound(sess[q], lock = q, db)
        BY <1>1, <2>3 DEF StoreInv
      <3>2. lock' = q => lock = q /\ db' = db
        BY <1>1, <1>2, <2>3, StoreAssumption
      <3>3. QED
        BY <3>1, <3>2 DEF Sound
    <2>4. QED
      BY <2>2, <2>3
  <1>7. QED
    BY <1>1, <1>2, <1>4, <1>5, <1>6 DEF StoreInv

-----------------------------------------------------------------------------
(* Every step keeps the invariant, and every event that was committed.     *)
LEMMA InitIsSound == Init => StoreInv
  <1> SUFFICES ASSUME Init PROVE StoreInv
    OBVIOUS
  <1>1. /\ db \in TableSet /\ claims \in Seq(Row) /\ done \subseteq Scripts
        /\ sess \in [Process -> Session] /\ lock \in Process \cup {None}
    BY EmptyIsTables, ClosedIsSound DEF Init
  <1>2. OneActiveClaim
    BY DEF Init, OneActiveClaim, OneActive
  <1>3. ASSUME NEW p \in Process PROVE Sound(sess[p], lock = p, db)
    <2>1. lock # p /\ sess[p] = Closed
      BY StoreAssumption DEF Init
    <2>2. QED
      BY <2>1, ClosedIsSound DEF Sound
  <1>4. QED
    BY <1>1, <1>2, <1>3 DEF StoreInv

LEMMA NextIsSound ==
  ASSUME StoreInv, [Next]_vars
  PROVE  StoreInv' /\ KeepsEvents(db, db')
  <1>1. KeepsEvents(db, db)
    BY DEF KeepsEvents
  <1>2. ASSUME NEW p \in Process, Begin(p) PROVE StoreInv' /\ KeepsEvents(db, db')
    BY <1>1, <1>2, BeginKeepsInv DEF Begin
  <1>3. ASSUME NEW p \in Process, Rollback(p) PROVE StoreInv' /\ KeepsEvents(db, db')
    BY <1>1, <1>3, RollbackKeepsInv DEF Rollback
  <1>4. ASSUME NEW p \in Process, Select(p) PROVE StoreInv' /\ KeepsEvents(db, db')
    <2>1. db' = db
      BY <1>4 DEF Select, Rollback
    <2>2. QED
      BY <1>1, <1>4, <2>1, SelectKeepsInv
  <1>5. ASSUME NEW p \in Process, Flush(p) PROVE StoreInv' /\ KeepsEvents(db, db')
    <2>1. db' = db
      BY <1>5 DEF Flush, Rollback
    <2>2. QED
      BY <1>1, <1>5, <2>1, FlushKeepsInv
  <1>6. ASSUME NEW p \in Process, Busy(p) \/ Raise(p)
        PROVE  StoreInv' /\ KeepsEvents(db, db')
    BY <1>3, <1>6 DEF Busy, Raise
  <1>7. ASSUME NEW p \in Process, Commit(p) PROVE StoreInv' /\ KeepsEvents(db, db')
    BY <1>7, CommitKeepsInv
  <1>8. CASE UNCHANGED vars
    BY <1>1, <1>8 DEF vars, StoreInv, OneActiveClaim
  <1>9. QED
    BY <1>2, <1>4, <1>5, <1>6, <1>7, <1>8 DEF Next

THEOREM StoreInvariant == Spec => []StoreInv
  BY InitIsSound, NextIsSound, PTL DEF Spec

(* Types, and that only a session with a script holds the lock.            *)
THEOREM TypeCorrect == Spec => []TypeOK
  <1>1. StoreInv => TypeOK
    BY DEF StoreInv, TypeOK, Sound, Session
  <1>2. QED
    BY <1>1, StoreInvariant, PTL

(* The database never has two active reservations of one listing, whatever *)
(* the sessions read before they wrote.                                    *)
THEOREM AtMostOneActiveClaim == Spec => []OneActiveClaim
  <1>1. StoreInv => OneActiveClaim
    BY DEF StoreInv
  <1>2. QED
    BY <1>1, StoreInvariant, PTL

(* A committed event keeps its amount for ever.                            *)
THEOREM EventsAreKept == Spec => LedgerIsAppendOnly
  <1>1. StoreInv /\ [Next]_vars =>
          [\A id \in DOMAIN db.ledger : id \in DOMAIN db'.ledger
                                          /\ db'.ledger[id] = db.ledger[id]]_vars
    BY NextIsSound DEF KeepsEvents
  <1>2. QED
    BY <1>1, StoreInvariant, PTL DEF Spec, LedgerIsAppendOnly

-----------------------------------------------------------------------------
(* What a session has done so far is what its script does in one step.     *)

(* h goes through what the first n statements of a script leave.           *)
IsRun(h, d, script, n) ==
  h = [k \in 0..n |-> IF k = 0 THEN d ELSE Effect(h[k - 1], script[k])]

Appended(script, n) == {script[i].key : i \in {j \in 1..n : script[j].op = "append"}}

(* Each of the first n statements that appends brings a new event.         *)
Fresh(d, script, n) ==
  \A i \in 1..n : script[i].op = "append" =>
    /\ script[i].key \notin DOMAIN d.ledger
    /\ \A j \in 1..i - 1 : script[j].op = "append" => script[j].key # script[i].key

(* What the first n statements of a script make of d is t.                 *)
Leaves(d, script, n, t) ==
  /\ \E h : IsRun(h, d, script, n) /\ h[n] = t
  /\ Fresh(d, script, n)
  /\ DOMAIN t.ledger = DOMAIN d.ledger \cup Appended(script, n)
  /\ DOMAIN d.snapshots \subseteq DOMAIN t.snapshots
  /\ DOMAIN d.upserted \subseteq DOMAIN t.upserted

(* A session with the lock is as far as its script from the committed      *)
(* tables; one without it has found nothing to write.  A row it saw is     *)
(* still there. *)
Follows(s, holds, d, dn) ==
  s.pc # "closed" =>
    /\ s.script \notin dn
    /\ s.pc = "commit" => s.pos = Len(s.stmts) + 1
    /\ (s.pc = "flush" /\ s.stmts[s.pos].op = "snapshot" /\ s.seen # {}) =>
         s.stmts[s.pos].key \in DOMAIN (IF holds THEN s.tables ELSE d).snapshots
    /\ (s.pc = "flush" /\ s.stmts[s.pos].op = "upsert" /\ s.seen # {}) =>
         s.stmts[s.pos].key \in DOMAIN (IF holds THEN s.tables ELSE d).upserted
    /\ holds => Leaves(d, s.stmts, s.pos - 1, s.tables)
    /\ ~holds => \A i \in 1..s.pos - 1 : Neutral(d, s.stmts[i])

(* Statement i of t is an upsert worked out from a row of the past ps, and *)
(* none before it writes to d. *)
DecidedFrom(ps, d, t, i) ==
  /\ t[i].op = "upsert" /\ t[i].cols \in SUBSET Column
  /\ \E old \in ps : t[i].key \in DOMAIN old /\ t[i].cols = Changed(old[t[i].key], t[i].value)
  /\ \A j \in 1..i - 1 : Neutral(d, t[j])

(* What a session runs is its script, but for such upserts among those it  *)
(* has loaded. *)
Decided(s, ps, d) ==
  /\ DOMAIN s.stmts = DOMAIN s.script
  /\ \A i \in DOMAIN s.stmts :
       /\ s.stmts[i] = [s.script[i] EXCEPT !.cols = s.stmts[i].cols]
       /\ s.stmts[i] = s.script[i] \/ DecidedFrom(ps, d, s.stmts, i)
       /\ i > s.pos \/ (s.pc # "flush" /\ i = s.pos) => s.stmts[i] = s.script[i]

RefineInv ==
  /\ StoreInv
  /\ db.upserted \in past
  /\ \A p \in Process : Follows(sess[p], lock = p, db, done)
  /\ \A p \in Process : sess[p].pc # "closed" => Decided(sess[p], past, db)
  /\ \A p, q \in Process : p # q /\ sess[p].pc # "closed" => sess[p].script # sess[q].script

-----------------------------------------------------------------------------
(* Two runs of the same statements agree. *)
LEMMA RunsAgree ==
  ASSUME NEW d, NEW script, NEW n \in Nat, NEW g, NEW h,
         IsRun(g, d, script, n), IsRun(h, d, script, n)
  PROVE  g[n] = h[n]
  <1> DEFINE S == {k \in Nat : k <= n => g[k] = h[k]}
  <1>1. /\ \A k \in 0..n : g[k] = IF k = 0 THEN d ELSE Effect(g[k - 1], script[k])
        /\ \A k \in 0..n : h[k] = IF k = 0 THEN d ELSE Effect(h[k - 1], script[k])
    BY DEF IsRun
  <1>2. 0 \in S
    BY <1>1
  <1>3. ASSUME NEW k \in S \cap Nat PROVE k + 1 \in S
    <2>1. CASE k + 1 <= n
      <3>1. k + 1 \in 0..n /\ k + 1 # 0 /\ (k + 1) - 1 = k /\ g[k] = h[k]
        BY <1>3, <2>1
      <3>2. g[k + 1] = h[k + 1]
        BY <1>1, <3>1
      <3>3. QED
        BY <3>2
    <2>2. CASE ~(k + 1 <= n)
      BY <2>2
    <2>3. QED
      BY <2>1, <2>2
  <1> HIDE DEF S
  <1>4. n \in S
    BY <1>2, <1>3, Induction
  <1>5. QED
    BY <1>4 DEF S

(* A run through a whole script ends with what the script leaves. *)
LEMMA RunIsAfter ==
  ASSUME NEW d, NEW script, NEW h, Len(script) \in Nat, IsRun(h, d, script, Len(script))
  PROVE  After(d, script) = h[Len(script)]
  <1> DEFINE n == Len(script)
             W(f) == f = [k \in 0..n |-> IF k = 0 THEN d ELSE Effect(f[k - 1], script[k])]
             g == CHOOSE f : W(f)
  <1>1. After(d, script) = g[n]
    BY DEF After
  <1>2. W(h)
    BY DEF IsRun
  <1> HIDE DEF W
  <1>3. W(g)
    BY <1>2
  <1> HIDE DEF g
  <1>4. IsRun(g, d, script, n)
    BY <1>3 DEF W, IsRun
  <1>5. QED
    BY <1>1, <1>4, RunsAgree

(* A run goes on with the next statement. *)
LEMMA RunGoesOn ==
  ASSUME NEW d, NEW script, NEW n \in Nat, NEW h, IsRun(h, d, script, n)
  PROVE  \E g : IsRun(g, d, script, n + 1) /\ g[n + 1] = Effect(h[n], script[n + 1])
  <1> DEFINE g == [k \in 0..n + 1 |-> IF k <= n THEN h[k] ELSE Effect(h[k - 1], script[k])]
  <1>1. \A k \in 0..n : h[k] = IF k = 0 THEN d ELSE Effect(h[k - 1], script[k])
    BY DEF IsRun
  <1>2. \A k \in 0..n : g[k] = h[k]
    OBVIOUS
  <1>3. g[n + 1] = Effect(h[n], script[n + 1])
    <2>1. n + 1 \in 0..n + 1 /\ ~(n + 1 <= n) /\ (n + 1) - 1 = n
      OBVIOUS
    <2>2. QED
      BY <2>1
  <1>4. g = [k \in 0..n + 1 |-> g[k]]
    OBVIOUS
  <1> HIDE DEF g
  <1>5. ASSUME NEW k \in 0..n + 1
        PROVE  g[k] = IF k = 0 THEN d ELSE Effect(g[k - 1], script[k])
    <2>1. CASE k \in 0..n
      <3>1. k # 0 => k - 1 \in 0..n
        BY <2>1
      <3>2. QED
        BY <1>1, <1>2, <2>1, <3>1
    <2>2. CASE k = n + 1
      <3>1. k # 0 /\ k - 1 = n /\ n \in 0..n
        BY <2>2
      <3>2. QED
        BY <1>2, <1>3, <2>2, <3>1
    <2>3. QED
      BY <2>1, <2>2
  <1>6. IsRun(g, d, script, n + 1)
    BY <1>4, <1>5 DEF IsRun
  <1>7. QED
    BY <1>3, <1>6

(* Statements with nothing to write leave everything as it is. *)
LEMMA NeutralWritesNothing ==
  ASSUME NEW d \in TableSet, NEW st, Neutral(d, st)
  PROVE  Effect(d, st) = d
  <1>1. CASE st.op \in {"deactivate", "snapshot"}
    BY <1>1 DEF Neutral, Effect
  <1>2. CASE st.op = "upsert"
    <2> DEFINE f == d.upserted
               k == st.key
    <2>1. f \in Table /\ k \in DOMAIN f /\ st.cols = {}
      BY <1>2 DEF TableSet, Neutral
    <2>2. PICK D \in SUBSET Key : f \in [D -> Value]
      BY <2>1 DEF Table
    <2>3. f[k] \in [Column -> Cell]
      BY <2>1, <2>2 DEF Value
    <2>4. Merged(f, st) = f[k]
      BY <2>1, <2>3 DEF Merged
    <2>5. With(f, k, f[k]) = f
      <3>1. DOMAIN f \cup {k} = DOMAIN f
        BY <2>1
      <3>2. f = [x \in DOMAIN f |-> f[x]]
        BY <2>2
      <3> HIDE DEF f, k
      <3>3. QED
        BY <3>1, <3>2 DEF With
    <2>6. Effect(d, st) = [d EXCEPT !.upserted = With(f, k, Merged(f, st))]
      BY <1>2 DEF Effect
    <2>7. QED
      BY <2>4, <2>5, <2>6 DEF TableSet
  <1>3. QED
    BY <1>1, <1>2 DEF Neutral

LEMMA NeutralsLeave ==
  ASSUME NEW d \in TableSet, NEW script, NEW n \in Nat, \A i \in 1..n : Neutral(d, script[i])
  PROVE  Leaves(d, script, n, d)
  <1> DEFINE h == [k \in 0..n |-> d]
  <1>1. \A i \in 1..n : Effect(d, script[i]) = d
    BY NeutralWritesNothing
  <1>2. ASSUME NEW k \in 0..n
        PROVE  h[k] = IF k = 0 THEN d ELSE Effect(h[k - 1], script[k])
    <2>1. k # 0 => k - 1 \in 0..n /\ k \in 1..n
      OBVIOUS
    <2>2. QED
      BY <1>1, <2>1
  <1>3. h = [k \in 0..n |-> h[k]] /\ h[n] = d
    OBVIOUS
  <1> HIDE DEF h
  <1>4. IsRun(h, d, script, n)
    BY <1>2, <1>3 DEF IsRun
  <1>5. \A i \in 1..n : script[i].op # "append"
    BY DEF Neutral
  <1>6. Appended(script, n) = {} /\ Fresh(d, script, n)
    BY <1>5 DEF Appended, Fresh
  <1>7. QED
    BY <1>3, <1>4, <1>6 DEF Leaves

(* One statement more. *)
LEMMA OneMoreLeaves ==
  ASSUME NEW d \in TableSet, NEW t \in TableSet, NEW script, NEW n \in Nat,
         Leaves(d, script, n, t), script[n + 1] \in Statement,
         script[n + 1].op = "append" => script[n + 1].key \notin DOMAIN t.ledger
  PROVE  Leaves(d, script, n + 1, Effect(t, script[n + 1]))
  <1> DEFINE st == script[n + 1]
             u == Effect(t, st)
  <1>1. \E g : IsRun(g, d, script, n + 1) /\ g[n + 1] = u
    BY RunGoesOn DEF Leaves
  <1>2. \A i \in 1..n + 1 : i \in 1..n \/ i = n + 1
    OBVIOUS
  <1> HIDE DEF u
  <1>4. DOMAIN t.snapshots \subseteq DOMAIN u.snapshots
    <2> HIDE DEF st
    <2>1. DOMAIN With(t.snapshots, st.key, st.value) = DOMAIN t.snapshots \cup {st.key}
      BY DEF With
    <2>2. u.snapshots = t.snapshots \/ u.snapshots = With(t.snapshots, st.key, st.value)
      BY DEF u, Effect, TableSet
    <2>3. QED
      BY <2>1, <2>2
  <1>8. DOMAIN t.upserted \subseteq DOMAIN u.upserted
    <2> HIDE DEF st
    <2>1. DOMAIN With(t.upserted, st.key, Merged(t.upserted, st)) = DOMAIN t.upserted \cup {st.key}
      BY DEF With
    <2>2. u.upserted = t.upserted \/ u.upserted = With(t.upserted, st.key, Merged(t.upserted, st))
      BY DEF u, Effect, TableSet
    <2>3. QED
      BY <2>1, <2>2
  <1>5. CASE st.op = "append"
    <2>1. DOMAIN u.ledger = DOMAIN t.ledger \cup {st.key}
      <3>1. u.ledger = With(t.ledger, st.key, st.value)
        BY <1>5, EffectIsTables DEF u
      <3> HIDE DEF st
      <3>2. QED
        BY <3>1 DEF With
    <2>2. Appended(script, n + 1) = Appended(script, n) \cup {st.key}
      BY <1>2, <1>5 DEF Appended
    <2>3. Fresh(d, script, n + 1)
      <3>1. st.key \notin DOMAIN d.ledger /\ st.key \notin Appended(script, n)
        BY <1>5 DEF Leaves
      <3>2. \A j \in 1..n : script[j].op = "append" => script[j].key # st.key
        BY <3>1 DEF Appended
      <3>3. (n + 1) - 1 = n
        OBVIOUS
      <3>4. QED
        BY <1>2, <3>1, <3>2, <3>3 DEF Leaves, Fresh
    <2>4. QED
      BY <1>1, <1>4, <1>8, <2>1, <2>2, <2>3 DEF Leaves, u
  <1>6. CASE st.op # "append"
    <2>1. u.ledger = t.ledger
      BY <1>6, EffectIsTables DEF u
    <2>2. Appended(script, n + 1) = Appended(script, n) /\ Fresh(d, script, n + 1)
      BY <1>2, <1>6 DEF Leaves, Appended, Fresh
    <2>3. QED
      BY <1>1, <1>4, <1>8, <2>1, <2>2 DEF Leaves, u
  <1>7. QED
    BY <1>5, <1>6

-----------------------------------------------------------------------------
(* Every step keeps what a session has done in line with its script.       *)

(* What an open session sees is what its statements so far make of the     *)
(* committed tables, whatever was committed since it began.                *)
LEMMA ViewFollows ==
  ASSUME RefineInv, NEW p \in Process, sess[p].pc # "closed"
  PROVE  Leaves(db, sess[p].stmts, sess[p].pos - 1, Tables(p))
  <1>1. Follows(sess[p], lock = p, db, done)
    BY DEF RefineInv
  <1>2. sess[p].pos - 1 \in Nat
    BY DEF RefineInv, StoreInv, Session
  <1>3. CASE lock = p
    BY <1>1, <1>3 DEF Follows, Tables
  <1>4. CASE lock # p
    <2>1. \A i \in 1..sess[p].pos - 1 : Neutral(db, sess[p].stmts[i])
      BY <1>1, <1>4 DEF Follows
    <2>2. Leaves(db, sess[p].stmts, sess[p].pos - 1, db)
      BY <1>2, <2>1, NeutralsLeave DEF RefineInv, StoreInv
    <2>3. QED
      BY <1>4, <2>2 DEF Tables
  <1>5. QED
    BY <1>3, <1>4

(* One session moves to record s, and nothing is committed.                *)
LEMMA SessionRefines ==
  ASSUME RefineInv, StoreInv', NEW p \in Process, NEW s,
         sess' = [sess EXCEPT ![p] = s],
         \A q \in Process : q # p => (lock' = q <=> lock = q),
         Follows(s, lock' = p, db, done),
         s.pc # "closed" => Decided(s, past, db),
         s.script = None \/ \A q \in Process : q # p => s.script # sess[q].script,
         db' = db, past' = past, done' = done
  PROVE  RefineInv'
  <1>1. /\ sess'[p] = s
        /\ \A q \in Process : q # p => sess'[q] = sess[q]
    BY DEF RefineInv, StoreInv
  <1>2. ASSUME NEW q \in Process PROVE Follows(sess'[q], lock' = q, db', done')
    <2>1. CASE q = p
      BY <1>1, <2>1
    <2>2. CASE q # p
      <3>1. sess'[q] = sess[q] /\ (lock' = q) = (lock = q)
        BY <1>1, <2>2
      <3>2. Follows(sess[q], lock = q, db, done)
        BY DEF RefineInv
      <3>3. QED
        BY <3>1, <3>2
    <2>3. QED
      BY <2>1, <2>2
  <1>3. \A q \in Process : sess'[q].pc # "closed" => sess'[q].script # None
    BY DEF StoreInv, Sound
  <1>6. ASSUME NEW q \in Process, sess'[q].pc # "closed" PROVE Decided(sess'[q], past', db')
    BY <1>1, <1>6 DEF RefineInv
  <1>4. ASSUME NEW q \in Process, NEW r \in Process, q # r, sess'[q].pc # "closed"
        PROVE  sess'[q].script # sess'[r].script
    <2>1. CASE q = p
      BY <1>1, <1>3, <1>4, <2>1
    <2>2. CASE r = p
      <3>1. sess'[q].script # None /\ sess'[q] = sess[q] /\ sess'[r] = s
        BY <1>1, <1>3, <1>4, <2>2
      <3>2. QED
        BY <1>4, <2>2, <3>1
    <2>3. CASE q # p /\ r # p
      BY <1>1, <1>4, <2>3 DEF RefineInv
    <2>4. QED
      BY <2>1, <2>2, <2>3
  <1>5. QED
    BY <1>2, <1>4, <1>6 DEF RefineInv

LEMMA RollbackRefines ==
  ASSUME RefineInv, StoreInv', NEW p \in Process, Rollback(p)
  PROVE  RefineInv'
  <1>1. /\ sess' = [sess EXCEPT ![p] = Closed]
        /\ lock' = IF lock = p THEN None ELSE lock
        /\ db' = db /\ past' = past /\ done' = done
    BY DEF Rollback, Closes
  <1>2. \A q \in Process : q # p => (lock' = q <=> lock = q)
    BY <1>1, StoreAssumption
  <1>3. Closed.script = None /\ Closed.pc = "closed" /\ Follows(Closed, lock' = p, db, done)
    BY DEF Closed, Follows
  <1>4. QED
    BY <1>1, <1>2, <1>3, SessionRefines

LEMMA BeginRefines ==
  ASSUME RefineInv, StoreInv', NEW p \in Process, Begin(p)
  PROVE  RefineInv'
  <1>1. PICK s \in Scripts \ done :
          /\ \A q \in Process : sess[q].script # s
          /\ sess' = [sess EXCEPT ![p] = Opened(s)]
    BY DEF Begin
  <1> DEFINE r == Opened(s)
  <1>2. /\ r.pc = StartOf(s, 1) /\ r.script = s /\ r.stmts = s /\ r.pos = 1 /\ r.seen = {}
        /\ sess' = [sess EXCEPT ![p] = r]
    BY <1>1 DEF Closed, Opened
  <1>3. UNCHANGED <<db, past, claims, lock, done>> /\ lock # p
    BY DEF Begin, RefineInv, StoreInv, Sound
  <1>4. Len(s) \in Nat /\ (StartOf(s, 1) = "commit" => 1 = Len(s) + 1)
    <2>1. Len(s) \in Nat
      BY StoreAssumption
    <2>2. QED
      BY <2>1 DEF StartOf
  <1> HIDE DEF r
  <1>5. Follows(r, lock' = p, db, done)
    <2>1. 1..r.pos - 1 = {}
      BY <1>2
    <2>2. QED
      BY <1>1, <1>2, <1>3, <1>4, <2>1 DEF Follows
  <1>6. \A q \in Process : q # p => r.script # sess[q].script
    BY <1>1, <1>2
  <1>7. db' = db /\ past' = past /\ done' = done /\ lock' = lock
    BY <1>3
  <1>9. Decided(r, past, db)
    <2>1. \A i \in DOMAIN s : s[i] \in Statement
      BY StoreAssumption
    <2>2. \A i \in DOMAIN s : s[i] = [s[i] EXCEPT !.cols = s[i].cols]
      BY <2>1 DEF Statement
    <2>3. QED
      BY <1>2, <2>2 DEF Decided
  <1>8. QED
    BY <1>2, <1>5, <1>6, <1>7, <1>9, SessionRefines

(* The row an upsert loads without the lock is the committed one, and      *)
(* nothing was written before. *)
LEMMA LoadedIsDecided ==
  ASSUME RefineInv, NEW p \in Process, sess[p].pc = "select",
         NEW r, r.pc = "flush", r.script = sess[p].script, r.stmts = Loaded(p), r.pos = sess[p].pos
  PROVE  /\ Decided(r, past, db)
         /\ r.stmts[r.pos].op = St(p).op /\ r.stmts[r.pos].key = St(p).key
  <1> DEFINE s == sess[p].stmts
             k == sess[p].pos
             t == Loaded(p)
  <1>1. /\ t \in Seq(Statement) /\ DOMAIN t = DOMAIN s
        /\ \A i \in DOMAIN s : i # k => t[i] = s[i]
        /\ t[k] = [s[k] EXCEPT !.cols = t[k].cols]
    BY LoadedIsScript DEF RefineInv, St
  <1>2. Decided(sess[p], past, db) /\ Follows(sess[p], lock = p, db, done)
    BY DEF RefineInv
  <1>3. /\ k \in 1..Len(s) /\ s \in Seq(Statement) /\ s[k] = St(p) /\ s[k] \in Statement
    BY AtStatement DEF RefineInv, StoreInv, Session, St
  <1>4. /\ DOMAIN s = DOMAIN sess[p].script
        /\ \A i \in DOMAIN s : /\ s[i] = [sess[p].script[i] EXCEPT !.cols = s[i].cols]
                               /\ s[i] = sess[p].script[i] \/ DecidedFrom(past, db, s, i)
                               /\ i > k \/ i = k => s[i] = sess[p].script[i]
    BY <1>2 DEF Decided
  <1>5. DOMAIN s = 1..Len(s) /\ k \in DOMAIN s /\ k \in Int /\ Len(s) \in Nat
    BY <1>3
  <1>6. t[k] = s[k] \/ DecidedFrom(past, db, t, k)
    <2>1. CASE St(p).op = "upsert" /\ Found(p) # {} /\ lock # p
      <3> DEFINE C == Changed(db.upserted[St(p).key], St(p).value)
      <3>1. t = [s EXCEPT ![k].cols = C]
        BY <2>1 DEF Loaded
      <3>2. C \in SUBSET Column
        BY StoreAssumption DEF Changed
      <3>3. St(p).key \in DOMAIN db.upserted
        BY <2>1 DEF Found, Tables
      <3>4. db.upserted \in past
        BY DEF RefineInv
      <3>5. \E old \in past : /\ St(p).key \in DOMAIN old
                              /\ C = Changed(old[St(p).key], St(p).value)
        BY <3>3, <3>4
      <3>6. \A j \in 1..k - 1 : Neutral(db, t[j])
        <4>1. \A j \in 1..k - 1 : Neutral(db, s[j])
          BY <1>2, <2>1 DEF Follows
        <4>2. \A j \in 1..k - 1 : j \in DOMAIN s /\ j # k
          BY <1>5
        <4> HIDE DEF t, s, k
        <4>3. QED
          BY <1>1, <4>1, <4>2
      <3> HIDE DEF C
      <3>7. t[k] = [s[k] EXCEPT !.cols = C]
        BY <1>3, <1>5, <3>1
      <3>8. t[k].op = "upsert" /\ t[k].cols = C /\ t[k].key = St(p).key /\ t[k].value = St(p).value
        BY <1>3, <2>1, <3>7 DEF Statement
      <3> HIDE DEF t, s, k
      <3>9. QED
        BY <3>2, <3>5, <3>6, <3>8 DEF DecidedFrom
    <2>2. CASE ~(St(p).op = "upsert" /\ Found(p) # {} /\ lock # p)
      BY <2>2 DEF Loaded
    <2>3. QED
      BY <2>1, <2>2
  <1> HIDE DEF t, s, k
  <1>7. t[k].op = s[k].op /\ t[k].key = s[k].key
    BY <1>1, <1>3 DEF Statement
  <1>8. s[k] = sess[p].script[k]
    BY <1>4, <1>5
  <1>9. ASSUME NEW i \in DOMAIN t
        PROVE  /\ t[i] = [sess[p].script[i] EXCEPT !.cols = t[i].cols]
               /\ t[i] = sess[p].script[i] \/ DecidedFrom(past, db, t, i)
               /\ i > k => t[i] = sess[p].script[i]
    <2>1. CASE i = k
      BY <1>1, <1>5, <1>6, <1>8, <2>1
    <2>2. CASE i > k
      <3>1. i \in DOMAIN s /\ i # k
        BY <1>1, <1>5, <2>2
      <3>2. t[i] = sess[p].script[i] /\ s[i] = t[i]
        BY <1>1, <1>4, <2>2, <3>1
      <3>3. QED
        BY <1>4, <3>1, <3>2
    <2>3. CASE i < k
      <3>1. i \in DOMAIN s /\ i # k /\ i \in Int /\ ~(i > k)
        BY <1>1, <1>5, <2>3
      <3>2. t[i] = s[i]
        BY <1>1, <3>1
      <3>3. \A j \in 1..i - 1 : t[j] = s[j]
        <4>1. \A j \in 1..i - 1 : j \in DOMAIN s /\ j # k
          BY <1>5, <2>3, <3>1
        <4>2. QED
          BY <1>1, <4>1
      <3>4. DecidedFrom(past, db, s, i) => DecidedFrom(past, db, t, i)
        BY <3>2, <3>3 DEF DecidedFrom
      <3>5. QED
        BY <1>4, <3>1, <3>2, <3>4
    <2>4. QED
      <3>1. i \in Int
        BY <1>1, <1>5
      <3>2. QED
        BY <1>5, <2>1, <2>2, <2>3, <3>1
  <1>10. QED
    BY <1>1, <1>3, <1>4, <1>7, <1>9 DEF Decided, t, s, k

LEMMA SelectRefines ==
  ASSUME RefineInv, StoreInv', NEW p \in Process, Select(p)
  PROVE  RefineInv'
  <1>1. CASE St(p).op = "append" /\ Found(p) # {}
    BY <1>1, RollbackRefines DEF Select
  <1>2. CASE ~(St(p).op = "append" /\ Found(p) # {})
    <2> DEFINE r == [sess[p] EXCEPT !.pc = "flush", !.seen = Found(p), !.stmts = Loaded(p)]
    <2>1. sess[p] \in Session /\ sess[p].pc = "select" /\ Follows(sess[p], lock = p, db, done)
      BY DEF RefineInv, StoreInv, Select
    <2>2. /\ sess' = [sess EXCEPT ![p].pc = "flush", ![p].seen = Found(p), ![p].stmts = Loaded(p)]
          /\ db' = db /\ past' = past /\ lock' = lock /\ done' = done
      BY <1>2 DEF Select
    <2>3. /\ r.pc = "flush" /\ r.seen = Found(p) /\ r.script = sess[p].script
          /\ r.stmts = Loaded(p)
          /\ r.pos = sess[p].pos /\ r.tables = sess[p].tables
      BY <2>1 DEF Session
    <2>4. sess' = [sess EXCEPT ![p] = r]
      BY <2>2 DEF RefineInv, StoreInv
    <2>5. St(p).op = "snapshot" /\ Found(p) # {} =>
            St(p).key \in DOMAIN (IF lock = p THEN sess[p].tables ELSE db).snapshots
      BY DEF Found, Tables
    <2>9. St(p).op = "upsert" /\ Found(p) # {} =>
            St(p).key \in DOMAIN (IF lock = p THEN sess[p].tables ELSE db).upserted
      BY DEF Found, Tables
    <2>10. Decided(r, past, db) /\ r.stmts[r.pos].op = St(p).op /\ r.stmts[r.pos].key = St(p).key
      BY <2>1, <2>3, LoadedIsDecided DEF RefineInv
    <2> HIDE DEF r
    <2>11. \A i \in 1..r.pos - 1 : r.stmts[i] = sess[p].stmts[i]
      <3>1. StoreInv
        BY DEF RefineInv
      <3>2. sess[p].pos \in 1..Len(sess[p].stmts) /\ sess[p].stmts \in Seq(Statement)
        BY <2>1, <3>1, AtStatement DEF Session
      <3>3. \A i \in 1..r.pos - 1 : i \in DOMAIN sess[p].stmts /\ i # sess[p].pos
        BY <2>3, <3>2
      <3>4. \A i \in DOMAIN sess[p].stmts : i # sess[p].pos => Loaded(p)[i] = sess[p].stmts[i]
        BY <2>1, <3>1, LoadedIsScript
      <3>5. QED
        BY <2>3, <3>3, <3>4
    <2>12. lock = p => Leaves(db, r.stmts, r.pos - 1, r.tables)
      <3>1. lock = p => r.stmts = sess[p].stmts
        BY <2>3 DEF Loaded
      <3>2. QED
        BY <2>1, <2>3, <3>1 DEF Follows
    <2>6. Follows(r, lock' = p, db, done)
      BY <2>1, <2>2, <2>3, <2>5, <2>9, <2>10, <2>11, <2>12 DEF Follows
    <2>7. \A q \in Process : q # p => r.script # sess[q].script
      BY <2>1, <2>3 DEF RefineInv
    <2>8. QED
      BY <2>2, <2>4, <2>6, <2>7, <2>10, SessionRefines
  <1>3. QED
    BY <1>1, <1>2

(* The record of a session that has gone past its statement, having        *)
(* written it or found nothing to write.                                   *)
LEMMA OnwardFollows ==
  ASSUME RefineInv, NEW p \in Process, sess[p].pc = "flush", NEW holds \in BOOLEAN,
         NEW r,
         r.pc = StartOf(sess[p].stmts, sess[p].pos + 1), r.stmts = sess[p].stmts,
         r.script = sess[p].script, r.pos = sess[p].pos + 1, r.seen = {},
         holds => Leaves(db, sess[p].stmts, sess[p].pos, r.tables),
         ~holds => lock # p /\ Neutral(db, St(p))
  PROVE  /\ Follows(r, holds, db, done) /\ Decided(r, past, db)
         /\ \A q \in Process : q # p => r.script # sess[q].script
  <1>1. /\ Follows(sess[p], lock = p, db, done)
        /\ \A q \in Process : q # p => r.script # sess[q].script
    BY DEF RefineInv
  <1>2. /\ sess[p].script \in Scripts /\ sess[p].pos \in 1..Len(sess[p].stmts)
        /\ sess[p].stmts \in Seq(Statement)
    BY AtStatement DEF RefineInv, StoreInv, Session
  <1>3. Len(sess[p].stmts) \in Nat
    BY <1>2
  <1>4. r.pc = "commit" => r.pos = Len(r.stmts) + 1
    BY <1>2, <1>3 DEF StartOf
  <1>5. r.pos - 1 = sess[p].pos
    BY <1>2
  <1>6. ~holds => \A i \in 1..r.pos - 1 : Neutral(db, r.stmts[i])
    <2>1. \A i \in 1..sess[p].pos : i \in 1..sess[p].pos - 1 \/ i = sess[p].pos
      BY <1>2
    <2>2. QED
      BY <1>1, <1>5, <2>1 DEF Follows, St
  <1>7. sess[p].script \notin done
    BY <1>1 DEF Follows
  <1>8. Decided(r, past, db)
    <2>1. Decided(sess[p], past, db) /\ r.pc # "flush" => StartOf(r.stmts, r.pos) # "flush"
      BY DEF RefineInv
    <2>2. \A i \in DOMAIN r.stmts : i > r.pos \/ i = r.pos => i > sess[p].pos
      BY <1>2
    <2>3. QED
      BY <2>2 DEF RefineInv, Decided
  <1>9. QED
    BY <1>1, <1>4, <1>5, <1>6, <1>7, <1>8 DEF Follows

LEMMA FlushRefines ==
  ASSUME RefineInv, StoreInv', NEW p \in Process, Flush(p)
  PROVE  RefineInv'
  <1>1. sess[p] \in Session /\ sess[p].pc = "flush" /\ Follows(sess[p], lock = p, db, done)
    BY DEF RefineInv, StoreInv, Flush
  <1>2. /\ sess[p].script \in Scripts /\ sess[p].pos \in 1..Len(sess[p].stmts)
        /\ St(p) \in Statement
    BY <1>1, AtStatement DEF RefineInv
  <1>3. Leaves(db, sess[p].stmts, sess[p].pos - 1, Tables(p))
    BY <1>1, ViewFollows
  <1>4. Tables(p) \in TableSet /\ db \in TableSet
    BY ViewsAreSound DEF RefineInv, StoreInv
  <1>5. ASSUME St(p).op = "append" => St(p).key \notin DOMAIN Tables(p).ledger
        PROVE  Leaves(db, sess[p].stmts, sess[p].pos, Effect(Tables(p), St(p)))
    <2> DEFINE n == sess[p].pos - 1
    <2>1. n \in Nat /\ n + 1 = sess[p].pos
      BY <1>2
    <2>2. St(p) = sess[p].stmts[n + 1]
      BY <2>1 DEF St
    <2> HIDE DEF n
    <2>3. Leaves(db, sess[p].stmts, n, Tables(p))
      BY <1>3 DEF n
    <2>4. Leaves(db, sess[p].stmts, n + 1, Effect(Tables(p), sess[p].stmts[n + 1]))
      BY <1>2, <1>4, <1>5, <2>1, <2>2, <2>3, OneMoreLeaves
    <2>5. QED
      BY <2>1, <2>2, <2>4
  <1>6. CASE NoWrite(p)
    <2> DEFINE r == Onward(p)
    <2>1. /\ sess' = [sess EXCEPT ![p] = r]
          /\ db' = db /\ past' = past /\ lock' = lock /\ done' = done
      BY <1>6 DEF Flush
    <2>2. /\ r.pc = StartOf(sess[p].stmts, sess[p].pos + 1) /\ r.script = sess[p].script
          /\ r.stmts = sess[p].stmts /\ r.pos = sess[p].pos + 1 /\ r.seen = {} /\ r.tables = sess[p].tables
      BY <1>1 DEF Onward, Session
    <2>3. Neutral(Tables(p), St(p))
      BY <1>1, <1>6 DEF NoWrite, Neutral, Follows, Tables, St
    <2>4. Effect(Tables(p), St(p)) = Tables(p) /\ St(p).op # "append"
      BY <1>4, <2>3, NeutralWritesNothing DEF Neutral
    <2>5. lock = p => Leaves(db, sess[p].stmts, sess[p].pos, r.tables)
      <3>1. lock = p => Tables(p) = r.tables
        BY <2>2 DEF Tables
      <3> HIDE DEF r
      <3>2. QED
        BY <1>5, <2>4, <3>1
    <2>6. lock # p => Neutral(db, St(p))
      BY <2>3 DEF Tables
    <2> HIDE DEF r
    <2>7. /\ Follows(r, lock = p, db, done) /\ Decided(r, past, db)
          /\ \A q \in Process : q # p => r.script # sess[q].script
      BY <1>1, <2>2, <2>5, <2>6, OnwardFollows
    <2>8. QED
      BY <2>1, <2>7, SessionRefines
  <1>7. CASE ~NoWrite(p) /\ Violates(p)
    BY <1>7, RollbackRefines DEF Flush
  <1>8. CASE ~NoWrite(p) /\ ~Violates(p)
    <2> DEFINE r == [Onward(p) EXCEPT !.tables = Effect(Tables(p), St(p)), !.rows = RowsAfter(p)]
    <2>1. /\ sess' = [sess EXCEPT ![p] = r]
          /\ lock' = p /\ lock \in {None, p} /\ db' = db /\ past' = past /\ done' = done
      BY <1>8 DEF Flush
    <2>2. /\ r.pc = StartOf(sess[p].stmts, sess[p].pos + 1) /\ r.script = sess[p].script
          /\ r.stmts = sess[p].stmts /\ r.pos = sess[p].pos + 1 /\ r.seen = {}
          /\ r.tables = Effect(Tables(p), St(p))
      BY <1>1 DEF Onward, Session
    <2> HIDE DEF r
    <2>3. St(p).op = "append" => St(p).key \notin DOMAIN Tables(p).ledger
      <3>1. St(p).op = "append" => sess[p].seen = {}
        BY <1>1 DEF RefineInv, StoreInv, Sound, St
      <3>2. QED
        BY <1>8, <3>1 DEF Violates, Found
    <2>4. Leaves(db, sess[p].stmts, sess[p].pos, r.tables)
      BY <1>5, <2>2, <2>3
    <2>5. /\ Follows(r, TRUE, db, done) /\ Decided(r, past, db)
          /\ \A q \in Process : q # p => r.script # sess[q].script
      BY <1>1, <2>2, <2>4, OnwardFollows
    <2>6. /\ \A q \in Process : q # p => (lock' = q <=> lock = q)
          /\ (lock' = p) = TRUE
      BY <2>1, StoreAssumption
    <2>7. Follows(r, lock' = p, db, done)
      BY <2>5, <2>6
    <2>8. QED
      BY <2>1, <2>5, <2>6, <2>7, SessionRefines
  <1>9. QED
    BY <1>6, <1>7, <1>8

(* A commit is the whole script at one moment, on tables nobody else has   *)
(* written to since it took the lock; what the others saw still stands.    *)
LEMMA CommitRefines ==
  ASSUME RefineInv, StoreInv', NEW p \in Process, Commit(p)
  PROVE  /\ RefineInv'
         /\ sess[p].script \in Scripts \ done /\ sess[p].stmts \in Seq(Statement)
         /\ Decided(sess[p], past, db)
         /\ Applicable(db, sess[p].stmts)
         /\ db' = After(db, sess[p].stmts)
         /\ past' = past \cup {db'.upserted}
         /\ done' = done \cup {sess[p].script}
  <1> DEFINE s == sess[p].stmts
             w == sess[p].script
  <1>1. /\ db' = Tables(p) /\ done' = done \cup {w}
        /\ past' = past \cup {db'.upserted}
        /\ sess' = [sess EXCEPT ![p] = Closed]
        /\ lock' = IF lock = p THEN None ELSE lock
        /\ sess[p].pc = "commit"
    BY DEF Commit, Closes
  <1>2. w \in Scripts \ done /\ sess[p].pos = Len(s) + 1 /\ s \in Seq(Statement)
    BY <1>1 DEF RefineInv, StoreInv, Session, Sound, Follows
  <1>3. Len(s) \in Nat /\ DOMAIN s = 1..Len(s)
    BY <1>2
  <1>4. sess[p].pos - 1 = Len(s)
    BY <1>2, <1>3
  <1>5. Leaves(db, s, Len(s), Tables(p))
    BY <1>1, <1>4, ViewFollows
  <1>6. /\ sess'[p] = Closed
        /\ \A q \in Process : q # p => sess'[q] = sess[q]
    BY <1>1 DEF RefineInv, StoreInv
  <1>13. Decided(sess[p], past, db)
    BY <1>1 DEF RefineInv
  <1> HIDE DEF s, w
  <1>7. db' = After(db, s) /\ Applicable(db, s)
    <2>1. PICK h : IsRun(h, db, s, Len(s)) /\ h[Len(s)] = Tables(p)
      BY <1>5 DEF Leaves
    <2>2. After(db, s) = h[Len(s)]
      BY <1>3, <2>1, RunIsAfter
    <2>3. Applicable(db, s)
      BY <1>3, <1>5 DEF Leaves, Fresh, Applicable
    <2>4. QED
      BY <1>1, <2>1, <2>2, <2>3
  <1>8. /\ DOMAIN db.snapshots \subseteq DOMAIN db'.snapshots
        /\ DOMAIN db.upserted \subseteq DOMAIN db'.upserted
    BY <1>1, <1>5 DEF Leaves
  <1>9. ASSUME NEW q \in Process PROVE Follows(sess'[q], lock' = q, db', done')
    <2>1. CASE q = p
      BY <1>6, <2>1 DEF Follows, Closed
    <2>2. CASE q # p
      <3>1. sess'[q] = sess[q] /\ Follows(sess[q], lock = q, db, done)
        BY <1>6, <2>2 DEF RefineInv
      <3>2. (lock' = q) = (lock = q)
        BY <1>1, <2>2, StoreAssumption
      <3>3. sess[q].pc # "closed" => sess[q].script # w
        BY <2>2 DEF RefineInv, w
      <3>4. CASE lock = q
        <4>1. db' = db
          BY <1>1, <2>2, <3>4 DEF Tables
        <4>2. QED
          BY <1>1, <3>1, <3>2, <3>3, <4>1 DEF Follows
      <3>5. CASE lock # q
        BY <1>1, <1>8, <3>1, <3>2, <3>3, <3>5 DEF Follows, Neutral
      <3>6. QED
        BY <3>4, <3>5
    <2>3. QED
      BY <2>1, <2>2
  <1>10. ASSUME NEW q \in Process, NEW r \in Process, q # r, sess'[q].pc # "closed"
         PROVE  sess'[q].script # sess'[r].script
    <2>1. q # p /\ sess'[q] = sess[q]
      BY <1>6, <1>10 DEF Closed
    <2>2. CASE r = p
      <3>1. sess'[q].script # None
        BY <1>10 DEF StoreInv, Sound
      <3>2. QED
        BY <1>6, <2>2, <3>1 DEF Closed
    <2>3. CASE r # p
      BY <1>6, <1>10, <2>1, <2>3 DEF RefineInv
    <2>4. QED
      BY <2>2, <2>3
  <1>14. ASSUME NEW q \in Process, sess'[q].pc # "closed" PROVE Decided(sess'[q], past', db')
    <2>1. sess'[q] = sess[q] /\ q # p
      BY <1>6, <1>14 DEF Closed
    <2>2. Decided(sess[q], past, db)
      BY <1>14, <2>1 DEF RefineInv
    <2>3. \A t, i : DecidedFrom(past, db, t, i) => DecidedFrom(past', db', t, i)
      BY <1>1, <1>8 DEF DecidedFrom, Neutral
    <2>4. QED
      BY <2>1, <2>2, <2>3 DEF Decided
  <1>11. RefineInv'
    BY <1>1, <1>9, <1>10, <1>14 DEF RefineInv
  <1>12. QED
    BY <1>1, <1>2, <1>7, <1>11, <1>13 DEF s, w

LEMMA InitRefines == Init => RefineInv
  <1> SUFFICES ASSUME Init PROVE RefineInv
    OBVIOUS
  <1>1. StoreInv
    BY InitIsSound
  <1>2. \A p \in Process : sess[p].pc = "closed"
    BY DEF Init, Closed
  <1>3. QED
    BY <1>1, <1>2 DEF RefineInv, Follows, Init

(* What a session ran is one of the ways its script can be written.        *)
LEMMA StatementsAreNarrowed ==
  ASSUME NEW s \in Seq(Statement), NEW t \in Seq(Statement), NEW r,
         r.stmts = t, r.script = s, Decided(r, past, db)
  PROVE  \E cols \in [Atomic!Upserts(s) -> SUBSET Column] :
           /\ Atomic!Narrowed(s, cols) = t
           /\ Atomic!WrittenAs(s, Atomic!Narrowed(s, cols))
  <1> DEFINE U == Atomic!Upserts(s)
             cols == [i \in U |-> t[i].cols]
  <1>1. /\ DOMAIN t = DOMAIN s
        /\ \A i \in DOMAIN s : /\ t[i] = [s[i] EXCEPT !.cols = t[i].cols]
                               /\ t[i] = s[i] \/ DecidedFrom(past, db, t, i)
                               /\ s[i] \in Statement /\ t[i] \in Statement
    BY DEF Decided
  <1>2. U = {i \in DOMAIN s : s[i].op = "upsert"}
    BY DEF Atomic!Upserts
  <1>3. cols \in [U -> SUBSET Column]
    BY <1>1, <1>2 DEF Statement
  <1>4. \A i \in DOMAIN s : t[i] = IF i \in U THEN [s[i] EXCEPT !.cols = cols[i]] ELSE s[i]
    <2>1. ASSUME NEW i \in DOMAIN s, i \notin U PROVE t[i] = s[i]
      <3>1. s[i].op # "upsert" /\ t[i].op = s[i].op
        BY <1>1, <1>2, <2>1 DEF Statement
      <3>2. QED
        BY <1>1, <3>1 DEF DecidedFrom
    <2>2. QED
      BY <1>1, <2>1
  <1> HIDE DEF U, cols
  <1>5. Atomic!Narrowed(s, cols) = t
    <2>1. t = [i \in DOMAIN s |-> t[i]]
      BY <1>1
    <2>2. Atomic!Narrowed(s, cols)
            = [i \in DOMAIN s |-> IF i \in U THEN [s[i] EXCEPT !.cols = cols[i]] ELSE s[i]]
      BY DEF Atomic!Narrowed, U
    <2>3. QED
      BY <1>4, <2>1, <2>2
  <1>6. \A i \in DOMAIN s : DecidedFrom(past, db, t, i) => Atomic!Outdated(t, i)
    BY DEF DecidedFrom, Atomic!Outdated, Atomic!Changed, Atomic!Neutral, Changed, Neutral
  <1>7. Atomic!WrittenAs(s, t)
    BY <1>1, <1>6 DEF Atomic!WrittenAs
  <1>8. QED
    BY <1>3, <1>5, <1>7 DEF U

(* Every step of the sessions is a step of the store that runs whole       *)
(* scripts, or none. *)
LEMMA NextRefines ==
  ASSUME RefineInv, [Next]_vars
  PROVE  RefineInv' /\ [Atomic!Next]_<<db, past, done>>
  <1>1. StoreInv'
    BY NextIsSound DEF RefineInv
  <1>2. ASSUME NEW p \in Process, Begin(p) PROVE RefineInv' /\ UNCHANGED <<db, past, done>>
    BY <1>1, <1>2, BeginRefines DEF Begin
  <1>3. ASSUME NEW p \in Process, Rollback(p) PROVE RefineInv' /\ UNCHANGED <<db, past, done>>
    BY <1>1, <1>3, RollbackRefines DEF Rollback
  <1>4. ASSUME NEW p \in Process, Select(p) PROVE RefineInv' /\ UNCHANGED <<db, past, done>>
    <2>1. UNCHANGED <<db, past, done>>
      BY <1>4 DEF Select, Rollback
    <2>2. QED
      BY <1>1, <1>4, <2>1, SelectRefines
  <1>5. ASSUME NEW p \in Process, Flush(p) PROVE RefineInv' /\ UNCHANGED <<db, past, done>>
    <2>1. UNCHANGED <<db, past, done>>
      BY <1>5 DEF Flush, Rollback
    <2>2. QED
      BY <1>1, <1>5, <2>1, FlushRefines
  <1>6. ASSUME NEW p \in Process, Busy(p) \/ Raise(p)
        PROVE  RefineInv' /\ UNCHANGED <<db, past, done>>
    BY <1>3, <1>6 DEF Busy, Raise
  <1>7. ASSUME NEW p \in Process, Commit(p) PROVE RefineInv' /\ Atomic!Next
    <2> DEFINE s == sess[p].script
               t == sess[p].stmts
    <2>1. /\ RefineInv' /\ s \in Scripts \ done /\ t \in Seq(Statement)
          /\ Decided(sess[p], past, db)
          /\ Applicable(db, t) /\ db' = After(db, t)
          /\ past' = past \cup {db'.upserted} /\ done' = done \cup {s}
      BY <1>1, <1>7, CommitRefines
    <2>2. s \in Seq(Statement) /\ sess[p].stmts = t /\ sess[p].script = s
      BY <2>1, StoreAssumption
    <2> HIDE DEF s, t
    <2>3. PICK cols \in [Atomic!Upserts(s) -> SUBSET Column] :
            /\ Atomic!Narrowed(s, cols) = t
            /\ Atomic!WrittenAs(s, Atomic!Narrowed(s, cols))
      BY <2>1, <2>2, StatementsAreNarrowed
    <2>4. Atomic!Applicable(db, t) /\ db' = Atomic!After(db, t)
      <3>1. \A d, st : Atomic!Effect(d, st) = Effect(d, st)
        BY DEF Atomic!Effect, Atomic!With, Atomic!Merged, Effect, With, Merged
      <3>2. Atomic!After(db, t) = After(db, t)
        BY <3>1 DEF Atomic!After, After
      <3>3. Atomic!Applicable(db, t)
        BY <2>1 DEF Atomic!Applicable, Applicable
      <3>4. QED
        BY <2>1, <3>2, <3>3
    <2>5. Atomic!Run(s)
      BY <2>1, <2>3, <2>4 DEF Atomic!Run
    <2>6. QED
      BY <2>1, <2>5 DEF Atomic!Next
  <1>8. CASE UNCHANGED vars
    BY <1>1, <1>8 DEF vars, RefineInv
  <1>9. QED
    BY <1>2, <1>4, <1>5, <1>6, <1>7, <1>8 DEF Next

(* The store implements the one where a script is one step: what a block   *)
(* writes is committed whole, on the tables as they are then, or not at    *)
(* all, whatever other sessions do in between.  What may be outdated is    *)
(* only the choice of columns of its first write to a row already there.   *)
THEOREM StoreRefines == Spec => StoreIsAtomic
  <1>1. Init => RefineInv /\ Atomic!Init
    BY InitRefines DEF Init, Atomic!Init, EmptyTables, Atomic!EmptyTables
  <1>2. RefineInv /\ [Next]_vars => RefineInv' /\ [Atomic!Next]_Atomic!vars
    BY NextRefines DEF Atomic!vars
  <1>3. QED
    BY <1>1, <1>2, PTL DEF Spec, StoreIsAtomic, Atomic!Spec
=============================================================================
