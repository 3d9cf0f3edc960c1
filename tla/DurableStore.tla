---------------------------- MODULE DurableStore ----------------------------
(***************************************************************************)
(* Sessions over the repositories (persistence/repositories.py), on the    *)
(* default database: SQLite in WAL mode, where the first write of a        *)
(* session takes the one write lock until the session ends, and a select   *)
(* before that reads what is committed and holds nothing.                  *)
(*                                                                         *)
(* A repository call that selects is therefore two steps, Select and       *)
(* Flush, between which another session can commit.  What an upsert writes *)
(* is settled by the row it loaded.                                        *)
(***************************************************************************)
EXTENDS Tables, Naturals, FiniteSets

CONSTANTS Process, None,
          Scripts,     \* the blocks that are run, as sequences of statements
          Key, Cell    \* what statements are about

VARIABLES db,          \* the committed tables
          past,        \* the rows each commit so far has left (history)
          claims,      \* the committed reservations, a sequence of rows
          sess,        \* each process's session
          lock,        \* who holds the write lock
          done         \* scripts that committed (history)
vars == <<db, past, claims, sess, lock, done>>

Value == [Column -> Cell]
Statement == [op: Ops, key: Key, value: Value, cols: SUBSET Column]

(* A block upserts a row once; a second time its session would answer from *)
(* memory.  No block of the program stores a listing or a candidate twice. *)
ASSUME StoreAssumption ==
  /\ None \notin Process \cup Scripts
  /\ Stamps \subseteq Column
  /\ Scripts \subseteq Seq(Statement)
  /\ \A s \in Scripts : \A i, j \in DOMAIN s :
       s[i].op = "upsert" /\ s[j].op = "upsert" /\ s[i].key = s[j].key => i = j

(* stmts: the script, with the columns its upserts write.  seen: the key   *)
(* exists (upsert, snapshot, append), or the ids of the rows found         *)
(* (deactivate).  tables, rows: the session's own view once it writes.     *)
Closed == [pc |-> "closed", script |-> None, stmts |-> << >>, pos |-> 1, seen |-> {},
           tables |-> EmptyTables, rows |-> << >>]

Init == /\ db = EmptyTables /\ claims = << >> /\ past = {EmptyTables.upserted}
        /\ sess = [p \in Process |-> Closed]
        /\ lock = None /\ done = {}

-----------------------------------------------------------------------------
St(p) == sess[p].stmts[sess[p].pos]

(* What p reads: its own uncommitted view, or what is committed. *)
Tables(p) == IF lock = p THEN sess[p].tables ELSE db
Rows(p) == IF lock = p THEN sess[p].rows ELSE claims

ActiveRows(rows, listing) == {i \in DOMAIN rows : rows[i].listing = listing /\ rows[i].active}

Found(p) ==
  CASE St(p).op = "upsert"     -> {St(p).key} \cap DOMAIN Tables(p).upserted
    [] St(p).op = "snapshot"   -> {St(p).key} \cap DOMAIN Tables(p).snapshots
    [] St(p).op = "append"     -> {St(p).key} \cap DOMAIN Tables(p).ledger
    [] OTHER -> ActiveRows(Rows(p), St(p).key)

StartOf(script, pos) ==
  IF pos > Len(script) THEN "commit" ELSE IF Selects(script[pos]) THEN "select" ELSE "flush"

Opened(s) == [Closed EXCEPT !.pc = StartOf(s, 1), !.script = s, !.stmts = s]

Begin(p) ==
  /\ sess[p].pc = "closed"
  /\ \E s \in Scripts \ done :
       /\ \A q \in Process : sess[q].script # s
       /\ sess' = [sess EXCEPT ![p] = Opened(s)]
  /\ UNCHANGED <<db, past, claims, lock, done>>

(* Mutant: a session that ends keeps its lock. *)
ClosesLocked(p) == sess' = [sess EXCEPT ![p] = Closed] /\ UNCHANGED lock

Closes(p) == /\ sess' = [sess EXCEPT ![p] = Closed]
             /\ lock' = IF lock = p THEN None ELSE lock

(* rollback(): the block raised; or the process died. *)
Rollback(p) == Closes(p) /\ UNCHANGED <<db, past, claims, done>>

(* What an upsert will write.  Under the lock the loaded row is the one    *)
(* that is overwritten, and writing what differs makes it the new row.     *)
Loaded(p) ==
  IF St(p).op = "upsert" /\ Found(p) # {} /\ lock # p
  THEN [sess[p].stmts EXCEPT ![sess[p].pos].cols = Changed(db.upserted[St(p).key], St(p).value)]
  ELSE sess[p].stmts

(* Mutant: an event is merged into the one with its id. *)
SelectMerges(p) ==
  /\ sess[p].pc = "select"
  /\ sess' = [sess EXCEPT ![p].pc = "flush", ![p].seen = Found(p), ![p].stmts = Loaded(p)]
  /\ UNCHANGED <<db, past, claims, lock, done>>

(* ValueError of LedgerRepository.append: the event exists. *)
Select(p) ==
  /\ sess[p].pc = "select"
  /\ IF St(p).op = "append" /\ Found(p) # {}
     THEN Rollback(p)
     ELSE /\ sess' = [sess EXCEPT ![p].pc = "flush", ![p].seen = Found(p), ![p].stmts = Loaded(p)]
          /\ UNCHANGED <<db, past, claims, lock, done>>

(* Mutant: without the index over active reservations. *)
ViolatesKeysOnly(p) ==
  /\ St(p).op \in {"upsert", "snapshot", "append"}
  /\ Found(p) # {} /\ sess[p].seen = {}

(* The write is refused by a primary key or unique constraint, because a   *)
(* row came in since the select, or by the partial index over active       *)
(* reservations. *)
Violates(p) ==
  \/ /\ St(p).op \in {"upsert", "snapshot", "append"}
     /\ Found(p) # {} /\ sess[p].seen = {}
  \/ St(p).op = "reserve" /\ ActiveRows(Rows(p), St(p).key) # {}

(* A release deactivates the rows it selected, by their ids. *)
RowsAfter(p) ==
  CASE St(p).op = "reserve" ->
         Append(Rows(p), [listing |-> St(p).key, cand |-> St(p).value, active |-> TRUE])
    [] St(p).op = "deactivate" ->
         [i \in DOMAIN Rows(p) |-> IF i \in sess[p].seen
                                   THEN [Rows(p)[i] EXCEPT !.active = FALSE] ELSE Rows(p)[i]]
    [] OTHER -> Rows(p)

(* Nothing to write: the snapshot is on record, the row was loaded with    *)
(* these very values, or no row was active. *)
NoWrite(p) == \/ St(p).op = "snapshot" /\ sess[p].seen # {}
              \/ St(p).op = "upsert" /\ sess[p].seen # {} /\ St(p).cols = {}
              \/ St(p).op = "deactivate" /\ sess[p].seen = {}

Onward(p) == [sess[p] EXCEPT !.pc = StartOf(sess[p].stmts, sess[p].pos + 1), !.pos = @ + 1, !.seen = {}]

(* A write by the holder of the lock, or by one that takes it; otherwise   *)
(* the database is locked, and the wait for it times out. *)
Flush(p) ==
  /\ sess[p].pc = "flush"
  /\ IF NoWrite(p)
     THEN sess' = [sess EXCEPT ![p] = Onward(p)] /\ UNCHANGED <<db, past, claims, lock, done>>
     ELSE /\ lock \in {None, p}
          /\ IF Violates(p)
             THEN Rollback(p)
             ELSE /\ sess' = [sess EXCEPT ![p] = [Onward(p) EXCEPT
                                 !.tables = Effect(Tables(p), St(p)), !.rows = RowsAfter(p)]]
                  /\ lock' = p
                  /\ UNCHANGED <<db, past, claims, done>>

Busy(p) == sess[p].pc = "flush" /\ ~NoWrite(p) /\ lock \notin {None, p} /\ Rollback(p)

(* Mutant: a failing block leaves what it had written. *)
RaiseKeeps(p) ==
  /\ sess[p].pc \notin {"closed"}
  /\ db' = Tables(p) /\ claims' = Rows(p)
  /\ Closes(p) /\ UNCHANGED <<past, done>>

(* The block raises for another reason, or the process dies. *)
Raise(p) == sess[p].pc # "closed" /\ Rollback(p)

Commit(p) ==
  /\ sess[p].pc = "commit"
  /\ db' = Tables(p) /\ claims' = Rows(p)
  /\ past' = past \cup {db'.upserted}
  /\ done' = done \cup {sess[p].script}
  /\ Closes(p)

Next == \E p \in Process : Begin(p) \/ Select(p) \/ Flush(p) \/ Busy(p) \/ Raise(p) \/ Commit(p)

(* A session that is not refused runs on; nothing makes a process start    *)
(* one, nor keeps it from failing. *)
Spec == Init /\ [][Next]_vars

-----------------------------------------------------------------------------
TypeOK ==
  /\ lock \in Process \cup {None} /\ done \subseteq Scripts
  /\ \A p \in Process :
       /\ sess[p].pc \in {"closed", "select", "flush", "commit"}
       /\ sess[p].pc = "closed" <=> sess[p].script = None
       /\ lock = p => sess[p].pc # "closed"

OneActive(table) ==
  \A i, j \in DOMAIN table :
    table[i].active /\ table[j].active /\ table[i].listing = table[j].listing => i = j

(* Two sessions cannot both hold a listing: whatever they read before they *)
(* wrote, the database never has two active reservations of one listing.   *)
(* models.py:303-305: "Two concurrent scanners cannot both claim the same  *)
(* asset even if application-level checks race".                           *)
OneActiveClaim == OneActive(claims)

(* The ledger is append-only: an event once committed keeps its amount for *)
(* ever, also against a different event with the same derived id.          *)
LedgerIsAppendOnly ==
  [][\A id \in DOMAIN db.ledger : id \in DOMAIN db'.ledger /\ db'.ledger[id] = db.ledger[id]]_vars

(* A scan is on record with all its candidates, evaluations and rejections *)
(* or not at all, although sessions overlap, fail and die at any step.  Of *)
(* what a block read before it held the lock only this can show in what it *)
(* commits: the first row it writes may keep columns of the row that was   *)
(* there where it had loaded the value it would have written.              *)
Atomic == INSTANCE AtomicStore
StoreIsAtomic == Atomic!Spec
=============================================================================
