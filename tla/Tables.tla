------------------------------- MODULE Tables -------------------------------
(***************************************************************************)
(* What one repository call (persistence/repositories.py) does to the      *)
(* tables.  A statement is a record with an op and what it is about; the   *)
(* tables keyed by content are functions on the keys present, the tables   *)
(* with a running id are sets of rows.  A row is a function on columns.    *)
(***************************************************************************)
EXTENDS Integers, Sequences

CONSTANTS Column,   \* the columns of a row
          Stamps    \* those that hold an instant

(* cols: the columns an upsert writes, if the row is there already. *)
Call(op, key, value) == [op |-> op, key |-> key, value |-> value, cols |-> Column]
Upsert(key, row) == Call("upsert", key, row)
Snapshot(key, row) == Call("snapshot", key, row)
AppendEvent(id, row) == Call("append", id, row)
Insert(key, row) == Call("insert", key, row)
Reserve(listing, row) == Call("reserve", listing, row)
Deactivate(listing, row) == Call("deactivate", listing, row)
Ops == {"upsert", "snapshot", "append", "insert", "reserve", "deactivate"}

(* Calls that look for a row before they write. *)
Selects(st) == st.op \in {"upsert", "snapshot", "append", "deactivate"}

(* Listings and candidates; metadata snapshots; ledger events; the rest.   *)
EmptyTables == [upserted |-> << >>, snapshots |-> << >>, ledger |-> << >>, rows |-> {}]

With(f, key, value) == [k \in DOMAIN f \cup {key} |-> IF k = key THEN value ELSE f[k]]

(* The columns the UPDATE of a loaded row carries: those assigned another  *)
(* value than was loaded.  An instant is loaded without its zone and       *)
(* equals no instant that has one. *)
Changed(old, new) == Stamps \cup {c \in Column : old[c] # new[c]}

(* What an upsert makes of the row that is there when it is written.       *)
Merged(f, st) ==
  IF st.key \in DOMAIN f THEN [c \in Column |-> IF c \in st.cols THEN st.value[c] ELSE f[st.key][c]]
  ELSE st.value

(* An upsert writes its columns over whatever is there, by the row's id    *)
(* and no version; a snapshot is kept as first recorded.  Reservations are *)
(* not among these tables. *)
Effect(d, st) ==
  CASE st.op = "upsert"   -> [d EXCEPT !.upserted = With(@, st.key, Merged(@, st))]
    [] st.op = "snapshot" -> IF st.key \in DOMAIN d.snapshots THEN d
                             ELSE [d EXCEPT !.snapshots = With(@, st.key, st.value)]
    [] st.op = "append"   -> [d EXCEPT !.ledger = With(@, st.key, st.value)]
    [] st.op = "insert"   -> [d EXCEPT !.rows = @ \cup {st.key}]
    [] OTHER              -> d

(* The script as one step: what it leaves, and whether every event it      *)
(* appends is new. *)
After(d, script) ==
  LET after[n \in 0..Len(script)] == IF n = 0 THEN d ELSE Effect(after[n - 1], script[n])
  IN after[Len(script)]

(* A statement with nothing to write, whose session may still be without   *)
(* the lock. *)
Neutral(d, st) == \/ st.op = "deactivate"
                  \/ st.op = "snapshot" /\ st.key \in DOMAIN d.snapshots
                  \/ st.op = "upsert" /\ st.cols = {} /\ st.key \in DOMAIN d.upserted

Applicable(d, script) ==
  \A i \in DOMAIN script : script[i].op = "append" =>
    /\ script[i].key \notin DOMAIN d.ledger
    /\ \A j \in 1..i - 1 : script[j].op = "append" => script[j].key # script[i].key
=============================================================================
