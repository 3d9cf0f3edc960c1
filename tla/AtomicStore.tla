----------------------------- MODULE AtomicStore ----------------------------
(***************************************************************************)
(* What session() promises (persistence/database.py): a block's statements *)
(* take effect together, at one moment, or not at all.  There is one       *)
(* limit: what a block writes first may have been worked out from a row as *)
(* some earlier commit had left it.                                        *)
(***************************************************************************)
EXTENDS Tables

CONSTANT Scripts       \* the blocks that are run, as sequences of statements
VARIABLES db, past,    \* the tables; the rows each commit so far has left (history)
          done
vars == <<db, past, done>>

Init == db = EmptyTables /\ past = {EmptyTables.upserted} /\ done = {}

(* The ways a script can be written: with some columns for each upsert.    *)
Upserts(s) == {i \in DOMAIN s : s[i].op = "upsert"}
Narrowed(s, cols) ==
  [i \in DOMAIN s |-> IF i \in Upserts(s) THEN [s[i] EXCEPT !.cols = cols[i]] ELSE s[i]]

(* Statement i of t writes what differs from a row of the past, and no     *)
(* statement before it wrote anything. *)
Outdated(t, i) ==
  /\ \E old \in past : /\ t[i].key \in DOMAIN old
                       /\ t[i].cols = Changed(old[t[i].key], t[i].value)
  /\ \A j \in 1..i - 1 : Neutral(db, t[j])

WrittenAs(s, t) == \A i \in DOMAIN s : t[i] = s[i] \/ Outdated(t, i)

Run(s) == /\ s \notin done /\ done' = done \cup {s}
          /\ \E cols \in [Upserts(s) -> SUBSET Column] :
               /\ WrittenAs(s, Narrowed(s, cols))
               /\ Applicable(db, Narrowed(s, cols))
               /\ db' = After(db, Narrowed(s, cols))
          /\ past' = past \cup {db'.upserted}

Next == \E s \in Scripts : Run(s)

Spec == Init /\ [][Next]_vars
=============================================================================
