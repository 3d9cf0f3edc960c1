----------------------------- MODULE MCLiveScan -----------------------------
(* Contracts of three inputs over three collections, one of which makes    *)
(* nothing.  The cheap offers have the high floats; one market has rows    *)
(* that cannot be used, one has nothing but unreadable rows, one is empty. *)
EXTENDS LiveScan

Row4(id, skin, float, cost) == [id |-> id, skin |-> skin, float |-> float, cost |-> cost, fit |-> "good"]

MCMarkets == {
  <<Row4(1, "a1", 40, 10), Row4(2, "b1", 50, 11), Row4(3, "a2", 15, 12),
    Row4(4, "a1", 20, 14), Row4(5, "b1", 22, 20), Row4(6, "a2", 2, 30)>>,
  <<Row4(1, "a1", 90, 10), Row4(2, "a2", 15, 10), [Row4(3, "b1", 60, 11) EXCEPT !.fit = "unusable"],
    Row4(4, "a1", 5, 12), [Row4(5, "a2", 9, 12) EXCEPT !.fit = "unreadable"], Row4(6, "c1", 5, 15)>>,
  <<[Row4(1, "a1", 40, 10) EXCEPT !.fit = "unreadable"]>>,
  << >>}

MCHome == [a1 |-> 1, a2 |-> 1, b1 |-> 2, c1 |-> 3]
MCInputRange == [a1 |-> [min |-> 0, max |-> 100], a2 |-> [min |-> 0, max |-> 50],
                 b1 |-> [min |-> 20, max |-> 70], c1 |-> [min |-> 0, max |-> 100]]
MCPool == <<{"y"}, {"z"}, {}>>
MCOutputRange == [y |-> [min |-> 0, max |-> 50], z |-> [min |-> 10, max |-> 60]]
MCTargetLists == {<< >>, <<"a1", "b1">>}
=============================================================================
