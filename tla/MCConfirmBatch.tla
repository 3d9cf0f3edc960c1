--------------------------- MODULE MCConfirmBatch ---------------------------
(* Leads named by numbers; a sketch is its lead and its variant.           *)
EXTENDS ConfirmBatch

MCProspect == {<<l, v>> : l \in 1..4, v \in {"pure", "mixed"}}
MCLeadOf == [p \in MCProspect |-> p[1]]

(* The first lead leads with a dilution; the third has one variant above   *)
(* the floor and one below; the last board lacks the first lead. *)
MCAboveFloor == MCProspect \ {<<3, "mixed">>}
MCBoard == << <<1, "mixed">>, <<1, "pure">>, <<2, "pure">>, <<3, "pure">>, <<4, "mixed">> >>
MCBoards == {MCBoard, << <<2, "mixed">>, <<4, "pure">>, <<3, "pure">>, <<1, "pure">> >>,
             << <<3, "mixed">>, <<2, "pure">>, <<4, "mixed">>, <<3, "pure">> >>}
MCFixed == {MCBoard}

MCFirst == {<<1, "mixed">>}
=============================================================================
