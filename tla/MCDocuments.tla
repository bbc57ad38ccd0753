----------------------------- MODULE MCDocuments -----------------------------
(***************************************************************************)
(* A dataset of three splits, the middle one sometimes empty, with two     *)
(* prompts for each document; examples come from the last split.           *)
(***************************************************************************)
EXTENDS Documents

ThreeSplits == <<"train", "test", "validation">>
ShotsOf == {"validation"}
SmallSizes == {<<a, b, c>> : a \in 0..2, b \in {0, 2}, c \in 0..1} \cup {<<1, 3, 1>>}
SmallQuantities == {-1, 2, 4}
SmallBlacklists == {{}, {2}, {7}}
ResponseLists == {<<>>, <<"ok">>, <<"failed">>, <<"unscorable">>, <<"ok", "ok">>}
=============================================================================
