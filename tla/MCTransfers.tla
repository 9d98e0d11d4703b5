---------------------------- MODULE MCTransfers ----------------------------
(* Small instances of Transfers for TLC: see the .cfg files. *)
EXTENDS Transfers

Sizes == [v \in Versions |-> IF v = "short" THEN 1 ELSE 2]
First == CHOOSE n \in Names : TRUE
LongFirst == {[n \in Names |-> IF n = First THEN Whole("long") ELSE c] : c \in {Absent, Whole("short")}}
=============================================================================
