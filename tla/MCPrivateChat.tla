---------------------------- MODULE MCPrivateChat ----------------------------
(* Small instances of PrivateChat for TLC: see the .cfg files. *)
EXTENDS PrivateChat, TLC

CONSTANTS a1, a2, a3, c1

Slots3 == {a1, a2, a3}
Chats1 == {c1}
Symmetry == Permutations(Addr)
=============================================================================
