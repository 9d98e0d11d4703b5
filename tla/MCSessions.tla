----------------------------- MODULE MCSessions -----------------------------
(* Small instances of Sessions for TLC: see the .cfg files. *)
EXTENDS Sessions, TLC

CONSTANTS p1, p2, p3, a1, a2, a3

Three == {p1, p2, p3}
Slots3 == {a1, a2, a3}
Fds2 == 1 .. 2
Fds3 == 1 .. 3
One == {p1}
None == {}

\* Heap addresses are interchangeable, and so are peers without a role.
AddrSymmetry == Permutations(Addr)
Symmetry == AddrSymmetry \cup Permutations({p2, p3})
=============================================================================
