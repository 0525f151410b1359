--------------------------- MODULE MCManagedBundle ---------------------------
(* Small instances of ManagedBundle. *)
EXTENDS ManagedBundle, TLC

CONSTANTS a1, a2, p1, p2

OneApp == {a1}
OnePath == {p1}
TwoPaths == {p1, p2}
AnyScope == {"personal", "imported", "project"}

Interchangeable == Permutations(Paths)
==============================================================================
