--------------------------- MODULE MCCollectionScans ---------------------------
(* Small instances of CollectionScans.                                        *)
EXTENDS CollectionScans

CONSTANTS c1, c2

OneCollection == {c1}
TwoCollections == {c1, c2}

Interchangeable == Permutations(Collections)
================================================================================
