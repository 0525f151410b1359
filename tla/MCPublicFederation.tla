-------------------------- MODULE MCPublicFederation --------------------------
(* Small instances of PublicFederation. *)
EXTENDS PublicFederation, TLC

CONSTANTS i1, i2

OneIndex == {i1}
TwoIndexes == {i1, i2}

AnyRequest == {"search", "explore", "browse"}
NoRequests == {}

Interchangeable == Permutations(Indexes)
================================================================================
