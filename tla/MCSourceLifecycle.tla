--------------------------- MODULE MCSourceLifecycle ---------------------------
(* Small instances of SourceLifecycle.  Every constant but None is a set of    *)
(* interchangeable values.                                                    *)
EXTENDS SourceLifecycle, TLC

CONSTANTS s1, p1, p2, h1, h2, d1, d2, j1, j2

OneSource == {s1}
TwoPaths == {p1, p2}
TwoHashes == {h1, h2}
TwoDrafts == {d1, d2}
TwoJobs == {j1, j2}

Interchangeable == Permutations(Sources) \union Permutations(Paths)
  \union Permutations(Hashes) \union Permutations(Drafts) \union Permutations(Jobs)
================================================================================
