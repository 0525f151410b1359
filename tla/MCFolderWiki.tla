----------------------------- MODULE MCFolderWiki ------------------------------
(* Small instances of FolderWiki: one document in a folder of one or two paths. *)
EXTENDS FolderWiki, TLC

CONSTANTS s1, p1, p2, h1, h2, d1, d2, j1, j2

OneSource == {s1}
OnePath == {p1}
TwoPaths == {p1, p2}
OneHash == {h1}
TwoHashes == {h1, h2}
OneDraft == {d1}
TwoDrafts == {d1, d2}
TwoJobs == {j1, j2}

NoContent == {}
WriteFailures == {"write"}
SecondHash == {h2}
AnyFailure == {"read", "write", "model", "discovery"}
AllButReads == {"write", "model", "discovery"}

Core == {"scan", "preflight", "approval"}
ScanAndQuarantine == {"scan", "quarantine", "approval"}
AllButPreflight == {"scan", "quarantine", "approval", "reanalysis"}

Interchangeable == Permutations(Sources) \union Permutations(Paths)
  \union Permutations(Drafts) \union Permutations(Jobs)
================================================================================
