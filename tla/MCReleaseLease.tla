--------------------------- MODULE MCReleaseLease ---------------------------
(* Instances of ReleaseLease for TLC.  Releases are interchangeable.        *)
EXTENDS ReleaseLease, TLC

Releases == Permutations(Release)
=============================================================================
