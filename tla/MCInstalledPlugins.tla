-------------------------- MODULE MCInstalledPlugins --------------------------
(* Instances of InstalledPlugins for TLC. *)
EXTENDS InstalledPlugins, TLC

CONSTANTS p1, v1, v2, r1, r2

(* One plugin, its own directory and one a second copy may be put in; two  *)
(* contents, so that a change shows; two requests at a time.               *)
OnePlugin == {p1}
OwnAndCopy == {1, 2}
OwnDir == [p \in {p1} |-> 1]
OneVersion == {v1}
TwoVersions == {v1, v2}
TwoRequests == {r1, r2}
RequestSymmetry == Permutations(TwoRequests)
=============================================================================
