----------------------------- MODULE MCSourceRun -----------------------------
(* TLC instances of SourceRun.                                             *)
EXTENDS SourceRun, TLC

CONSTANTS r1, r2, s1, s2

SceneSymmetry == Permutations({s1, s2})
MCSymmetry == Permutations({r1, r2}) \cup SceneSymmetry

=============================================================================
