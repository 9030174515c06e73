------------------------- MODULE MCArtifactLifecycle -------------------------
(* ArtifactLifecycle for TLC.  Artifacts are interchangeable, and so are     *)
(* requests: no definition names one.                                        *)
EXTENDS ArtifactLifecycle, TLC

CONSTANTS a1, a2, a3, a4, e1, e2, w1, w2

ThreeArtifacts == {a1, a2, a3}
FourArtifacts == {a1, a2, a3, a4}
OneEditor == {e1}
TwoEditors == {e1, e2}
OneWorker == {w1}
TwoWorkers == {w1, w2}
NoWindow == {}
EditWindow == {"edit"}
Symmetry == Permutations(ThreeArtifacts) \cup Permutations(TwoWorkers)
=============================================================================
