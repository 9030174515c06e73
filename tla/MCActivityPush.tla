--------------------------- MODULE MCActivityPush ---------------------------
(* ActivityPush for TLC: one resource, so its publish key and its edit key;  *)
(* one drainer or two, which are interchangeable.                            *)
EXTENDS ActivityPush, TLC

CONSTANTS r1, d1, d2

OneDrainer == {d1}
TwoDrainers == {d1, d2}
OneResource == {r1}
PublishOnly == {"publish"}
EditOnly == {"edit"}
Symmetry == Permutations(TwoDrainers)
FewStamps == 1..6
=============================================================================
