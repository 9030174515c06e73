-------------------------- MODULE MCSessionRefresh --------------------------
(* SessionRefresh for TLC: the requests of one page load.  Requests are      *)
(* interchangeable: no definition names one.                                 *)
EXTENDS SessionRefresh, TLC

CONSTANTS p1, p2, p3

ThreeRequests == {p1, p2, p3}
TwoRequests == {p1, p2}
Symmetry == Permutations(ThreeRequests)
=============================================================================
