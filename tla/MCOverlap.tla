----------------------------- MODULE MCOverlap -----------------------------
(* Small instances of DFlashOverlap for TLC.                               *)
EXTENDS DFlashOverlap

CONSTANTS r1, r2, r3

NoReq == {}
OneReq == {r1}
TwoReqs == {r1, r2}
ThreeReqs == {r1, r2, r3}

Symmetry == Permutations(Req)
=============================================================================
