----------------------------- MODULE MCTraining -----------------------------
(* A small instance of DFlashTraining for TLC.                             *)
EXTENDS DFlashTraining

CONSTANTS r1, r2

OneReq == {r1}
TwoReqs == {r1, r2}
=============================================================================
