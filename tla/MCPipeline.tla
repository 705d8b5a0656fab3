----------------------------- MODULE MCPipeline -----------------------------
(* Small instances of DFlashPipeline for TLC.                              *)
EXTENDS DFlashPipeline

CONSTANTS r1, r2

OneReq == {r1}
TwoReqs == {r1, r2}
NoReq == {}
=============================================================================
