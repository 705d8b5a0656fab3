----------------------------- MODULE MCFutureMap -----------------------------
(* A small instance of FutureMap: three laps of the buffer.                *)
EXTENDS FutureMap

CONSTANT MaxLaunched    \* bound on the rows launched

MCNext == Next /\ launched' <= MaxLaunched
MCSpec == Init /\ [][MCNext]_vars
=============================================================================
