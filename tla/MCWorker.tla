------------------------------ MODULE MCWorker ------------------------------
(* Two tasks whose grids meet at every sixth tick, for TLC.                *)
EXTENDS Worker

IntervalMC == <<2, 3>>

=============================================================================
