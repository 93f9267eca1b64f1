---------------------------- MODULE MCExecQueue -----------------------------
(* A small executor pool for TLC.                                          *)
EXTENDS ExecQueue, TLC

CONSTANTS x1, x2

Symmetry == Permutations(Executor)

=============================================================================
