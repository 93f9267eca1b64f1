----------------------------- MODULE MCFeeClaim -----------------------------
(* A pool of two bins for TLC.                                             *)
EXTENDS FeeClaim

CONSTANTS s1, s2, p1, p2

=============================================================================
