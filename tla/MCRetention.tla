----------------------------- MODULE MCRetention -----------------------------
(* An hour of three ticks and a week of four: a roll-up can find one, two  *)
(* or three of the rows of an hour, after it has seen them all.            *)
EXTENDS Retention
=============================================================================
