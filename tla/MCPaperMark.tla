---------------------------- MODULE MCPaperMark ----------------------------
(* PaperMark with one flank-capable pool: the price walks over five bins   *)
(* around a three-bin range, flanks are placed two bins above the price,   *)
(* and the clock runs past the hard exit.                                  *)
EXTENDS PaperMark

MCBins == {-2, 0, 2}
MCOffsets == {0, 2}
=============================================================================
