----------------------------- MODULE MCBookRace -----------------------------
(* Two sessions over one position whose range is one bin: the price is in  *)
(* it or beside it.                                                        *)
EXTENDS BookRace, TLC

MCBins == {-1, 0}
MCOffsets == {0, -1}
Symmetry == Permutations(Session)
=============================================================================
