---------------------------- MODULE MCScreening ----------------------------
(* One pool for TLC: nothing that is modelled relates two of them.         *)
(*                                                                         *)
(* A kept pool pays and is in order, or it is thin and pays nothing; of a  *)
(* pool that the gates drop only that is read.  Prices are in order, wild  *)
(* or fallen.                                                              *)
EXTENDS Screening

CONSTANTS p1

Dropped(black) == [good |-> FALSE, black |-> black, fee |-> 0, thin |-> FALSE]
Kept(fee, thin) == [good |-> TRUE, black |-> FALSE, fee |-> fee, thin |-> thin]
Shown(wild, fallen) == [lvr |-> 1, wild |-> wild, fallen |-> fallen]

OffersMC == {Dropped(FALSE), Kept(2, FALSE), Kept(0, TRUE)}

OffersBlack == OffersMC \cup {Dropped(TRUE)}

CoursesMC == {Shown(FALSE, FALSE), Shown(TRUE, FALSE), Shown(FALSE, TRUE)}

=============================================================================
