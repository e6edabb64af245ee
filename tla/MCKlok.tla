-------------------------------- MODULE MCKlok --------------------------------
(* Klok on small instances. *)
EXTENDS Klok

(* A value below every range, one accepted by no display index, the empty   *)
(* payload's, one all feeds accept, and one above the first two ranges.     *)
MCValues == {-3, -1, 0, 2, 4}

(* The empty payload's value and one more that every feed accepts. *)
MCFewValues == {0, 2}
=============================================================================
