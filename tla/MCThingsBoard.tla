---------------------------- MODULE MCThingsBoard ----------------------------
(* A new clock, and one whose switches named display 2 in an earlier life.   *)
EXTENDS ThingsBoard
MCMethods == {"get", "set"}
MCStored == {Erased, 2}
=============================================================================
