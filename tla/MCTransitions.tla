---------------------------- MODULE MCTransitions ----------------------------
(* Transitions on the faceplate english_v3. *)
EXTENDS Transitions, EnglishV3

(* Every change of the increment that the passing of time brings.           *)
DaySteps == {<<i, (i + 1) % 288>> : i \in 0..287}

(* Changes brought by a new timezone or by the first answer of NTP, between *)
(* midnight, noon, the quarters and the hours with the longest words.       *)
SomeIncs == {0, 7, 131, 139, 147, 153, 287}
JumpSteps == SomeIncs \X SomeIncs

MCSteps == DaySteps \cup JumpSteps
=============================================================================
