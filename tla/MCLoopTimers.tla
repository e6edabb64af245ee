----------------------------- MODULE MCLoopTimers -----------------------------
(* LoopTimers on a millis() that wraps within the run. *)
EXTENDS LoopTimers
=============================================================================
