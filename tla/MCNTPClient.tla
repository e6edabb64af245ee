----------------------------- MODULE MCNTPClient -----------------------------
(* NTPClient on small instances: a second of 2 ticks, a timeout at the third *)
(* poll and a millis() that wraps several update intervals after power-up.   *)
EXTENDS NTPClient
=============================================================================
