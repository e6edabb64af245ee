----------------------------- MODULE MCMQTTClient -----------------------------
(* MQTTClient with two feeds; a refusal is final (5) or passing (3).         *)
EXTENDS MQTTClient
MCRefusals == {3, 5}
=============================================================================
