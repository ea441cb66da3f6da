--------------------------- MODULE MCMqttMessages ---------------------------
(* MqttMessages on a small instance. *)
EXTENDS MqttMessages

CONSTANTS k1, t1, t2

MCClients == {k1}
MCTopics == {t1, t2}
MCConfigured == {t1}
=============================================================================
