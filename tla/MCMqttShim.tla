----------------------------- MODULE MCMqttShim -----------------------------
(* MqttShim on a small instance. *)
EXTENDS MqttShim, TLC

CONSTANTS u1, k1, k2, t1

MCUser == {u1}
MCClients == {k1, k2}
MCTopic == {t1}

\* One client is as good as another.
MCClientSymmetry == Permutations(MCClients)
=============================================================================
