------------------------------ MODULE MCWorker ------------------------------
(* Instances of Worker for TLC: three MQTT settings, two on the same host. *)
EXTENDS Worker

CONSTANTS h1, h2

MCBrokers == {<<h1, 1>>, <<h1, 2>>, <<h2, 1>>}
=============================================================================
