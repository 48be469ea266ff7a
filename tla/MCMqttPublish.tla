---------------------------- MODULE MCMqttPublish -----------------------------
(* Instances of MqttPublish for TLC: two lights that the child may command.  *)
EXTENDS MqttPublish

TwoLights == [i \in {"tl-1", "tl-2"} |-> IF i = "tl-1" THEN 1 ELSE 2]
===============================================================================
