-------------------------- MODULE MCGatewaySwitch --------------------------
(* Small instances of GatewaySwitch: every lane's typed default is s1.       *)
EXTENDS GatewaySwitch

CONSTANT s1

AllS1 == [l \in Lanes |-> s1]
=============================================================================
