------------------------------- MODULE MCGateway -------------------------------
(* The kinds of events that are let happen together.                            *)
EXTENDS Gateway

Scenario(left, kinds) == [kinds |-> kinds, left |-> left]

MCScenarios ==
    {Scenario(3, {"cut", "device before", "device"}),
     Scenario(2, {"cut", "device"}),
     Scenario(4, {"device", "other"}),
     Scenario(2, {"cut", "device before", "device", "other"}),
     Scenario(4, {"device", "refusal", "expiry", "minute"}),
     Scenario(2, {"cut", "refusal", "expiry", "minute"}),
     Scenario(2, {"cut", "clear", "minute"}),
     Scenario(2, {"switch", "device before", "device"}),
     Scenario(2, {"switch", "cut", "refusal"}),
     Scenario(3, {"pause", "device", "minute"}),
     Scenario(2, {"pause", "clients", "device", "minute"}),
     Scenario(3, {"pause", "radio", "minute"}),
     Scenario(3, {"peer", "peer device", "peer reboot"}),
     Scenario(2, {"peer before", "peer", "device before", "device"}),
     Scenario(2, {"peer before", "peer", "peer reboot", "cut"})}
===============================================================================
