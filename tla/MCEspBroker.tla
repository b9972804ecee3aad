------------------------------ MODULE MCEspBroker ------------------------------
(* EspBroker on small instances.                                              *)
EXTENDS EspBroker, TLC

Stations == Permutations(Mac)

\* What the next step depends on; the other variables only describe the last one.
State == <<table, up>>
===============================================================================
