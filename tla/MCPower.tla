------------------------------ MODULE MCPower ------------------------------
(* Bounds of the environment's events for the instances of Power.            *)
EXTENDS Power

MCBounds == [death |-> 1, foreign |-> 1, hand |-> 1, child |-> 1, blind |-> 1, crash |-> 1, error |-> 1, any |-> 2]
=============================================================================
