---------------------------- MODULE MCGateState ----------------------------
EXTENDS GateState

MCCallers == {"c1", "c2", "c3"}
=============================================================================
