------------------------- MODULE MCProcessLifecycle -------------------------
EXTENDS ProcessLifecycle

MCWGs == {"w1", "w2"}
MCTors == {"t1", "t2", "t3"}
MCConns == {"c1", "c2"}
=============================================================================
