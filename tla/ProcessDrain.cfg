CONSTANTS
    WGs <- MCWGs
    Tors <- MCTors
    Conns <- MCConns
SPECIFICATION Spec
INVARIANT HTTPDrainedBeforeGatesClose
CHECK_DEADLOCK FALSE
