CONSTANTS
    WGs <- MCWGs
    Tors <- MCTors
    Conns <- MCConns
SPECIFICATION Spec
INVARIANT StartupFailureReleasesDevices
CHECK_DEADLOCK FALSE
