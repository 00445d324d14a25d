CONSTANTS
    WGs <- MCWGs
    Tors <- MCTors
    Conns <- MCConns
SPECIFICATION FairSpec
 
INVARIANT NoDeviceClosedTwice
INVARIANT ExitAfterGatesClosed
PROPERTY SignalLeadsToExit
\* The process ends: RunFn returns and nothing is left to run.
CHECK_DEADLOCK FALSE
