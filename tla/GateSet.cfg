CONSTANTS
    Direct = d
    NoGate = NoGate
    HeaderKinds <- DirectAndTor
    RandomiseKinds = TRUE
    Default = "tor"
    LoopDelays <- StartedDelays
    TorIds <- MCTorIds
    InitTors <- MCInitTors
    WGIds <- MCWGIds
    Reqs <- OneReq
    Admins <- OneAdmin
    TorMax = 1
SPECIFICATION FairSpec
INVARIANT TypeOK
INVARIANT NoDoubleClose
INVARIANT ReadyGatesReachable
PROPERTY AdminCallsReturn
PROPERTY SelectionReturns
