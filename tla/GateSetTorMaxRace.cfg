CONSTANTS
    Direct = d
    NoGate = NoGate
    HeaderKinds <- AllKinds
    RandomiseKinds = FALSE
    Default = "direct"
    LoopDelays <- DefaultDelays
    TorIds <- MCTorIds
    InitTors <- MCInitTors
    WGIds <- MCWGIds
    Reqs <- OneReq
    Admins <- TwoAdmins
    TorMax = 1
SPECIFICATION Spec
INVARIANT TorMaxRespected
