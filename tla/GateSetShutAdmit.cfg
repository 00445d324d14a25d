CONSTANTS
    Direct = d
    NoGate = NoGate
    HeaderKinds <- AllKinds
    RandomiseKinds = FALSE
    Default = "direct"
    LoopDelays <- DefaultDelays
    TorIds <- MCTorIds
    InitTors <- MCInitTors
    WGIds <- MCWGIds
    Reqs <- OneReq
    Admins <- OneAdmin
    TorMax = 2
SPECIFICATION Spec
PROPERTY NoAdmissionAfterShutting
