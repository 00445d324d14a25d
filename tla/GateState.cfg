CONSTANTS
    Callers <- MCCallers
    MaxReqs = 4
SPECIFICATION Spec
INVARIANT TypeOK
PROPERTY LifecycleRefined
