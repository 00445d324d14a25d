CONSTANTS
    Callers <- MCCallers
    MaxReqs = 1
SPECIFICATION Spec
PROPERTY ToClosedTakesEffect
