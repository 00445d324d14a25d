CONSTANTS
    EnvSpace <- MCEnvSpace
    MaxWGs <- MCMaxWGs
SPECIFICATION Spec
INVARIANT StartupTorsWithinTorMax
\* run either returns or hands over to the daemon: nothing follows.
CHECK_DEADLOCK FALSE
