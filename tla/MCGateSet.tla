----------------------------- MODULE MCGateSet -----------------------------
EXTENDS GateSet

MCTorIds == {"t1", "t2"}
MCInitTors == {"t1"}
MCWGIds == {"w1"}
OneAdmin == {"a1"}
TwoAdmins == {"a1", "a2"}
OneReq == {"r1"}
AllKinds == {"direct", "tor", "wireguard"}
DirectAndTor == {"direct", "tor"}
\* newSettingsFromEnv's 10ms defaults.
DefaultDelays == {[random |-> 10, state |-> 10]}

Env == INSTANCE MCEnv

\* The loop delays of every configuration run accepts (one parsed WireGuard
\* config, no parse error) over MCEnv's DelayEnvSpace: the defaults and
\* the -1ms newSettingsFromEnv lets through, in all four pairs.
StartedDelays ==
    LET started == {s \in {Env!NewSettingsFromEnv(e) : e \in Env!DelayEnvSpace} :
                        ~Env!RunRejects(s, 1, "none")}
    IN {[random |-> s.setRandomLoopDelay, state |-> s.setStateLoopDelay] : s \in started}
=============================================================================
