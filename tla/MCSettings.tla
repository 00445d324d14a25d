----------------------------- MODULE MCSettings -----------------------------
EXTENDS Settings, MCEnv

MCMaxWGs == 1

=============================================================================
