------------------------------- MODULE MCEnv -------------------------------
(* The environments the models try: records keyed by variable name.       *)
EXTENDS SettingsEnv

Ms(n) == Num(n, "ms")
Count(n) == Num(n, "")

\* Unset and negative values for the loop delays; other durations unset,
\* above their ceiling or below their floor.
MCEnvSpace ==
    [PUMPE_DEFAULT_KIND            : {"", "direct", "wireguard", "junk"},
     PUMPE_WG_DIR                  : {"", "/etc/wireguard"},
     PUMPE_WG_PARSE_MODE           : {Unset, Count(1), Count(2)},
     PUMPE_SHUTDOWN_TIMEOUT        : {Unset},
     PUMPE_HTTP_CLIENT_TIMEOUT     : {Unset},
     PUMPE_SET_RANDOM_LOOP_TIMEOUT : {Unset, Ms(90000)},
     PUMPE_SET_RANDOM_LOOP_DELAY   : {Unset, Ms(-1)},
     PUMPE_SET_STATE_LOOP_TIMEOUT  : {Unset},
     PUMPE_SET_STATE_LOOP_DELAY    : {Unset, Ms(-1)},
     PUMPE_TOR_STARTUP_TIMEOUT     : {Unset, Ms(60000)},
     PUMPE_TOR_NUM                 : {Unset, Junk, Count(1)},
     PUMPE_TOR_MAX                 : {Unset, Count(-1), Count(2)},
     PUMPE_WG_DNS                  : {"", "junk"},
     PUMPE_RANDOMISE_KINDS         : {"", "true"}]

\* A start with a WireGuard directory and every other variable unset, but
\* for the two loop delays.
DelayEnvSpace ==
    [PUMPE_DEFAULT_KIND            : {""},
     PUMPE_WG_DIR                  : {"/etc/wireguard"},
     PUMPE_WG_PARSE_MODE           : {Unset},
     PUMPE_SHUTDOWN_TIMEOUT        : {Unset},
     PUMPE_HTTP_CLIENT_TIMEOUT     : {Unset},
     PUMPE_SET_RANDOM_LOOP_TIMEOUT : {Unset},
     PUMPE_SET_RANDOM_LOOP_DELAY   : {Unset, Ms(-1)},
     PUMPE_SET_STATE_LOOP_TIMEOUT  : {Unset},
     PUMPE_SET_STATE_LOOP_DELAY    : {Unset, Ms(-1)},
     PUMPE_TOR_STARTUP_TIMEOUT     : {Unset},
     PUMPE_TOR_NUM                 : {Unset},
     PUMPE_TOR_MAX                 : {Unset},
     PUMPE_WG_DNS                  : {""},
     PUMPE_RANDOMISE_KINDS         : {""}]

=============================================================================
