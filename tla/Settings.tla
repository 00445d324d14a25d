------------------------------ MODULE Settings ------------------------------
(***************************************************************************)
(* The start of the pumpe process (src/cmd/pumpe/pumpe.go): main reads    *)
(* the environment with newSettingsFromEnv (SettingsEnv) and run checks   *)
(* the result before the daemon starts RunFn.                              *)
(* The directory of WireGuard configs is an input: how many parsed and     *)
(* whether ParseWGConfigs failed on a file or on the directory itself.     *)
(***************************************************************************)
EXTENDS SettingsEnv

CONSTANTS
    EnvSpace,   \* the environments to try, records keyed by variable name
    MaxWGs      \* the most WireGuard configs the directory can hold

VARIABLES
    env,        \* the process environment
    nwgs,       \* len(wcfgs): the configs ParseWGConfigs parsed
    wgErr,      \* the error ParseWGConfigs returned: "none", "file", "dir"
    verdict     \* "pending", then "error" (run returns) or "started"

vars == <<env, nwgs, wgErr, verdict>>

Init ==
    /\ env \in EnvSpace
    /\ nwgs \in 0..MaxWGs
    /\ wgErr \in {"none", "file", "dir"}
    \* ParseWGConfigs: a directory error returns no configs; a file error
    \* stops the parse outside Report mode and is skipped in Ignore mode.
    /\ LET mode == Atoi(env.PUMPE_WG_PARSE_MODE)
       IN /\ wgErr = "file" => mode # Ignore
          /\ wgErr = "dir" \/ (wgErr = "file" /\ mode # Report) => nwgs = 0
    /\ verdict = "pending"

\* main: newSettingsFromEnv, then run's checks.
Run ==
    /\ verdict = "pending"
    /\ verdict' = IF RunRejects(NewSettingsFromEnv(env), nwgs, wgErr) THEN "error" ELSE "started"
    /\ UNCHANGED <<env, nwgs, wgErr>>

Spec == Init /\ [][Run]_vars

-----------------------------------------------------------------------------
(* Properties *)

TypeOK ==
    /\ env \in EnvSpace
    /\ nwgs \in 0..MaxWGs
    /\ wgErr \in {"none", "file", "dir"}
    /\ verdict \in {"pending", "error", "started"}

\* Spec I5 ("Tor gate count never exceeds the configured TorMax"): a
\* process that run lets start brings up no more Tor gates (cfg.torN, all
\* put in the Set by NewTors and NewSet) than cfg.torMax, the cap Set.New
\* enforces afterwards.
StartupTorsWithinTorMax ==
    verdict = "started" =>
        LET s == NewSettingsFromEnv(env) IN s.torN <= s.torMax

=============================================================================
