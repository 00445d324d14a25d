---------------------------- MODULE SettingsEnv ----------------------------
(***************************************************************************)
(* The pure part of the pumpe process's configuration                      *)
(* (src/cmd/pumpe/pumpe.go): newSettingsFromEnv, with its defaults and     *)
(* ceilings, and the checks run makes before the daemon starts RunFn.      *)
(* A raw numeric value is Unset, Junk (does not parse), or Num(n, unit),  *)
(* a well-formed number with its unit ("" for an integer).  Durations are *)
(* in milliseconds.  Settings checks these operators; MCGateSet takes the *)
(* Set's loop delays from them.                                            *)
(***************************************************************************)
EXTENDS Integers

Unset == [tag |-> "unset", n |-> 0, unit |-> ""]
Junk == [tag |-> "junk", n |-> 0, unit |-> ""]
Num(n, unit) == [tag |-> "num", n |-> n, unit |-> unit]
Unparsed == {Unset, Junk}

UnitMs == [ms |-> 1, s |-> 1000, m |-> 60000]

\* time.ParseDuration; on an error its zero result is kept (`_`).
ParseDuration(r) == IF r \in Unparsed THEN 0 ELSE r.n * UnitMs[r.unit]

\* strconv.Atoi; on an error its zero result is kept.
Atoi(r) == IF r \in Unparsed THEN 0 ELSE r.n

\* strconv.ParseBool: the strings it reads as true; anything else is false
\* or an error, and both leave the field false.
ParseBool(r) == r \in {"1", "t", "T", "TRUE", "true", "True"}

\* A zero value, or one above the ceiling, snaps back to the default.
Snap(v, ceiling, default) == IF v = 0 \/ v > ceiling THEN default ELSE v

\* newSettingsFromEnv, for the fields the Set and RunFn use.  Port, log
\* level, log format and AddSource only get string defaults.
NewSettingsFromEnv(e) ==
    LET defKind == IF e.PUMPE_DEFAULT_KIND = "" THEN "tor" ELSE e.PUMPE_DEFAULT_KIND
        httpTout == ParseDuration(e.PUMPE_HTTP_CLIENT_TIMEOUT)
        torTout  == ParseDuration(e.PUMPE_TOR_STARTUP_TIMEOUT)
        torN     == Atoi(e.PUMPE_TOR_NUM)
        torMax   == Atoi(e.PUMPE_TOR_MAX)
    IN [defKind              |-> defKind,
        wgDir                |-> e.PUMPE_WG_DIR,
        wgParseMode          |-> Atoi(e.PUMPE_WG_PARSE_MODE),
        shutdownTimeout      |-> Snap(ParseDuration(e.PUMPE_SHUTDOWN_TIMEOUT), 60000, 30000),
        httpClientTimeout    |-> IF httpTout = 0 THEN 60000 ELSE httpTout,
        setRandomLoopTimeout |-> Snap(ParseDuration(e.PUMPE_SET_RANDOM_LOOP_TIMEOUT), 60000, 30000),
        setRandomLoopDelay   |-> Snap(ParseDuration(e.PUMPE_SET_RANDOM_LOOP_DELAY), 100, 10),
        setStateLoopTimeout  |-> Snap(ParseDuration(e.PUMPE_SET_STATE_LOOP_TIMEOUT), 60000, 30000),
        setStateLoopDelay    |-> Snap(ParseDuration(e.PUMPE_SET_STATE_LOOP_DELAY), 100, 10),
        torStartupTimeout    |-> IF torTout = 0 \/ torTout < 120000 THEN 180000 ELSE torTout,
        torN                 |-> IF defKind = "tor" /\ torN = 0 THEN 4 ELSE torN,
        torMax               |-> IF torMax = 0 THEN 128 ELSE torMax,
        wgDNS                |-> IF e.PUMPE_WG_DNS = "" THEN "9.9.9.9" ELSE e.PUMPE_WG_DNS,
        randomiseKinds       |-> ParseBool(e.PUMPE_RANDOMISE_KINDS)]

Kinds == {"direct", "tor", "wireguard"}

\* WGParseModeReport, WGParseModeStop, WGParseModeIgnore.
Report == 0
Ignore == 2

\* handleWGParseErr: in Report mode a joined per-file error is logged and
\* dropped, any other error is returned; Ignore drops every error; any
\* other mode returns it.  ParseWGConfigs never reports a file error in
\* Ignore mode.
WGParseFails(mode, err) ==
    /\ err # "none"
    /\ \/ mode = Report /\ err = "dir"
       \/ mode \notin {Report, Ignore}

\* netip.ParseAddr on the DNS setting: "junk" does not parse.
DNSParses(raw) == raw # "junk"

\* The checks of run, in order, before the daemon starts RunFn.
RunRejects(s, n, err) ==
    \/ s.wgDir = ""
    \/ s.defKind \notin Kinds
    \/ WGParseFails(s.wgParseMode, err)
    \/ s.defKind = "wireguard" /\ n = 0
    \/ s.randomiseKinds /\ (n = 0 \/ s.torN = 0)
    \/ ~DNSParses(s.wgDNS)

=============================================================================
