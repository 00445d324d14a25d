-------------------------- MODULE ProcessLifecycle --------------------------
(***************************************************************************)
(* The life of the pumpe process (src/cmd/pumpe/pumpe.go, run): RunFn      *)
(* starts the WireGuard and Tor devices, builds the gate Set, warms it up  *)
(* and serves HTTP; ShutFn, called by the daemon on a signal, runs         *)
(* srv.Shutdown and then set.Shutdown in the order they were put on shutc. *)
(* Proxy connections run while the server listens: plain HTTP requests are *)
(* tracked by the http.Server, CONNECT tunnels are hijacked and are not.   *)
(* A gate is reduced to its device; what the Set does to a gate while the  *)
(* process serves is the subject of GateSet.                               *)
(***************************************************************************)
EXTENDS Naturals

CONSTANTS
    WGs,        \* the parsed WireGuard configs, one device each
    Tors,       \* the cfg.torN Tor instances NewTors starts
    Conns       \* client connections to the proxy

ASSUME WGs \cap Tors = {}

Devs == WGs \cup Tors

\* The two goroutines that call Set.Shutdown: RunFn and ShutFn.
Callers == {"run", "shutfn"}

VARIABLES
    rp,         \* RunFn's step
    rpend,      \* the WireGuard devices ShutdownList still has to close
    dev,        \* dev[d]: "none", "up", "closed", "stuck" (close failed), or
                \* "closing" (shutdownOne gave up, close() still runs)
    closes,     \* closes[d]: successful close() calls on d, capped at 2
    warm,       \* Set.Warmup: the warming flag, gates left, an error seen
    sets,       \* the Set: built, the shutting latch, onceShut taken, gates left, done
    caller,     \* caller[c]: c's Set.Shutdown call
    srv,        \* the http.Server
    srvTimedOut,\* srv.Shutdown returned ctx.Err() with requests still running
    shutc,      \* shutc has been filled and closed
    sf,         \* ShutFn's step
    conn        \* conn[c]: "idle", or serving an "http" request or a "tunnel"

vars == <<rp, rpend, dev, closes, warm, sets, caller, srv, srvTimedOut, shutc, sf, conn>>

RunPcs == {"wg", "tor", "tor_fail", "warm", "setup", "serve", "run_shut", "exit"}

TypeOK ==
    /\ rp \in RunPcs
    /\ rpend \subseteq Devs
    /\ dev \in [Devs -> {"none", "up", "closed", "stuck", "closing"}]
    /\ closes \in [Devs -> 0..2]
    /\ warm \in [warming : BOOLEAN, pending : SUBSET Devs, failed : BOOLEAN]
    /\ sets \in [built : BOOLEAN, shutting : BOOLEAN, once : BOOLEAN,
                 snap : SUBSET Devs, pending : SUBSET Devs, done : BOOLEAN]
    /\ sets.pending \subseteq sets.snap
    /\ caller \in [Callers -> {"none", "call", "running", "waiting", "returned"}]
    /\ srv \in {"none", "created", "listening", "draining", "closed"}
    /\ srvTimedOut \in BOOLEAN
    /\ shutc \in BOOLEAN
    /\ sf \in {"none", "blocked", "srv", "set", "done"}
    /\ conn \in [Conns -> {"idle", "http", "tunnel"}]

\* run has passed its config checks and made shutc and killc; RunFn starts.
Init ==
    /\ rp = "wg"
    /\ rpend = {}
    /\ dev = [d \in Devs |-> "none"]
    /\ closes = [d \in Devs |-> 0]
    /\ warm = [warming |-> FALSE, pending |-> {}, failed |-> FALSE]
    /\ sets = [built |-> FALSE, shutting |-> FALSE, once |-> FALSE, snap |-> {},
               pending |-> {}, done |-> FALSE]
    /\ caller = [c \in Callers |-> "none"]
    /\ srv = "none"
    /\ srvTimedOut = FALSE
    /\ shutc = FALSE
    /\ sf = "none"
    /\ conn = [c \in Conns |-> "idle"]

\* close() on d: a Tor instance closes; a WireGuard device is left up when
\* dev.down() fails (WireGuard.close).
CloseDevice(d) ==
    \/ /\ dev' = [dev EXCEPT ![d] = "closed"]
       /\ closes' = [closes EXCEPT ![d] = IF @ < 2 THEN @ + 1 ELSE @]
    \/ /\ d \in WGs
       /\ dev' = [dev EXCEPT ![d] = "stuck"]
       /\ UNCHANGED closes

\* shutdownOne(ctx, d): close() returns first, or ctx ends first and
\* shutdownOne returns ctx.Err() while close() goes on in its goroutine.
ShutdownOne(d) ==
    \/ CloseDevice(d)
    \/ dev' = [dev EXCEPT ![d] = "closing"] /\ UNCHANGED closes

-----------------------------------------------------------------------------
(* RunFn: startup.                                                         *)

\* Unchanged outside RunFn's startup.
StartUnchanged == UNCHANGED <<closes, sets, caller, srv, srvTimedOut, shutc, sf, conn>>

\* NewWireGuards: the next config's device comes up, or its factory fails
\* and NewWireGuards returns nil, err, dropping the devices it started.
StartWG ==
    /\ rp = "wg"
    /\ \E d \in WGs :
         /\ dev[d] = "none"
         /\ \/ dev' = [dev EXCEPT ![d] = "up"] /\ UNCHANGED rp
            \/ rp' = "exit" /\ UNCHANGED dev
    /\ UNCHANGED <<rpend, warm>> /\ StartUnchanged

RunWGsStarted ==
    /\ rp = "wg"
    /\ \A d \in WGs : dev[d] = "up"
    /\ rp' = "tor"
    /\ UNCHANGED <<rpend, dev, warm>> /\ StartUnchanged

\* NewTors: the next Tor instance starts, or newTorWithFactory fails and
\* NewTors returns nil, err; RunFn then stops the WireGuard devices with
\* ShutdownList(ctx, wgs).
StartTor ==
    /\ rp = "tor"
    /\ \E d \in Tors :
         /\ dev[d] = "none"
         /\ \/ dev' = [dev EXCEPT ![d] = "up"] /\ UNCHANGED <<rp, rpend>>
            \/ rp' = "tor_fail" /\ rpend' = WGs /\ UNCHANGED dev
    /\ UNCHANGED warm /\ StartUnchanged

\* ShutdownList(ctx, wgs): one shutdownOne goroutine per WireGuard device.
RunCloseWG(d) ==
    /\ rp = "tor_fail"
    /\ d \in rpend
    /\ ShutdownOne(d)
    /\ rpend' = rpend \ {d}
    /\ UNCHANGED <<rp, warm, sets, caller, srv, srvTimedOut, shutc, sf, conn>>

\* ShutdownList has returned; RunFn returns NewTors' error.
RunTorsFailed ==
    /\ rp = "tor_fail"
    /\ rpend = {}
    /\ rp' = "exit"
    /\ UNCHANGED <<rpend, dev, warm>> /\ StartUnchanged

\* NewDirect, the SetConfig and NewSet, with every started device mapped.
RunTorsStarted ==
    /\ rp = "tor"
    /\ \A d \in Tors : dev[d] = "up"
    /\ rp' = "warm"
    /\ sets' = [sets EXCEPT !.built = TRUE]
    /\ UNCHANGED <<rpend, dev, closes, warm, caller, srv, srvTimedOut, shutc, sf, conn>>

\* The results warmupOne can give a gate: warmupDoer's 200 within the
\* client timeout, or an error (request, transport, ErrWarmupBadResponse,
\* or ctx.Err() when the context ends before warmupDoer answers).
WarmupOutcomes == {"ok", "failed"}

WarmUnchanged == UNCHANGED <<rpend, dev, closes, sets, srv, srvTimedOut, shutc, sf, conn>>

\* Set.Warmup: not shutting, CAS warming 0 -> 1, then WarmupList over
\* tgs.Values() and over wgs.Values().
WarmupBegin ==
    /\ rp = "warm"
    /\ ~warm.warming /\ ~sets.shutting
    /\ warm' = [warming |-> TRUE, pending |-> {d \in Devs : dev[d] = "up"}, failed |-> FALSE]
    /\ UNCHANGED <<rp, caller>> /\ WarmUnchanged

\* warmupOne for gate d: its warmupDoer result, or ctx.Err().
WarmupOne(d) ==
    /\ rp = "warm"
    /\ d \in warm.pending
    /\ \E r \in WarmupOutcomes :
         warm' = [warm EXCEPT !.pending = @ \ {d}, !.failed = @ \/ r = "failed"]
    /\ UNCHANGED <<rp, caller>> /\ WarmUnchanged

\* collectErrs has drained both groups; the deferred store clears warming.
\* On an error RunFn calls set.Shutdown(ctx) and returns the error.
WarmupEnd ==
    /\ rp = "warm"
    /\ warm.warming /\ warm.pending = {}
    /\ warm' = [warm EXCEPT !.warming = FALSE]
    /\ IF warm.failed
         THEN rp' = "run_shut" /\ caller' = [caller EXCEPT !["run"] = "call"]
         ELSE rp' = "setup" /\ UNCHANGED caller
    /\ WarmUnchanged

-----------------------------------------------------------------------------
(* RunFn: serving.                                                         *)

\* The http.Server is made, srv.Shutdown and set.Shutdown are put on shutc
\* in that order and shutc is closed; srv.Close goes on killc.
RunServeSetup ==
    /\ rp = "setup"
    /\ rp' = "serve" /\ srv' = "created" /\ shutc' = TRUE
    /\ UNCHANGED <<rpend, dev, closes, warm, sets, caller, srvTimedOut, sf, conn>>

\* ListenAndServe binds the port, or fails to; either way a returned error
\* sends RunFn into set.Shutdown(sctx).
RunListen ==
    /\ rp = "serve" /\ srv = "created"
    /\ \/ srv' = "listening" /\ UNCHANGED <<rp, caller>>
       \/ rp' = "run_shut" /\ caller' = [caller EXCEPT !["run"] = "call"] /\ UNCHANGED srv
    /\ UNCHANGED <<rpend, dev, closes, warm, sets, srvTimedOut, shutc, sf, conn>>

\* ListenAndServe returns http.ErrServerClosed as soon as srv.Shutdown has
\* begun.  The check `serr != nil && !errors.Is(err, http.ErrServerClosed)`
\* tests err, which is nil here, so RunFn calls set.Shutdown(sctx) then too.
RunServeReturn ==
    /\ rp = "serve" /\ srv \in {"draining", "closed"}
    /\ rp' = "run_shut" /\ caller' = [caller EXCEPT !["run"] = "call"]
    /\ UNCHANGED <<rpend, dev, closes, warm, sets, srv, srvTimedOut, shutc, sf, conn>>

\* set.Shutdown has returned: RunFn returns.
RunReturn ==
    /\ rp = "run_shut" /\ caller["run"] = "returned"
    /\ rp' = "exit"
    /\ UNCHANGED <<rpend, dev, closes, warm, sets, caller, srv, srvTimedOut, shutc, sf, conn>>

-----------------------------------------------------------------------------
(* Set.Shutdown, called by RunFn and by ShutFn, guarded by onceShut.       *)

ShutUnchanged == UNCHANGED <<rp, rpend, warm, srv, srvTimedOut, shutc, sf, conn>>

\* Mutant: Shutdown without onceShut; every caller closes every gate.
ShutdownCallNoOnce(c) ==
    /\ caller[c] = "call"
    /\ sets' = [sets EXCEPT !.once = TRUE, !.shutting = TRUE,
                            !.pending = @ \cup {d \in Devs : dev[d] \in {"up", "closed"}}]
    /\ caller' = [caller EXCEPT ![c] = "running"]
    /\ UNCHANGED <<dev, closes>> /\ ShutUnchanged

\* onceShut.Do: the first caller closes the latch and takes the snapshots
\* tgs.Values() and wgs.Values(); a later caller blocks in Do until the
\* first one's function has returned.
ShutdownCall(c) ==
    /\ caller[c] = "call"
    /\ IF ~sets.once
         THEN /\ LET snap == {d \in Devs : dev[d] = "up"}
                 IN sets' = [sets EXCEPT !.once = TRUE, !.shutting = TRUE,
                                         !.snap = snap, !.pending = snap]
              /\ caller' = [caller EXCEPT ![c] = "running"]
         ELSE /\ caller' = [caller EXCEPT ![c] = "waiting"]
              /\ UNCHANGED sets
    /\ UNCHANGED <<dev, closes>> /\ ShutUnchanged

\* ShutdownList: shutdownOne on one gate of the snapshots.  Its error (a
\* failed close() or ctx.Err()) reaches only the first caller, RunFn or
\* ShutFn, and is not modelled: neither caller's use of it changes state.
ShutdownClose(d) ==
    /\ d \in sets.pending
    /\ ShutdownOne(d)
    /\ sets' = [sets EXCEPT !.pending = @ \ {d}]
    /\ UNCHANGED caller /\ ShutUnchanged

\* The close() goroutine that shutdownOne left behind finishes while the
\* process still runs.
CloseLate(d) ==
    /\ dev[d] = "closing" /\ rp # "exit"
    /\ CloseDevice(d)
    /\ UNCHANGED <<rp, rpend, warm, sets, caller, srv, srvTimedOut, shutc, sf, conn>>

\* collectErrs has drained errc: the function given to Do returns.
ShutdownFinish(c) ==
    /\ caller[c] = "running" /\ sets.pending = {}
    /\ sets' = [sets EXCEPT !.done = TRUE]
    /\ caller' = [caller EXCEPT ![c] = "returned"]
    /\ UNCHANGED <<dev, closes>> /\ ShutUnchanged

\* Mutant: a later caller does not wait for the first call to finish.
ShutdownWaitNoBlock(c) ==
    /\ caller[c] = "waiting"
    /\ caller' = [caller EXCEPT ![c] = "returned"]
    /\ UNCHANGED <<dev, closes, sets>> /\ ShutUnchanged

\* The blocked caller's Do returns once the first call's function has.
ShutdownWait(c) ==
    /\ caller[c] = "waiting" /\ sets.done
    /\ caller' = [caller EXCEPT ![c] = "returned"]
    /\ UNCHANGED <<dev, closes, sets>> /\ ShutUnchanged

-----------------------------------------------------------------------------
(* ShutFn (callFuncsCtxErr over shutc) and the proxy connections.          *)

SfUnchanged == UNCHANGED <<rp, rpend, dev, closes, warm, sets, shutc, conn>>

\* The daemon calls ShutFn on a signal, at any time after RunFn started.
Signal ==
    /\ sf = "none"
    /\ sf' = "blocked"
    /\ UNCHANGED <<caller, srv, srvTimedOut>> /\ SfUnchanged

\* Mutant: ShutFn calls set.Shutdown without srv.Shutdown.
ShutFnSkipSrv ==
    /\ sf = "blocked" /\ shutc
    /\ sf' = "set" /\ caller' = [caller EXCEPT !["shutfn"] = "call"]
    /\ UNCHANGED <<srv, srvTimedOut>> /\ SfUnchanged

\* `for fn := range fns` receives srv.Shutdown once RunFn has filled shutc.
\* Shutdown closes the listener and marks the server shut down, so a later
\* or a running ListenAndServe returns ErrServerClosed.
ShutFnSrvShutdown ==
    /\ sf = "blocked" /\ shutc
    /\ sf' = "srv" /\ srv' = "draining"
    /\ UNCHANGED <<caller, srvTimedOut>> /\ SfUnchanged

\* srv.Shutdown returns when no tracked connection is active, or with
\* ctx.Err() when the ShutTimeout context ends first; callFuncsCtxErr then
\* calls set.Shutdown(ctx) either way.
ShutFnSrvReturn ==
    /\ sf = "srv"
    /\ \/ /\ \A c \in Conns : conn[c] # "http"
          /\ srv' = "closed" /\ UNCHANGED srvTimedOut
       \/ /\ srvTimedOut' = TRUE /\ UNCHANGED srv
    /\ sf' = "set" /\ caller' = [caller EXCEPT !["shutfn"] = "call"]
    /\ SfUnchanged

ShutFnReturn ==
    /\ sf = "set" /\ caller["shutfn"] = "returned"
    /\ sf' = "done"
    /\ UNCHANGED <<caller, srv, srvTimedOut>> /\ SfUnchanged

ConnUnchanged == UNCHANGED <<rp, rpend, dev, closes, warm, sets, caller, srv, srvTimedOut, shutc, sf>>

\* handler.Pumpe.Handle on an accepted request: a CONNECT is hijacked and
\* tunnelled (HandleConnect), any other proxy request is HandleHTTP.  Both
\* go on past pickDialer also once the Set is shutting, when the request
\* names the Direct gate or a gate id (ByID and ByKind(Direct) do not look
\* at the latch).
ConnServe(c, k) ==
    /\ conn[c] = "idle" /\ srv = "listening"
    /\ conn' = [conn EXCEPT ![c] = k]
    /\ ConnUnchanged

\* The handler returns: the response was copied or the tunnel closed.
ConnDone(c) ==
    /\ conn[c] # "idle"
    /\ conn' = [conn EXCEPT ![c] = "idle"]
    /\ ConnUnchanged

-----------------------------------------------------------------------------

RunNext ==
    \/ StartWG \/ RunWGsStarted \/ StartTor \/ RunTorsStarted
    \/ (\E d \in WGs : RunCloseWG(d)) \/ RunTorsFailed \/ (\E d \in Devs : CloseLate(d))
    \/ WarmupBegin \/ (\E d \in Devs : WarmupOne(d)) \/ WarmupEnd
    \/ RunServeSetup \/ RunListen \/ RunServeReturn \/ RunReturn

ShutdownNext ==
    \E c \in Callers :
        ShutdownCall(c) \/ ShutdownFinish(c) \/ ShutdownWait(c) \/ (\E d \in Devs : ShutdownClose(d))

ShutFnNext == Signal \/ ShutFnSrvShutdown \/ ShutFnSrvReturn \/ ShutFnReturn

Next ==
    \/ RunNext \/ ShutdownNext \/ ShutFnNext
    \/ \E c \in Conns : (\E k \in {"http", "tunnel"} : ConnServe(c, k)) \/ ConnDone(c)

Spec == Init /\ [][Next]_vars

\* RunFn, Set.Shutdown and ShutFn once signalled run by themselves, and the
\* shutdown context always expires.  A plain HTTP request ends within the
\* gates' HTTP client timeout; a tunnel lasts as long as its client wants.
FairSpec ==
    /\ Spec
    /\ WF_vars(RunNext) /\ WF_vars(ShutdownNext)
    /\ WF_vars(ShutFnSrvShutdown \/ ShutFnSrvReturn \/ ShutFnReturn)
    /\ \A c \in Conns : WF_vars(conn[c] = "http" /\ ConnDone(c))

-----------------------------------------------------------------------------
(* Properties *)

\* No device is closed twice although two goroutines call set.Shutdown
\* (RunFn after ListenAndServe returns, and ShutFn): onceShut runs the
\* closing once, and the failure paths close only what they started.
NoDeviceClosedTwice == \A d \in Devs : closes[d] <= 1

\* Once the Set was built, RunFn returns only after shutdownOne has run on
\* every device (it closed, its close failed, or ctx ended first): its own
\* set.Shutdown blocks in onceShut.Do while ShutFn's call is still closing.
ExitAfterGatesClosed ==
    (rp = "exit" /\ sets.built) => \A d \in Devs : dev[d] # "up"

\* A signal makes the process stop: srv.Shutdown ends ListenAndServe, and
\* RunFn's set.Shutdown returns.
SignalLeadsToExit == sf # "none" ~> rp = "exit"

\* Spec 6.3 / the startup comments ("Stop WireGuard if failed to start
\* Tor"): a run that fails during startup leaves no device running.
StartupFailureReleasesDevices ==
    (rp = "exit" /\ ~sets.built) => \A d \in Devs : dev[d] # "up"

\* The order put on shutc (srv.Shutdown, then set.Shutdown) means: the gates
\* are closed only after the HTTP server has drained its requests, unless
\* srv.Shutdown gave up at its deadline.
HTTPDrainedBeforeGatesClose ==
    (sets.shutting /\ ~srvTimedOut) => \A c \in Conns : conn[c] # "http"

=============================================================================
