# TLA+ models of pumpe

pumpe is an HTTP/CONNECT forward proxy that sends each request out through
one of several *exit gates*: the host's own network (Direct), a Tor process,
or a WireGuard userspace device. This directory holds TLA+ models of the
concurrent core of the program, the TLC configurations that check them, and
the results. `PROJECT.json` lists every component, run, mutant, the source
lines that each definition models, the findings and the hazards.

## The system

| Part | Source | What it does | Concurrency |
|---|---|---|---|
| Gate state cell | `src/gate/gate.go` 782–917 (`baseGate`, `gateState`) | Each gate has a `uint32` state (Ready, Maintenance, Closed) that is changed only by CAS, and an in-flight counter `nreq` guarded by a mutex. | It is shared by every request goroutine and by every management call. |
| Gate Set | `src/gate/gate.go` 147–545 (`Set`) | The registry. It holds Direct plus two maps, `tgs` (Tor) and `wgs` (WireGuard). Operations: `ByID`, `ByKind`, `Random`, `New`, `RefreshOne`, `CloseOne`, `Shutdown`, `Warmup`, `GateIDs`. `RefreshOne` and `CloseOne` run `forState`, which sets the target state, removes the gate from its map, and waits for `nreq = 0`. It stops waiting early on the shutting latch or a deadline, and on the deadline it reverts with `toState`. | Many goroutines call it at once. |
| Concurrent map | `src/model/model.go` | `model.Set`: a map under a RWMutex, with `Get`, `Set`, `Remove`, `Len`, `Random`, `Keys`, `Values`. In `GateSet` a map is its key set; `Len` and `Random` are operators, and `Set` and `Remove` are `InsertIntoMap` and `RemoveFromMap`. | Each call is atomic. |
| Tor gate | `src/unnamed/part_003` | `refresh`: a CAS on `refreshing`, then NEWNYM, then the flag is cleared. `close` stops the process. `torCreator.new` starts one. | Refresh is guarded by its own flag. |
| WireGuard gate | `src/unnamed/part_004` | `close` runs `down` and then `close`. If `down` fails, the device is not closed. `refresh` is not implemented. The file also parses INI configs. | |
| Proxy pipeline | `src/unnamed/part_006` 54–255 (`service.Pumpe`) | `HandleConnect` and `HandleHTTP` call `pickDialer` (by id header, by kind header, or random), then `AddReq`, dial and copy, then a deferred `DidReq`. | There is one goroutine per client connection. |
| Management API | `service.Proxy` (`gate.go` 953–1017), `handler/proxy.go` (in `src/handler/mock_test.go`) | List, Create (`Set.New`), Refresh (`RefreshOne`), Stop (`CloseOne`), and the mapping from errors to HTTP statuses. | There is one goroutine per API request. |
| Process lifecycle | `src/cmd/pumpe/pumpe.go` (`RunFn`, `ShutFn`, `callFuncsCtxErr`) | At startup `RunFn` starts the WireGuard devices and the Tor instances, builds the `NewSet`, and runs `Warmup`. It then serves HTTP. It puts `srv.Shutdown` and `set.Shutdown` on `shutc` in that order. On a signal the daemon calls `ShutFn`, which runs them. | `RunFn` and `ShutFn` run at once. Both may call `set.Shutdown`, and `onceShut` makes the second call wait. |
| Web plumbing | `src/unnamed/part_000`, `part_007` | Router, JSON error writer, logging. | None. |

How they interact: a proxy request reads a gate's state, then increments
its counter and uses it. A management call takes the gate out of its map,
waits for the counter to reach zero, and then refreshes or closes the
device. Shutdown closes a latch that every loop polls, snapshots both maps
and closes every gate in them. All of these run at the same time, and none
of them holds a lock across its steps.

## Modules

- **`GateCell.tla`**: constant operators for the cell's CAS transitions:
  `ToReadyOf`, `ToMaintOf`, `ToClosedOf` (the two CASes of `toClosed` taken
  together) and `ToStateOf` (`baseGate.toState`).
- **`GateLifecycle.tla`**: the abstract lifecycle of spec section 3. A gate
  starts Ready. It moves Ready↔Maintenance, and from either of those to
  Closed, which is final.
- **`GateState.tla`** / **`MCGateState.tla`**: one `gateState` with
  concurrent `Callers`. Every method is an action. `toClosed` is split into
  its two CASes, with `pc` recording a caller that is between them. `nreq`
  is bounded by `MaxReqs`.
- **`GateSet.tla`** / **`MCGateSet.tla`**: the Set with its users, in three
  process families. A gate is an id, and `state`, `nreq`, `closes` and
  `refreshing` are functions of the id.
  - *Requests* (`Reqs`, `rq[r].pc`) model `pickDialer`:
    - `ReqByID` and `ReqCheckID` are `ByID`'s lookup and its separate ready check.
    - `ReqPickDialer` is the header choice: an id header (`ReqByID`), a kind header from `HeaderKinds` (`ReqByKind`), or neither (`ReqRandom`, which is `Set.Random`). `KindOrDefault` and `PickRandomKind` are `kindOrDefault` and `pickRandomKind`, driven by the constants `Default` and `RandomiseKinds`.
    - `ReqByKind` is `ByKind`: Direct at once, otherwise entry to `byKindReady`. `ReqPickRandom`, `ReqCheckRandom` and `ReqTimeout` are its polling loop, and `Random` is `model.Set.Random`. The loop head also stands for the ticker.
    - `delays` is the Set's `RandomLoopDelay` and `StateLoopDelay`, chosen from `LoopDelays` at start. `time.NewTicker` panics on a value of 0 or less, and `net/http` recovers the handler's panic. So with such a delay a Tor or WireGuard selection ends with no gate, and `FsRemove` ends the management call with the gate already out of its map.
    - After the pick, `ReqAddReq` and `ReqDidReq` model the deferred `DidReq`. A request in `using` stands for the dial and the byte copy.
  - *Admins* (`Admins`, `ad[a]`) run `RefreshOne`, `CloseOne` and `New` as sequences of atomic steps:
    - `New` checks the latch and TorMax. `NewDone` is the factory returning, either failing or inserting a fresh id.
    - `forState` is split into `FsGetState`, `FsToState` (the first CAS), `FsToClosedSecond`, `FsRemove`, `FsCheck` (the loop head: latch, `noReqs`, wait) and `FsTimeout` (which starts the revert).
    - Refresh is `RefreshStart` (the `refreshing` CAS) and `RefreshSignal` (NEWNYM ends, the flag is cleared, then either the error return or `toState(Ready)`).
    - Close is `CloseGate`. For a WireGuard gate, `down` may fail.
    - `Set.toState` is `ToStateCas` (`resetReqs` and the CAS) followed by `ToStateSet` (the map insert).
  - *Shutdown* (`sd`):
    - `ShutLatch` closes `shutting`.
    - `ShutSnapTors` and `ShutSnapWGs` take the `Values()` snapshots.
    - `ShutCloseGate` is one `shutdownOne` per snapshotted gate.
    - `ShutDone` returns.

  `closes[g]` counts the device's successful `close()` calls, capped at 2.
  `born` is the set of Tor ids whose process has been started.
- **`ProcessLifecycle.tla`** / **`MCProcessLifecycle.tla`**: the process,
  with a gate reduced to its device. `dev[d]` is one of:
  - none;
  - up;
  - closed;
  - stuck, when WireGuard's `down()` fails;
  - closing, when `shutdownOne` returned `ctx.Err()` while `close()` still runs.

  There are four actors:
  - *RunFn* (`rp`):
    - `StartWG` and `RunWGsStarted` are `NewWireGuards`.
    - `StartTor` is `NewTors`. Its failure leads to `RunCloseWG`, which is `ShutdownList(ctx, wgs)`, and then to `RunTorsFailed`.
    - `RunTorsStarted` is `NewDirect` and `NewSet`.
    - `WarmupBegin`, `WarmupOne` and `WarmupEnd` are `Set.Warmup` with its `warming` CAS and `WarmupList`. A failed warmup calls `set.Shutdown`.
    - `RunServeSetup` builds the server and fills `shutc`.
    - `RunListen` is `ListenAndServe` binding or failing.
    - `RunServeReturn` is `ListenAndServe` returning and the `serr`/`err` check.
    - `RunReturn` returns.
  - *Set.Shutdown* (`sets`, `caller[c]` for `run` and `shutfn`):
    - `ShutdownCall` is `onceShut.Do`. The first caller latches and takes the snapshots; a later one blocks.
    - `ShutdownClose` is one `shutdownOne` (`ShutdownOne`). Either `close()` returns first, or the context ends first. The error (a failed close or the context error) reaches only the first caller, and neither caller's use of it changes state, so it is not modelled. `CloseLate` is a left-behind `close()` finishing while the process still runs.
    - `ShutdownFinish` is the function given to `Do` returning.
    - `ShutdownWait` is a blocked `Do` returning.
  - *ShutFn* (`sf`):
    - `Signal` is the daemon's call, which is the environment.
    - `ShutFnSrvShutdown` and `ShutFnSrvReturn` are `srv.Shutdown`. It returns when no tracked request is active, or with `ctx.Err()` at the deadline (`srvTimedOut`).
    - `ShutFnSrvReturn` then calls `set.Shutdown`, and `ShutFnReturn` follows.
  - *Connections* (`conn[c]`): `ConnServe` accepts a plain HTTP request or a hijacked CONNECT tunnel while the server listens. A Direct or by-id pick does not check the latch, so connections can still be accepted after the Set starts shutting. `ConnDone` ends it.
- **`SettingsEnv.tla`**: `newSettingsFromEnv` and the checks of `run`,
  as operators of a constant module. **`Settings.tla`** / **`MCSettings.tla`**
  check them as `main`'s one step. **`MCEnv.tla`** builds the environments
  that both `MCSettings` and `MCGateSet` use. `MCGateSet` instantiates it
  (`Env == INSTANCE MCEnv`) and takes `GateSet`'s `LoopDelays` from the
  settings of every start that `run` accepts (`StartedDelays`). This is how
  the two components meet: the Set runs with the delays the settings code
  produces.
  - An environment is a record keyed by variable name.
  - A numeric raw value is `Unset`, `Junk` or `Num(n, unit)`.
  - `ParseDuration`, `Atoi` and `ParseBool` keep Go's zero result on an error, as the code's `_` does.
  - `Snap` is the `== 0 || > ceiling` reset.
  - `NewSettingsFromEnv` is the whole function for the fields the Set and `RunFn` use.
  - `RunRejects` is `run`'s early returns, in order. It includes `handleWGParseErr` (`WGParseFails`), with the outcome of `ParseWGConfigs` as an input.
  - `Run` is `main` deciding whether the daemon starts.

The action steps follow the code's atomicity:
- each `model.Set` call is one step, because it takes the map's lock;
- each CAS or atomic load is one step;
- each mutex-guarded counter operation is one step;
- any two of these in sequence are two steps.

## Runs

| Run (cfg) | Expect | Checks |
|---|---|---|
| `GateState.cfg` | pass | `TypeOK`, and `LifecycleRefined`: three callers racing on one cell implement `GateLifecycle` under `st <- st`. |
| `GateStateToClosed.cfg` | violation | `ToClosedTakesEffect`: a `toClosed` can finish and leave the gate Ready, because a `toReady` runs between its two CASes. |
| `GateSet.cfg` | pass | `TypeOK`, `NoDoubleClose` and `ReadyGatesReachable` (a live Ready gate outside a management call is in `tgs` or `wgs`, where selection looks; it fails if `Set.toState` sets Ready without re-inserting, as on CloseOne's revert at `gate.go` 507), and under `FairSpec` the liveness properties `AdminCallsReturn` and `SelectionReturns`. It uses 1 request, 1 admin and Shutdown, over Direct, Tor ids {t1 (started), t2} and WireGuard {w1}, with TorMax 1. Clients send kind headers Direct or Tor, and header-less requests use `Random` with `RandomiseKinds`. The loop delays are `StartedDelays`: each of the two is the 10 ms default or the -1 ms that `newSettingsFromEnv` lets through. About 436k states, in about 55 s. |
| `GateSetOrphan.cfg` | violation | `NoOrphanedGate` |
| `GateSetCloseRevert.cfg` | violation | `MappedGatesNotClosed` |
| `GateSetDrain.cfg` | violation | `DrainedBeforeMutate` |
| `GateSetShutAdmit.cfg` | violation | `NoAdmissionAfterShutting` |
| `GateSetTorMaxRace.cfg` | violation | `TorMaxRespected` with 2 admins and TorMax 1 |
| `ProcessLifecycle.cfg` | pass | `TypeOK` (it includes `rpend` ⊆ devices and the snapshot's pending set ⊆ the snapshot), `NoDeviceClosedTwice`, `ExitAfterGatesClosed` and, under `FairSpec`, `SignalLeadsToExit`. It uses WireGuard {w1, w2}, Tors {t1, t2, t3} and 2 connections. About 49k states, in about 5 s. Deadlock is not checked, because the process ends. |
| `ProcessDrain.cfg` | violation | `HTTPDrainedBeforeGatesClose` |
| `ProcessStartupLeak.cfg` | violation | `StartupFailureReleasesDevices` |
| `SettingsTorMax.cfg` | violation | `StartupTorsWithinTorMax` |

What the violations show. Each one disagrees with spec.md or with the
code's own comments; `PROJECT.json` "findings" has the lines.

1. **Orphaned gate.** `forState` removes the gate from its map before
   three steps that can end the call without putting it back:
   - the drain ticker panics on a non-positive `StateLoopDelay`;
   - Shutdown latches while the drain runs;
   - the refresh signal fails, and `RefreshOne` returns the error.

   Shutdown's snapshot then misses the gate, so its device is never
   stopped, and a retry gets GateNotFound. The spec says "caller may
   retry". With `GateSetOrphan.cfg`'s delays, TLC's shortest trace is the
   panic (4 steps). With only the default delays it is the latch (7 steps).
2. **Closed gate back in the map.** Suppose a CloseOne's drain times out
   while a tunnel is open. The revert calls `toReady`, whose CAS cannot
   leave Closed, and then `Set` re-inserts the gate. The map now holds a
   Closed gate, whose counter has been zeroed under the live request.
3. **Drain misses a picked request.** `pickDialer` checks readiness and
   returns before `AddReq`. A CloseOne that sets Closed, removes and drains
   in that window sees zero requests and closes the device that the request
   is about to dial.
4. **Admission during shutdown.** `New` checks the latch before the slow
   Tor factory and inserts the gate after it, so a gate can be admitted
   after Shutdown's snapshot.
5. **TorMax exceeded.** `New` counts `tgs` while a RefreshOne has a gate
   out of it. When the refresh puts the gate back, the map holds
   TorMax + 1 gates.
6. **`toClosed` is not atomic.** Its two CASes let a concurrent `toReady`
   turn the call into a no-op. Spec section 3 says the transitions are
   "enforced atomically".
7. **Gates closed under live HTTP requests at exit.** `RunFn` checks
   `serr != nil && !errors.Is(err, http.ErrServerClosed)` with `err`, which
   is nil at that point, instead of `serr` (`pumpe.go` 136). When ShutFn's
   `srv.Shutdown` begins, `ListenAndServe` returns `ErrServerClosed` at once
   and `RunFn` calls `set.Shutdown`. The gates are then closed while
   `srv.Shutdown` is still draining requests that use them. This happens
   although `shutc` orders the server first, and the comment says this
   path is only for an unexpected failure.
8. **Devices leak on a startup failure.** `NewWireGuards` returns
   `nil, err` when a device fails to start (`part_004` 96), and drops the
   ones it already brought up; `RunFn` returns the error without closing
   them. TLC's shortest trace is this one: one WireGuard device starts, the
   next fails. `NewTors` has the same early return (`part_003` 75), so
   started Tor processes outlive a failed run as well.
9. **TorMax below the startup Tor count.** `newSettingsFromEnv` replaces
   only a zero `PUMPE_TOR_MAX`. `run` never compares it with `torN`, which
   is 4 by default. With `PUMPE_TOR_MAX=-1`, or any value from 1 to 3,
   the process starts more Tor gates than TorMax. This breaks spec I5
   ("Tor gate count never exceeds the configured TorMax"), and every
   `Set.New` then fails.

Two `CloseOne` calls on one id can both pass `byID` before either removes
the gate. `NoDoubleClose` is checked with one admin only, so no run
covers that case now (hazard at `gate.go` 285).

Every property of a passing run has a mutant in `PROJECT.json`: a plausible
bug in the mapped code (a dropped guard, an off-by-one, a missing latch, an
unsaturated decrement, an ignored deadline) under which TLC finds that
property violated.

## Bounds

- **Two Tor ids, one initially started, TorMax 1.** The map starts full,
  so `New` succeeds only after a gate has left `tgs`. A check that is off
  by one admits the second id at once.
- **One WireGuard gate.** This exercises the second map and the
  `down()` failure.
- **One request.** One request is enough to sit in every window between
  `pickDialer`, `AddReq` and `DidReq`. Two requests multiply the state
  space by about 40 and add no new step.
- **One admin in `GateSet.cfg`, two in `GateSetTorMaxRace.cfg`.** The
  two-admin run `GateSetTorMaxRace.cfg` uses Tor ids {t1, t2} and
  WireGuard {w1}, like `GateSet.cfg`, and stays under a minute.
- **Process: two WireGuard devices, three Tors, two connections.** With
  three Tors, two can start and the third fail, which is the case that
  leaks. Two WireGuard devices close concurrently in `ShutdownList`, and
  either may fail `down()` or be abandoned at the deadline. Two connections let one request be live while another
  is a tunnel. `closes` is capped at 2 here as well.
- **Loop delays.** `StartedDelays` varies only the two delay variables
  (unset or -1 ms), because only their sign matters to `GateSet`. TLC
  evaluates the definition in every state, so it uses `DelayEnvSpace`
  (4 environments) and not all of `MCEnvSpace`.
- **Counters.** `closes` is capped at 2, which is all that
  `NoDoubleClose` needs.
- **Settings.** There are 14 variables with 1 to 4 raw values each:
  - unset, junk and in-range values;
  - values above a ceiling or below the Tor startup floor;
  - negative loop delays, and a negative or small `PUMPE_TOR_MAX`.

  That gives 55k environments, each combined with 0 or 1 WireGuard configs
  and the three outcomes of `ParseWGConfigs`. `nreq` is bounded by the number of requests,
  since each request adds at most 1.

## Fairness

In `FairSpec`, the steps the code takes by itself once a call is under way
are weakly fair:
- the rest of a request's selection (`ReqProgress`);
- the steps of a running management call (`AdmProgress`);
- the steps of Shutdown after its latch.

The context deadlines (`ReqTimeout`, `FsTimeout`) are strongly fair. The
loops they end check them only at each tick, but `context.WithTimeout`
always fires.

These steps are not fair:
- starting a request, a management call, `New` or `Shutdown`, which is the
  client's choice;
- `ReqDidReq`, because a CONNECT tunnel may stay open for as long as the
  client likes.

In `ProcessLifecycle`'s `FairSpec`, these are weakly fair:
- `RunFn`'s steps;
- `Set.Shutdown`'s steps;
- ShutFn's steps after the signal. This includes `srv.Shutdown`'s deadline, which always fires.

A plain HTTP request's end is weakly fair, because the gates' HTTP clients
have a timeout. The signal, accepting a connection, and a tunnel's end are
not fair.

## Not modelled

The items below are not modelled, and the Plan says why for the larger ones.
- `GateIDs` and `Proxy.Gates` (the management List). They only read the
  maps, so a List call changes no state that a property is about.
- Dialing, HTTP and the byte copy. These are I/O and are abstracted into
  the `using` phase.
- The header helpers (`delHeaders`, `delConnectionHeaders`,
  `addHostToXForwardedHeader`, `remoteAddrFromHost`).
- Kind parsing and JSON.
- The error-to-status mapping of the management handlers.
- WireGuard config parsing.
- In `cmd/pumpe`: `killc` and `srv.Close`, and logging. The port and
  log settings are only string defaults. `rawEnvToMap`'s splitting at `=`
  is taken as done. The daemon (`golocron/daemon`) is outside the
  repository and is the environment's `Signal` step.
- `src/gate/mock.go`: these are test doubles for the factories and
  devices. The model's nondeterministic outcomes stand in for them.
- `src/handler/handler.go`: the health endpoint, which has no state.
- The early return of `refreshOne` on context expiry while NEWNYM keeps
  running. `GateSet` treats it as the error branch. In `GateSet`, Shutdown's
  `shutdownOne` is also one step; `ProcessLifecycle` has its deadline.
- The tickers' timing. Only whether a delay is positive matters to the
  model (a non-positive one panics); a tick is the loop head running again.
- CONNECT tunnels at exit. `srv.Shutdown` does not track hijacked
  connections, so `set.Shutdown` closes gates under open tunnels. Spec
  I3 says in-flight requests continue to completion. The model lets
  tunnels live through shutdown, but no run states this as a property.

## Plan

1. **Done:** `GateCell`, `GateLifecycle` and `GateState` (cell refinement),
   and `GateSet` (requests, management calls and Shutdown) with safety,
   action and liveness properties.
2. **Done:** `ProcessLifecycle`: startup, including `Warmup` and its
   failure path; the two `set.Shutdown` callers; and the order of server
   and Set shutdown. `Warmup` runs only at startup, before the server
   exists, so it cannot race a management call.
3. **Done:** `shutdownOne`'s early return on its context (the
   abandoned `close()`, `CloseLate`), and `Settings` with `run`'s checks.
4. **Done:** `pickDialer`'s three paths with `kindOrDefault`, and the
   tickers' panic on a non-positive loop delay, with the delays taken
   from `SettingsEnv` (`StartedDelays`).
5. **Not pursued:** an abstract registry spec (admitted, in service,
   detached, closed) refined by `GateSet`. The orphan, re-insert and
   TorMax findings are exactly the steps such a mapping would reject, so
   the refinement would only restate them. The violation runs show them
   directly.
6. **Not pursued:** the header helpers, the `Kind` codec and the
   error-to-status mapping. They are functions of one request or one
   value, with no shared state and no interleaving, and the package's
   unit tests reach them directly.
7. **Not pursued:** the two `xferData` goroutines of a CONNECT tunnel.
   They share only the two sockets. What matters to the rest of the
   system is that the tunnel holds its gate until `DidReq`, which the
   `using` phase models.
