------------------------------ MODULE GateSet ------------------------------
(***************************************************************************)
(* The gate Set of src/gate/gate.go together with the code that uses it    *)
(* concurrently:                                                           *)
(*   - proxy requests (service.Pumpe.HandleConnect / HandleHTTP): pick a   *)
(*     gate (ByID, ByKind, Random), AddReq, use it, DidReq;                *)
(*   - management calls (service.Proxy -> Set.RefreshOne, CloseOne, New),  *)
(*     each a sequence of atomic steps around the forState drain loop;     *)
(*   - Set.Shutdown: latch, snapshot the maps, close every gate.           *)
(* A gate is an id; its state cell, in-flight counter, map membership and  *)
(* device (Tor process or WireGuard device) are functions of the id.       *)
(***************************************************************************)
EXTENDS Integers, FiniteSets, GateCell

CONSTANTS
    Direct,     \* the id of the Direct gate
    TorIds,     \* ids a Tor gate may have: the initial ones and those New creates
    InitTors,   \* the Tor gates NewTors started before NewSet
    WGIds,      \* the WireGuard gates, all created at start
    Reqs,       \* goroutines serving proxy requests
    Admins,     \* goroutines serving management API calls
    TorMax,     \* SetConfig.TorMax
    Default,    \* SetConfig.Default, the kind Random picks unless randomised
    RandomiseKinds, \* SetConfig.RandomiseKinds
    HeaderKinds,    \* the kinds clients ask for in Proxy-Pumpe-Gate-Type
    LoopDelays, \* [random, state]: RandomLoopDelay and StateLoopDelay in ms
    NoGate      \* a model value: "no gate"

ASSUME
    /\ InitTors \subseteq TorIds
    /\ Direct \notin TorIds \cup WGIds /\ TorIds \cap WGIds = {}
    /\ TorMax \in Nat
    /\ HeaderKinds \cup {Default} \subseteq {"direct", "tor", "wireguard"}
    /\ RandomiseKinds \in BOOLEAN
    /\ LoopDelays \subseteq [random : Int, state : Int]

Gates == {Direct} \cup TorIds \cup WGIds

VARIABLES
    state,      \* state[g]: g's gateState.state
    nreq,       \* nreq[g]: g's gateState.nreq
    tgs,        \* keys of Set.tgs
    wgs,        \* keys of Set.wgs
    born,       \* Tor ids that have a Tor instance (started at boot or by New)
    closes,     \* closes[g]: successful close() calls on g's device, capped at 2
    refreshing, \* refreshing[t]: Tor.refreshing.value
    shutting,   \* the Set.shutting channel is closed
    rq,         \* rq[r]: the pick/use step request r is at
    ad,         \* ad[a]: the management operation a is running, and its step
    sd,         \* Set.Shutdown: its step and the gates left to close
    delays      \* the loop delays of the Set's SetConfig, fixed at start

vars == <<state, nreq, tgs, wgs, born, closes, refreshing, shutting, rq, ad, sd, delays>>

Kind(g) == IF g = Direct THEN "direct" ELSE IF g \in TorIds THEN "tor" ELSE "wireguard"

\* The map that holds gates of kind k (ByKind, Random).
MapOf(k) == IF k = "tor" THEN tgs ELSE wgs

\* model.Set.Len.
Len(m) == Cardinality(m)

\* model.Set.Random: any entry (the map's iteration order and rand.IntN
\* pick it), or NoGate for ok = false when the map is empty.
Random(m) == IF m = {} THEN {NoGate} ELSE m

\* pickRandomKind: Tor for an even n, WireGuard for an odd one.
PickRandomKind(n) == IF n % 2 = 0 THEN "tor" ELSE "wireguard"

\* kindOrDefault: the configured Default, or pickRandomKind(rand.Int()).
KindOrDefault ==
    IF RandomiseKinds THEN {PickRandomKind(n) : n \in 0..1} ELSE {Default}

ReqPcs == {"idle", "id_chk", "bk_loop", "bk_chk", "bk_wait", "picked", "using"}
AdmPcs == {"idle", "nw_factory", "fs_get", "fs_to", "fs_to2", "fs_rm", "fs_chk",
           "fs_wait", "rf_start", "rf_signal", "cl_close", "ts_cas", "ts_set"}

TypeOK ==
    /\ state \in [Gates -> States]
    /\ nreq \in [Gates -> Nat]
    /\ tgs \subseteq born /\ born \subseteq TorIds /\ wgs \subseteq WGIds
    /\ closes \in [Gates -> 0..2]
    /\ refreshing \in [TorIds -> BOOLEAN]
    /\ shutting \in BOOLEAN
    /\ rq \in [Reqs -> [pc : ReqPcs, gate : Gates \cup {NoGate}, kind : {"tor", "wireguard"}]]
    /\ ad \in [Admins -> [pc : AdmPcs, op : {"none", "refresh", "close", "new", "revert"},
                          gate : Gates \cup {NoGate}, target : States, orig : States]]
    /\ sd \in [pc : {"idle", "snap_tor", "snap_wg", "closing", "done"}, pending : SUBSET Gates]
    /\ delays \in LoopDelays

IdleReq == [pc |-> "idle", gate |-> NoGate, kind |-> "tor"]
IdleAdm == [pc |-> "idle", op |-> "none", gate |-> NoGate, target |-> "Ready", orig |-> "Ready"]

\* NewSet: every gate Ready with no requests, the maps filled from the lists.
Init ==
    /\ state = [g \in Gates |-> "Ready"]
    /\ nreq = [g \in Gates |-> 0]
    /\ tgs = InitTors
    /\ wgs = WGIds
    /\ born = InitTors
    /\ closes = [g \in Gates |-> 0]
    /\ refreshing = [t \in TorIds |-> FALSE]
    /\ shutting = FALSE
    /\ rq = [r \in Reqs |-> IdleReq]
    /\ ad = [a \in Admins |-> IdleAdm]
    /\ sd = [pc |-> "idle", pending |-> {}]
    /\ delays \in LoopDelays

\* close() on a gate's device succeeded once more.
CountClose(g) == closes' = [closes EXCEPT ![g] = IF @ < 2 THEN @ + 1 ELSE @]

-----------------------------------------------------------------------------
(* Proxy requests: pickDialer, then AddReq, the transfer, and DidReq.      *)

SetReq(r, pc, g) == rq' = [rq EXCEPT ![r].pc = pc, ![r].gate = g]

ReqUnchanged == UNCHANGED <<state, tgs, wgs, born, closes, refreshing, shutting, ad, sd, delays>>

\* Proxy-Pumpe-Gate-Id: Set.ByID -> byID finds the gate (Direct or a map
\* entry).  When no map has it byID returns ErrGateNotFound: no step.
ReqByID(r, id) ==
    /\ rq[r].pc = "idle"
    /\ id \in {Direct} \cup tgs \cup wgs
    /\ SetReq(r, "id_chk", id)
    /\ UNCHANGED nreq /\ ReqUnchanged

\* ByID's isReady check, a separate atomic load after the lookup.
ReqCheckID(r) ==
    /\ rq[r].pc = "id_chk"
    /\ IF state[rq[r].gate] = "Ready"
         THEN SetReq(r, "picked", rq[r].gate)
         ELSE SetReq(r, "idle", NoGate)           \* ErrGateNotReady
    /\ UNCHANGED nreq /\ ReqUnchanged

\* Set.ByKind: the Direct gate at once; Tor or WireGuard enter the
\* byKindReady polling loop.  Its time.NewTicker panics on a non-positive
\* RandomLoopDelay; net/http recovers the panic and the request ends with
\* no gate: no step.
ReqByKind(r, k) ==
    /\ rq[r].pc = "idle"
    /\ \/ k = "direct" /\ SetReq(r, "picked", Direct)
       \/ /\ k # "direct" /\ delays.random > 0
          /\ rq' = [rq EXCEPT ![r] = [pc |-> "bk_loop", gate |-> NoGate, kind |-> k]]
    /\ UNCHANGED nreq /\ ReqUnchanged

\* Set.Random: ByKind(ctx, kindOrDefault()).
ReqRandom(r) == \E k \in KindOrDefault : ReqByKind(r, k)

\* pickDialer: a Proxy-Pumpe-Gate-Id header selects by id, else a
\* Proxy-Pumpe-Gate-Type header by kind, else Random.
ReqPickDialer(r) ==
    \/ \E id \in Gates : ReqByID(r, id)
    \/ \E k \in HeaderKinds : ReqByKind(r, k)
    \/ ReqRandom(r)

\* Top of the loop, first or after a tick: isShutting, then byKind ->
\* model.Set.Random.
ReqPickRandom(r) ==
    /\ rq[r].pc \in {"bk_loop", "bk_wait"}
    /\ \/ shutting /\ SetReq(r, "idle", NoGate)       \* ErrSetIsShutting
       \/ /\ ~shutting
          /\ \E g \in Random(MapOf(rq[r].kind)) :
               IF g = NoGate THEN SetReq(r, "idle", NoGate)   \* ErrNoRandomGate
                             ELSE SetReq(r, "bk_chk", g)
    /\ UNCHANGED nreq /\ ReqUnchanged

\* result.isReady(): return it, or wait for the ticker.
ReqCheckRandom(r) ==
    /\ rq[r].pc = "bk_chk"
    /\ IF state[rq[r].gate] = "Ready"
         THEN SetReq(r, "picked", rq[r].gate)
         ELSE SetReq(r, "bk_wait", NoGate)
    /\ UNCHANGED nreq /\ ReqUnchanged

\* Mutant: byKindReady ignores rctx.Done() and keeps polling.
ReqTimeoutIgnored(r) ==
    /\ rq[r].pc = "bk_wait"
    /\ SetReq(r, "bk_loop", NoGate)
    /\ UNCHANGED nreq /\ ReqUnchanged

\* rctx.Done(): RandomLoopTout elapsed or the client went away.
ReqTimeout(r) ==
    /\ rq[r].pc = "bk_wait"
    /\ SetReq(r, "idle", NoGate)
    /\ UNCHANGED nreq /\ ReqUnchanged

\* dialer.AddReq() in the handler, after pickDialer has returned.
ReqAddReq(r) ==
    /\ rq[r].pc = "picked"
    /\ nreq' = [nreq EXCEPT ![rq[r].gate] = @ + 1]
    /\ SetReq(r, "using", rq[r].gate)
    /\ ReqUnchanged

\* Mutant: didReq decrements without the zero check.
ReqDidReqUnsaturated(r) ==
    /\ rq[r].pc = "using"
    /\ nreq' = [nreq EXCEPT ![rq[r].gate] = @ - 1]
    /\ SetReq(r, "idle", NoGate)
    /\ ReqUnchanged

\* The deferred dialer.DidReq(): decrement, saturating at zero.  It runs when
\* the dial, the tunnel or the HTTP exchange ends, successfully or not.
ReqDidReq(r) ==
    /\ rq[r].pc = "using"
    /\ nreq' = [nreq EXCEPT ![rq[r].gate] = IF @ > 0 THEN @ - 1 ELSE 0]
    /\ SetReq(r, "idle", NoGate)
    /\ ReqUnchanged

-----------------------------------------------------------------------------
(* Management calls: Set.RefreshOne, Set.CloseOne, Set.New.                *)

AdmUnchanged == UNCHANGED <<rq, sd, delays>>

Goto(a, pc) == ad' = [ad EXCEPT ![a].pc = pc]

\* The gate's map, as forState and toState choose it from the gate's kind.
RemoveFromMap(g) ==
    /\ tgs' = tgs \ {g}
    /\ wgs' = wgs \ {g}

InsertIntoMap(g) ==
    /\ tgs' = IF Kind(g) = "tor" THEN tgs \cup {g} ELSE tgs
    /\ wgs' = IF Kind(g) = "wireguard" THEN wgs \cup {g} ELSE wgs

\* RefreshOne: not Direct, byID finds it, and it is a Tor gate; otherwise
\* ErrKindNotSupported or ErrGateNotFound and no step.  Then forState(ctx,
\* gt, stateMaintenance).
RefreshOne(a, id) ==
    /\ ad[a].pc = "idle"
    /\ id # Direct
    /\ id \in tgs
    /\ ad' = [ad EXCEPT ![a] = [pc |-> "fs_get", op |-> "refresh", gate |-> id,
                                target |-> "Maintenance", orig |-> "Ready"]]
    /\ UNCHANGED <<state, nreq, tgs, wgs, born, closes, refreshing, shutting>> /\ AdmUnchanged

\* CloseOne: not Direct and byID finds it; then forState(ctx, gt, stateClosed).
CloseOne(a, id) ==
    /\ ad[a].pc = "idle"
    /\ id # Direct
    /\ id \in tgs \cup wgs
    /\ ad' = [ad EXCEPT ![a] = [pc |-> "fs_get", op |-> "close", gate |-> id,
                                target |-> "Closed", orig |-> "Ready"]]
    /\ UNCHANGED <<state, nreq, tgs, wgs, born, closes, refreshing, shutting>> /\ AdmUnchanged

\* Mutant: the TorMax check lets the count reach TorMax + 1.
NewOffByOne(a) ==
    /\ ad[a].pc = "idle"
    /\ ~shutting
    /\ Len(tgs) <= TorMax
    /\ ad' = [ad EXCEPT ![a] = [IdleAdm EXCEPT !.pc = "nw_factory", !.op = "new"]]
    /\ UNCHANGED <<state, nreq, tgs, wgs, born, closes, refreshing, shutting>> /\ AdmUnchanged

\* New(ctx, KindTor): isShutting, then tgs.Len() against TorMax; when both
\* pass, the Tor factory starts an instance (slow: up to TorStartupTout).
New(a) ==
    /\ ad[a].pc = "idle"
    /\ ~shutting
    /\ Len(tgs) < TorMax
    /\ ad' = [ad EXCEPT ![a] = [IdleAdm EXCEPT !.pc = "nw_factory", !.op = "new"]]
    /\ UNCHANGED <<state, nreq, tgs, wgs, born, closes, refreshing, shutting>> /\ AdmUnchanged

\* The factory returns: an error, or a new Tor gate that s.tgs.Set inserts.
NewDone(a) ==
    /\ ad[a].pc = "nw_factory"
    /\ \/ UNCHANGED <<tgs, born>>
       \/ \E t \in TorIds \ born :
            /\ born' = born \cup {t}
            /\ tgs' = tgs \cup {t}
    /\ ad' = [ad EXCEPT ![a] = IdleAdm]
    /\ UNCHANGED <<state, nreq, wgs, closes, refreshing, shutting>> /\ AdmUnchanged

\* forState: origst := gt.getState().
FsGetState(a) ==
    /\ ad[a].pc = "fs_get"
    /\ ad' = [ad EXCEPT ![a].orig = state[ad[a].gate], ![a].pc = "fs_to"]
    /\ UNCHANGED <<state, nreq, tgs, wgs, born, closes, refreshing, shutting>> /\ AdmUnchanged

\* forState: gt.toState(st).  toMaint is one CAS; toClosed first tries
\* Ready -> Closed and, when that fails, Maintenance -> Closed in a second step.
FsToState(a) ==
    LET g == ad[a].gate IN
    /\ ad[a].pc = "fs_to"
    /\ IF ad[a].target = "Maintenance"
         THEN /\ state' = [state EXCEPT ![g] = ToMaintOf(@)]
              /\ Goto(a, "fs_rm")
         ELSE /\ state' = [state EXCEPT ![g] = CAS(@, "Ready", "Closed")]
              /\ Goto(a, IF state[g] = "Ready" THEN "fs_rm" ELSE "fs_to2")
    /\ UNCHANGED <<nreq, tgs, wgs, born, closes, refreshing, shutting>> /\ AdmUnchanged

FsToClosedSecond(a) ==
    LET g == ad[a].gate IN
    /\ ad[a].pc = "fs_to2"
    /\ state' = [state EXCEPT ![g] = CAS(@, "Maintenance", "Closed")]
    /\ Goto(a, "fs_rm")
    /\ UNCHANGED <<nreq, tgs, wgs, born, closes, refreshing, shutting>> /\ AdmUnchanged

\* forState: s.tgs.Remove(id) or s.wgs.Remove(id), then the drain loop's
\* time.NewTicker, which panics on a non-positive StateLoopDelay: net/http
\* recovers the panic and the call ends with the gate detached in st.
FsRemove(a) ==
    /\ ad[a].pc = "fs_rm"
    /\ RemoveFromMap(ad[a].gate)
    /\ \/ delays.state > 0 /\ Goto(a, "fs_chk")
       \/ delays.state <= 0 /\ ad' = [ad EXCEPT ![a] = IdleAdm]
    /\ UNCHANGED <<state, nreq, born, closes, refreshing, shutting>> /\ AdmUnchanged

\* Top of the drain loop, first or after a tick: isShutting returns
\* ErrSetIsShutting, leaving the gate detached; noReqs lets the caller go on
\* to refresh or close; otherwise wait for the next tick or the deadline.
FsCheck(a) ==
    /\ ad[a].pc \in {"fs_chk", "fs_wait"}
    /\ IF shutting
         THEN ad' = [ad EXCEPT ![a] = IdleAdm]
         ELSE IF nreq[ad[a].gate] = 0
         THEN Goto(a, IF ad[a].op = "refresh" THEN "rf_start" ELSE "cl_close")
         ELSE Goto(a, "fs_wait")
    /\ UNCHANGED <<state, nreq, tgs, wgs, born, closes, refreshing, shutting>> /\ AdmUnchanged

\* Mutant: the drain loop ignores rctx.Done() and keeps polling.
FsTimeoutIgnored(a) ==
    /\ ad[a].pc = "fs_wait"
    /\ Goto(a, "fs_chk")
    /\ UNCHANGED <<state, nreq, tgs, wgs, born, closes, refreshing, shutting>> /\ AdmUnchanged

\* rctx.Done(): StateLoopTout elapsed or the caller went away; s.toState(gt,
\* origst) puts the gate back.
FsTimeout(a) ==
    /\ ad[a].pc = "fs_wait"
    /\ ad' = [ad EXCEPT ![a].pc = "ts_cas", ![a].target = ad[a].orig, ![a].op = "revert"]
    /\ UNCHANGED <<state, nreq, tgs, wgs, born, closes, refreshing, shutting>> /\ AdmUnchanged

\* refreshOne -> Tor.refresh: CAS refreshing 0 -> 1 or ErrGateIsRefreshing,
\* which RefreshOne returns with the gate still detached.
RefreshStart(a) ==
    LET g == ad[a].gate IN
    /\ ad[a].pc = "rf_start"
    /\ IF refreshing[g]
         THEN /\ ad' = [ad EXCEPT ![a] = IdleAdm]
              /\ UNCHANGED refreshing
         ELSE /\ refreshing' = [refreshing EXCEPT ![g] = TRUE]
              /\ Goto(a, "rf_signal")
    /\ UNCHANGED <<state, nreq, tgs, wgs, born, closes, shutting>> /\ AdmUnchanged

\* dev.signal("NEWNYM") returns; the deferred store clears refreshing.  On
\* an error (always, once the device is closed) RefreshOne returns it and
\* the gate stays detached; on success s.toState(gt, stateReady).
RefreshSignal(a) ==
    LET g == ad[a].gate IN
    /\ ad[a].pc = "rf_signal"
    /\ refreshing' = [refreshing EXCEPT ![g] = FALSE]
    /\ \/ ad' = [ad EXCEPT ![a] = IdleAdm]
       \/ /\ closes[g] = 0
          /\ ad' = [ad EXCEPT ![a].pc = "ts_cas", ![a].target = "Ready"]
    /\ UNCHANGED <<state, nreq, tgs, wgs, born, closes, shutting>> /\ AdmUnchanged

\* CloseOne's shutdownOne -> close(): a Tor instance is closed; a WireGuard
\* device is closed unless dev.down() fails first.
CloseGate(a) ==
    LET g == ad[a].gate IN
    /\ ad[a].pc = "cl_close"
    /\ \/ CountClose(g)
       \/ Kind(g) = "wireguard" /\ UNCHANGED closes
    /\ ad' = [ad EXCEPT ![a] = IdleAdm]
    /\ UNCHANGED <<state, nreq, tgs, wgs, born, refreshing, shutting>> /\ AdmUnchanged

\* Set.toState: gt.resetReqs(); gt.toState(st) ...
ToStateCas(a) ==
    LET g == ad[a].gate IN
    /\ ad[a].pc = "ts_cas"
    /\ nreq' = [nreq EXCEPT ![g] = 0]
    /\ state' = [state EXCEPT ![g] = ToStateOf(@, ad[a].target)]
    /\ Goto(a, "ts_set")
    /\ UNCHANGED <<tgs, wgs, born, closes, refreshing, shutting>> /\ AdmUnchanged

\* Mutant: toState sets the state but does not put the gate back.
ToStateSetNoInsert(a) ==
    /\ ad[a].pc = "ts_set"
    /\ ad' = [ad EXCEPT ![a] = IdleAdm]
    /\ UNCHANGED <<state, nreq, tgs, wgs, born, closes, refreshing, shutting>> /\ AdmUnchanged

\* ... then s.tgs.Set or s.wgs.Set by the gate's type.
ToStateSet(a) ==
    /\ ad[a].pc = "ts_set"
    /\ InsertIntoMap(ad[a].gate)
    /\ ad' = [ad EXCEPT ![a] = IdleAdm]
    /\ UNCHANGED <<state, nreq, born, closes, refreshing, shutting>> /\ AdmUnchanged

-----------------------------------------------------------------------------
(* Set.Shutdown, run at most once (onceShut).                              *)

ShutUnchanged == UNCHANGED <<state, nreq, tgs, wgs, born, refreshing, rq, ad, delays>>

\* Mutant: Shutdown never closes the shutting latch.
ShutLatchMissing ==
    /\ sd.pc = "idle"
    /\ sd' = [sd EXCEPT !.pc = "snap_tor"]
    /\ UNCHANGED <<closes, shutting>> /\ ShutUnchanged

\* closeOrSkip(s.shutting).
ShutLatch ==
    /\ sd.pc = "idle"
    /\ shutting' = TRUE
    /\ sd' = [sd EXCEPT !.pc = "snap_tor"]
    /\ UNCHANGED closes /\ ShutUnchanged

\* s.tgs.Values(), taken when the goroutine for the Tor list starts.
ShutSnapTors ==
    /\ sd.pc = "snap_tor"
    /\ sd' = [pc |-> "snap_wg", pending |-> sd.pending \cup tgs]
    /\ UNCHANGED <<closes, shutting>> /\ ShutUnchanged

\* s.wgs.Values().
ShutSnapWGs ==
    /\ sd.pc = "snap_wg"
    /\ sd' = [pc |-> "closing", pending |-> sd.pending \cup wgs]
    /\ UNCHANGED <<closes, shutting>> /\ ShutUnchanged

\* ShutdownList: one shutdownOne goroutine per gate of the snapshots.  Its
\* close() runs to the end even when ctx expires first.
ShutCloseGate(g) ==
    /\ sd.pc = "closing"
    /\ g \in sd.pending
    /\ \/ CountClose(g)
       \/ Kind(g) = "wireguard" /\ UNCHANGED closes
    /\ sd' = [sd EXCEPT !.pending = @ \ {g}]
    /\ UNCHANGED shutting /\ ShutUnchanged

\* Both lists are done: collectErrs returns and Shutdown returns.
ShutDone ==
    /\ sd.pc = "closing"
    /\ sd.pending = {}
    /\ sd' = [sd EXCEPT !.pc = "done"]
    /\ UNCHANGED <<closes, shutting>> /\ ShutUnchanged

-----------------------------------------------------------------------------

ReqNext(r) ==
    \/ ReqPickDialer(r)
    \/ ReqCheckID(r)
    \/ ReqPickRandom(r) \/ ReqCheckRandom(r) \/ ReqTimeout(r)
    \/ ReqAddReq(r) \/ ReqDidReq(r)

AdmNext(a) ==
    \/ \E id \in Gates : RefreshOne(a, id) \/ CloseOne(a, id)
    \/ New(a) \/ NewDone(a)
    \/ FsGetState(a) \/ FsToState(a) \/ FsToClosedSecond(a) \/ FsRemove(a)
    \/ FsCheck(a) \/ FsTimeout(a)
    \/ RefreshStart(a) \/ RefreshSignal(a) \/ CloseGate(a)
    \/ ToStateCas(a) \/ ToStateSet(a)

ShutNext ==
    ShutLatch \/ ShutSnapTors \/ ShutSnapWGs \/ (\E g \in Gates : ShutCloseGate(g)) \/ ShutDone

Next ==
    \/ \E r \in Reqs : ReqNext(r)
    \/ \E a \in Admins : AdmNext(a)
    \/ ShutNext

Spec == Init /\ [][Next]_vars

\* The steps the code takes by itself once a call is under way.  Starting a
\* request or a management call is the client's choice, and so is how long
\* a tunnel stays open (DidReq): those steps are not fair.  A context
\* deadline always expires, but the loop it ends only waits for it now and
\* then, so the timeouts are strongly fair.
ReqProgress(r) ==
    ReqCheckID(r) \/ ReqPickRandom(r) \/ ReqCheckRandom(r) \/ ReqAddReq(r)

AdmProgress(a) ==
    \/ NewDone(a) \/ FsGetState(a) \/ FsToState(a) \/ FsToClosedSecond(a)
    \/ FsRemove(a) \/ FsCheck(a) \/ RefreshStart(a) \/ RefreshSignal(a)
    \/ CloseGate(a) \/ ToStateCas(a) \/ ToStateSet(a)

FairSpec ==
    /\ Spec
    /\ \A r \in Reqs : WF_vars(ReqProgress(r)) /\ SF_vars(ReqTimeout(r))
    /\ \A a \in Admins : WF_vars(AdmProgress(a)) /\ SF_vars(FsTimeout(a))
    /\ WF_vars(ShutSnapTors \/ ShutSnapWGs \/ (\E g \in Gates : ShutCloseGate(g)) \/ ShutDone)

-----------------------------------------------------------------------------
(* Properties *)

\* Admission cap (spec I5, P4): New compares tgs.Len() with TorMax before it
\* starts the slow Tor factory and inserts after it returns, and forState
\* takes a gate out of tgs while it drains; the map never holds more than
\* TorMax Tor gates.
TorMaxRespected == Cardinality(tgs) <= TorMax

\* No device is closed twice: Shutdown closes what it snapshots of the maps
\* after closing the latch, and CloseOne closes a gate it has detached and
\* drained, with a latch check in between.
NoDoubleClose == \A g \in Gates : closes[g] <= 1

\* Every RefreshOne, CloseOne and New returns: the drain loop ends by an
\* idle gate, the shutting latch or its deadline, even when a tunnel on the
\* gate never closes.
AdminCallsReturn == \A a \in Admins : ad[a].pc # "idle" ~> ad[a].pc = "idle"

\* Every pickDialer returns (spec P8): ByID at once, byKindReady by a ready
\* gate, an error or the RandomLoopTout deadline.
SelectionReturns ==
    \A r \in Reqs : rq[r].pc \in {"id_chk", "bk_loop", "bk_chk", "bk_wait"}
                      ~> rq[r].pc \in {"idle", "picked"}

\* Selection (ByKind and Random, spec P8) only looks in the maps, so a live
\* gate that is Ready must be in one to be selected.  Every
\* path that detaches a gate and leaves it Ready goes back into its map:
\* RefreshOne's success and forState's revert on a drain timeout both run
\* Set.toState, which sets the state and then re-inserts; a gate outside
\* both maps while no management call holds it is never Ready.
ReadyGatesReachable ==
    \A g \in born \cup WGIds :
        (state[g] = "Ready" /\ closes[g] = 0)
            => g \in tgs \cup wgs \/ \E a \in Admins : ad[a].gate = g

\* Spec 4.4.7: a gate whose refresh failed stays detached and "the caller
\* may retry".  Every gate that is alive (a started Tor or WireGuard gate
\* whose device is not closed) is in a map, where RefreshOne, CloseOne and
\* Shutdown can find it, unless a management call is working on it.
NoOrphanedGate ==
    \A g \in born \cup WGIds :
        (g \notin tgs \cup wgs /\ closes[g] = 0) => \E a \in Admins : ad[a].gate = g

\* Spec I1 and P7: a gate in a map is Ready or Maintenance, and a drain that
\* times out restores the gate's original state.  forState sets Closed just
\* before it removes the gate, so a Closed gate may be in a map only while
\* a CloseOne is between those two steps.
MappedGatesNotClosed ==
    \A g \in tgs \cup wgs :
        state[g] = "Closed" => \E a \in Admins : ad[a].gate = g /\ ad[a].pc \in {"fs_to2", "fs_rm"}

\* Spec 4.4.5: after a successful forState the caller refreshes or closes
\* the gate "without racing live requests": no request that has picked the
\* gate is still using it when the device is refreshed or closed.
DrainedBeforeMutate ==
    \A a \in Admins, r \in Reqs :
        (ad[a].pc \in {"rf_signal", "cl_close"} /\ rq[r].pc \in {"picked", "using"})
            => rq[r].gate # ad[a].gate

\* Spec I3, P5: once the shutting latch is closed no new Tor gate is admitted.
NoAdmissionAfterShutting == [][shutting => born' = born]_vars

=============================================================================
