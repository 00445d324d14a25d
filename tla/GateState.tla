----------------------------- MODULE GateState -----------------------------
(***************************************************************************)
(* The per-gate state cell gateState of src/gate/gate.go: a uint32 state   *)
(* changed only by compare-and-swap, and an in-flight counter nreq behind  *)
(* a mutex.  Several goroutines (Callers) call its methods concurrently.   *)
(* toClosed is two separate CASes (Ready->Closed, then Maintenance->Closed) *)
(* so a caller can be suspended between them: pc records that.            *)
(***************************************************************************)
EXTENDS Integers, GateCell

CONSTANTS
    Callers,    \* goroutines calling the cell's methods
    MaxReqs     \* bound on nreq, so that AddReq cannot grow it forever

ASSUME MaxReqs \in Nat \ {0}

VARIABLES
    st,         \* gateState.state.value
    nreq,       \* gateState.nreq
    pc          \* pc[c] = "closing": c is between the two CASes of toClosed

vars == <<st, nreq, pc>>

TypeOK ==
    /\ st \in States
    /\ nreq \in 0..MaxReqs
    /\ pc \in [Callers -> {"idle", "closing"}]

\* newGateState: state 0 (stateReady), nreq 0.
Init ==
    /\ st = "Ready"
    /\ nreq = 0
    /\ pc = [c \in Callers |-> "idle"]

ToReady(c) ==
    /\ pc[c] = "idle"
    /\ st' = ToReadyOf(st)
    /\ UNCHANGED <<nreq, pc>>

ToMaint(c) ==
    /\ pc[c] = "idle"
    /\ st' = ToMaintOf(st)
    /\ UNCHANGED <<nreq, pc>>

\* First CAS of toClosed: Ready -> Closed; on success toClosed returns.
ToClosedFirst(c) ==
    /\ pc[c] = "idle"
    /\ st' = CAS(st, "Ready", "Closed")
    /\ pc' = [pc EXCEPT ![c] = IF st = "Ready" THEN "idle" ELSE "closing"]
    /\ UNCHANGED nreq

\* Second CAS of toClosed: Maintenance -> Closed, result ignored.
ToClosedSecond(c) ==
    /\ pc[c] = "closing"
    /\ st' = CAS(st, "Maintenance", "Closed")
    /\ pc' = [pc EXCEPT ![c] = "idle"]
    /\ UNCHANGED nreq

AddReq(c) ==
    /\ pc[c] = "idle"
    /\ nreq < MaxReqs
    /\ nreq' = nreq + 1
    /\ UNCHANGED <<st, pc>>

\* Mutant: didReq decrements without the zero check.
DidReqUnsaturated(c) ==
    /\ pc[c] = "idle"
    /\ nreq' = nreq - 1
    /\ UNCHANGED <<st, pc>>

\* didReq decrements under the mutex, saturating at zero.
DidReq(c) ==
    /\ pc[c] = "idle"
    /\ nreq' = IF nreq > 0 THEN nreq - 1 ELSE nreq
    /\ UNCHANGED <<st, pc>>

ResetReqs(c) ==
    /\ pc[c] = "idle"
    /\ nreq' = 0
    /\ UNCHANGED <<st, pc>>

Next ==
    \E c \in Callers :
        \/ ToReady(c) \/ ToMaint(c) \/ ToClosedFirst(c) \/ ToClosedSecond(c)
        \/ AddReq(c) \/ DidReq(c) \/ ResetReqs(c)

Spec == Init /\ [][Next]_vars

-----------------------------------------------------------------------------
(* Properties *)

Lifecycle == INSTANCE GateLifecycle WITH state <- st

\* The cell implements the lifecycle of spec section 3: whatever the
\* interleaving of toReady, toMaint and the two CASes of toClosed, the state
\* only ever takes a legal transition and never leaves Closed.
LifecycleRefined == Lifecycle!Spec

\* A toClosed call that completes leaves the gate Closed.  Spec section 3
\* says transitions are enforced atomically; toClosed is two CASes and a
\* toReady between them makes the call a silent no-op on a Ready gate.
ToClosedTakesEffect ==
    [][\A c \in Callers : pc[c] = "closing" /\ pc'[c] = "idle" => st' = "Closed"]_vars
=============================================================================
