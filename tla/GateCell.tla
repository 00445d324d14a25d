----------------------------- MODULE GateCell ------------------------------
(***************************************************************************)
(* The state transitions of gateState (src/gate/gate.go) as operators on a *)
(* state value.  Each is an atomic.CompareAndSwapUint32 from the allowed   *)
(* predecessor; a failed CAS leaves the value as it was.                   *)
(***************************************************************************)

States == {"Ready", "Maintenance", "Closed"}

\* atomic.CompareAndSwapUint32(&v, old, new), seen as a function of v.
CAS(v, old, new) == IF v = old THEN new ELSE v

\* Mutant: toReady stores Ready without the CAS.
ToReadyUnguarded(v) == "Ready"

\* toReady: only from Maintenance.
ToReadyOf(v) == CAS(v, "Maintenance", "Ready")

\* toMaint: only from Ready.
ToMaintOf(v) == CAS(v, "Ready", "Maintenance")

\* toClosed when both of its CASes run back to back.
ToClosedOf(v) == CAS(CAS(v, "Ready", "Closed"), "Maintenance", "Closed")

\* baseGate.toState: dispatch on the requested state.
ToStateOf(v, target) ==
    [Ready |-> ToReadyOf(v), Maintenance |-> ToMaintOf(v), Closed |-> ToClosedOf(v)][target]
=============================================================================
