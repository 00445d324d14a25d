--------------------------- MODULE GateLifecycle ---------------------------
(***************************************************************************)
(* What a gate's state cell promises (spec section 3, "Gate state"): a gate *)
(* starts Ready, moves between Ready and Maintenance, may be Closed from    *)
(* either, and never leaves Closed.  Illegal requests are no-ops, so the    *)
(* only visible steps are the legal transitions below.                      *)
(***************************************************************************)
VARIABLE state

States == {"Ready", "Maintenance", "Closed"}

Init == state = "Ready"

Legal(from, to) ==
    <<from, to>> \in { <<"Ready", "Maintenance">>, <<"Maintenance", "Ready">>,
                       <<"Ready", "Closed">>, <<"Maintenance", "Closed">> }

Next == \E to \in States : Legal(state, to) /\ state' = to

Spec == Init /\ [][Next]_state
=============================================================================
