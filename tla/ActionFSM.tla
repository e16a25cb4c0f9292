----------------------------- MODULE ActionFSM -----------------------------
(***************************************************************************)
(* The states of an ActionRequest and its legal transitions                *)
(* (agency/actions/fsm.py).  The gateway never calls assert_transition:    *)
(* that it keeps to this table is a property of the modules that use it.   *)
(***************************************************************************)
EXTENDS FiniteSets

PreDispatch == {"PROPOSED", "VALIDATED", "PREPARED", "AWAITING_APPROVAL",
                "AUTHORIZED", "RESERVED"}

\* The states in which a worker holds a lease on the action.
Leased == {"DISPATCHING", "OBSERVING", "RECONCILING"}

Terminal == {"COMPLETED", "REJECTED", "BLOCKED", "EXPIRED", "CANCELLED"}

ActionState == PreDispatch \cup Leased \cup Terminal
                 \cup {"VERIFIED", "FAILED", "UNKNOWN", "NEEDS_HUMAN"}

Stop == {"BLOCKED", "CANCELLED", "EXPIRED"}

\* The states that TRANSITIONS lists for a state.
Edges(s) == {t \in ActionState :
    \/ s = "PROPOSED"          /\ t \in {"VALIDATED", "REJECTED", "BLOCKED", "CANCELLED"}
    \/ s = "VALIDATED"         /\ t \in {"PREPARED", "BLOCKED", "CANCELLED"}
    \/ s = "PREPARED"          /\ t \in {"AWAITING_APPROVAL", "AUTHORIZED"} \cup Stop
    \/ s = "AWAITING_APPROVAL" /\ t \in {"AUTHORIZED", "REJECTED"} \cup Stop
    \/ s = "AUTHORIZED"        /\ t \in {"RESERVED", "DISPATCHING"} \cup Stop
    \/ s = "RESERVED"          /\ t \in {"DISPATCHING"} \cup Stop
    \/ s = "DISPATCHING"       /\ t \in {"OBSERVING", "UNKNOWN", "FAILED"}
    \/ s = "OBSERVING"         /\ t \in {"VERIFIED", "FAILED", "UNKNOWN"}
    \/ s = "VERIFIED"          /\ t = "COMPLETED"
    \/ s = "UNKNOWN"           /\ t = "RECONCILING"
    \/ s = "RECONCILING"       /\ t \in {"VERIFIED", "FAILED", "NEEDS_HUMAN", "UNKNOWN"}
    \/ s = "NEEDS_HUMAN"       /\ t \in {"RECONCILING", "FAILED"}
    \/ s = "FAILED"            /\ t = "AUTHORIZED"}

=============================================================================
