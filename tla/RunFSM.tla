------------------------------ MODULE RunFSM ------------------------------
(***************************************************************************)
(* The persistent run state machine of agency/durable/fsm.py: its states,  *)
(* the classes of states the runtime tests for, and the legal edges.  The  *)
(* module is constant-level; RunLedger and DurableRuns are built on it.    *)
(***************************************************************************)

\* Every state in which a worker holds, or held, the lease of the job.
InFlight == {"LEASED", "PRECHECK", "READY", "RUNNING", "OBSERVING",
             "VERIFYING", "COMMITTING", "RECONCILING"}

\* The states a fresh lease may be taken from.
Claimable == {"SCHEDULED", "RETRY_PENDING"}

Blocked == {"BLOCKED_PROVIDER", "BLOCKED_AUTHORITY", "BLOCKED_ENVIRONMENT"}

RunState == InFlight \cup Claimable \cup Blocked \cup
            {"DORMANT", "WAITING_APPROVAL", "DEGRADED", "INCONCLUSIVE",
             "DEAD_LETTER", "PAUSED", "STOPPED"}

\* The edges of TRANSITIONS as the file spells them, before the loop that
\* lets an authorised stop interrupt every in-flight state.
DeclaredEdges(s) == {t \in RunState :
    \/ s = "DORMANT"          /\ t \in {"SCHEDULED", "STOPPED"}
    \/ s = "SCHEDULED"        /\ t \in {"LEASED", "PAUSED", "STOPPED"}
    \/ s = "LEASED"           /\ t \in {"PRECHECK", "SCHEDULED", "RECONCILING"}
    \/ s = "PRECHECK"         /\ t \in {"READY", "RECONCILING", "WAITING_APPROVAL",
                                        "DORMANT"} \cup Blocked
    \/ s = "READY"            /\ t \in {"RUNNING", "RECONCILING"}
    \/ s = "RUNNING"          /\ t \in {"OBSERVING", "RETRY_PENDING", "DEGRADED", "INCONCLUSIVE",
                                        "DEAD_LETTER", "RECONCILING"} \cup Blocked
    \/ s = "OBSERVING"        /\ t \in {"VERIFYING", "INCONCLUSIVE", "RECONCILING"}
    \/ s = "VERIFYING"        /\ t \in {"COMMITTING", "RETRY_PENDING", "INCONCLUSIVE",
                                        "DEAD_LETTER", "RECONCILING"}
    \/ s = "COMMITTING"       /\ t \in {"WAITING_APPROVAL", "SCHEDULED", "DORMANT", "RECONCILING"}
    \/ s = "RECONCILING"      /\ t \in {"RECONCILING", "READY", "OBSERVING", "DEAD_LETTER",
                                        "WAITING_APPROVAL"}
    \/ s = "WAITING_APPROVAL" /\ t \in {"SCHEDULED", "DORMANT", "STOPPED"}
    \/ s = "RETRY_PENDING"    /\ t \in {"LEASED", "DEAD_LETTER", "PAUSED", "STOPPED"}
    \/ s \in Blocked \cup {"DEGRADED"} /\ t \in {"SCHEDULED", "PAUSED", "STOPPED"}
    \/ s = "INCONCLUSIVE"     /\ t \in {"SCHEDULED", "DEAD_LETTER", "PAUSED", "STOPPED"}
    \/ s = "DEAD_LETTER"      /\ t \in {"PAUSED", "STOPPED"}
    \/ s = "PAUSED"           /\ t \in {"SCHEDULED", "STOPPED"}}

Edges(s) == DeclaredEdges(s) \cup {t \in {"STOPPED"} : s \in InFlight}

=============================================================================
