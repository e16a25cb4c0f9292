----------------------------- MODULE RunLedger -----------------------------
(***************************************************************************)
(* What the durable runtime promises about one job, whoever its workers    *)
(* are and however often they crash: the job walks the legal edges of the  *)
(* run state machine, a logical tick is committed at most once and only    *)
(* from COMMITTING, and the tick counter advances only over a committed    *)
(* tick.  DurableRuns implements this module.                              *)
(***************************************************************************)
EXTENDS RunFSM, Naturals

CONSTANT Jobs

VARIABLES state,      \* durable_jobs.state
          tick,       \* durable_jobs.logical_tick
          committed   \* the logical ticks whose write intent is COMMITTED

ledgerVars == <<state, tick, committed>>

LedgerInit ==
    /\ state = [j \in Jobs |-> "SCHEDULED"]
    /\ tick = [j \in Jobs |-> 0]
    /\ committed = [j \in Jobs |-> {}]

\* One legal edge that neither commits nor advances the job.
Walk(j) ==
    /\ \E to \in Edges(state[j]) : state' = [state EXCEPT ![j] = to]
    /\ UNCHANGED <<tick, committed>>

\* The receipt of the next logical tick is written, once.
CommitTick(j) ==
    /\ state[j] = "COMMITTING"
    /\ tick[j] + 1 \notin committed[j]
    /\ committed' = [committed EXCEPT ![j] = @ \cup {tick[j] + 1}]
    /\ UNCHANGED <<state, tick>>

\* The tick is over: the counter moves and the job leaves COMMITTING.
Advance(j) ==
    /\ state[j] = "COMMITTING"
    /\ tick[j] + 1 \in committed[j]
    /\ tick' = [tick EXCEPT ![j] = @ + 1]
    /\ \E to \in {"WAITING_APPROVAL", "SCHEDULED", "DORMANT"} :
          state' = [state EXCEPT ![j] = to]
    /\ UNCHANGED committed

LedgerNext == \E j \in Jobs : Walk(j) \/ CommitTick(j) \/ Advance(j)

LedgerSpec == LedgerInit /\ [][LedgerNext]_ledgerVars

=============================================================================
