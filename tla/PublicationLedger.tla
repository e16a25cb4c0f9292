-------------------------- MODULE PublicationLedger --------------------------
(***************************************************************************)
(* What the publication schedule of project_ops.py promises about a job,   *)
(* without ticks, attempts or the lifecycle of the item: a delivery is     *)
(* claimed and then asked of the provider at most once, for a version that *)
(* is approved and no older than the one scheduled; it counts as delivered *)
(* only if the provider was given it, and what has ended stays as it is.   *)
(***************************************************************************)
EXTENDS Naturals

CONSTANTS Jobs,        \* records with the version a job was scheduled for
          Deliveries,  \* those that go to the provider
          Versions     \* of the item

VARIABLES jobs,       \* the status of each job
          calls,      \* how often the provider was asked for it
          published,  \* the version and the body the provider was given
          approvals   \* the versions that have been approved

ledger == <<jobs, calls, published, approvals>>

Nothing == [version |-> 0, body |-> 0]

Init == /\ jobs = [j \in Jobs |-> "none"]
        /\ calls = [j \in Jobs |-> 0]
        /\ published = [j \in Jobs |-> Nothing]
        /\ approvals = {}

Move(j, from, to) == /\ jobs[j] = from
                     /\ jobs' = [jobs EXCEPT ![j] = to]
                     /\ UNCHANGED <<calls, published, approvals>>

Schedule(j) == Move(j, "none", "WAITING")
Claim(j) == j \in Deliveries /\ Move(j, "WAITING", "ENQUEUED")
Refresh(j) == j \notin Deliveries /\ Move(j, "WAITING", "DELIVERED")
Deliver(j) == published[j] # Nothing /\ Move(j, "ENQUEUED", "DELIVERED")
Fail(j) == Move(j, "ENQUEUED", "FAILED")

\* Any of the jobs that wait, and no other.
Cancel == \E up \in SUBSET {j \in Jobs : jobs[j] = "WAITING"} :
  /\ jobs' = [j \in Jobs |-> IF j \in up THEN "CANCELLED" ELSE jobs[j]]
  /\ UNCHANGED <<calls, published, approvals>>

Approve(v) == approvals' = approvals \cup {v} /\ UNCHANGED <<jobs, calls, published>>

\* The provider is asked: it is given an approved version, with a body that may
\* be a later one, or nothing.
Call(j) ==
  /\ jobs[j] = "ENQUEUED" /\ calls[j] = 0
  /\ calls' = [calls EXCEPT ![j] = 1]
  /\ \/ UNCHANGED published
     \/ \E v \in approvals, b \in Versions :
          /\ j.version <= v /\ v <= b
          /\ published' = [published EXCEPT ![j] = [version |-> v, body |-> b]]
  /\ UNCHANGED <<jobs, approvals>>

Next == \/ \E j \in Jobs : Schedule(j) \/ Claim(j) \/ Call(j) \/ Deliver(j) \/ Fail(j) \/ Refresh(j)
        \/ \E v \in Versions : Approve(v)
        \/ Cancel

Spec == Init /\ [][Next]_ledger

===============================================================================
