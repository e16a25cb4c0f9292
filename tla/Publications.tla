----------------------------- MODULE Publications -----------------------------
(***************************************************************************)
(* One content item under edit, approval and scheduling, with the ticks    *)
(* that deliver its jobs.                                                  *)
(***************************************************************************)
EXTENDS PublicationPipeline

vars == <<content, pipeline>>

TypeOK == ContentTypeOK /\ PipelineTypeOK

Init == ContentInit /\ PipelineInit

Next == (ContentNext /\ UNCHANGED pipeline) \/ TickNext

Spec == Init /\ [][Next]_vars

-----------------------------------------------------------------------------

\* project_ops.py: "two overlapping ticks cannot deliver the same job twice",
\* and a job that was cancelled, blocked or never claimed is not delivered.
DeliveredOnce ==
  \A j \in Jobs : /\ calls[j] <= 1
                  /\ calls[j] = 1 => jobs[j] \in {"ENQUEUED", "DELIVERED", "FAILED"}

\* The schedule keeps PublicationLedger: a tick that dies, stalls or overlaps with
\* another, and an editor at any point of a delivery, lead to no second call, to
\* no older or unapproved version, and to no delivery of what was not given.
Ledger == INSTANCE PublicationLedger WITH
            Deliveries <- PublishJobs \cup JourneyJobs, Versions <- 1..MaxVersion
LedgerKept == Ledger!Init /\ [][UNCHANGED (Ledger!ledger) \/ Ledger!Next]_(Ledger!ledger)

\* A delivered job has been read back from the provider, whatever publish
\* answered.
DeliveredVerified ==
  \A j \in PublishJobs \cup JourneyJobs :
    jobs[j] = "DELIVERED" => /\ attempts[j] = "VERIFIED"
                             /\ published[j] # Unsent

\* calendar.py, "exact approval check": no version goes out that nobody has
\* approved, however the item is edited between the gate and the provider.
PublishedWasApproved ==
  \A j \in Jobs : published[j] # Unsent => published[j].version \in approvals

\* project_ops.py: "Any edit invalidates the approval (it was bound to the old
\* version) and cancels pending publication of the old version."
PublishedBodyApproved ==
  \A j \in Jobs : published[j] # Unsent => published[j].body \in approvals

===============================================================================
