-------------------------- MODULE AgencyJobs_proofs --------------------------
(***************************************************************************)
(* Theorems about AgencyJobs, for any number of workers, requests, jobs,   *)
(* attempts, generations and faults.                                       *)
(***************************************************************************)
EXTENDS AgencyJobs, SequenceTheorems, TLAPS

USE JobsAssumption

-----------------------------------------------------------------------------
(* The queue                                                               *)

JobRow == [kind : {"create", "resume"}, key : Keys, status : JobStatus,
           attempts : Nat, lease : {"none", "live", "lapsed"}]

JobsTyped == jobs \in Seq(JobRow) /\ Len(jobs) <= MaxJobs

\* A running job has been attempted.
RunningAttempted == \A j \in DOMAIN jobs : jobs[j].status = "running" => jobs[j].attempts > 0

LEMMA JobRows ==
    ASSUME JobsTyped
    PROVE  /\ Len(jobs) \in Nat /\ DOMAIN jobs = 1..Len(jobs) /\ DOMAIN jobs \subseteq JobIds
           /\ \A j \in DOMAIN jobs : jobs[j] \in JobRow
  <1>1. Len(jobs) \in Nat /\ DOMAIN jobs = 1..Len(jobs)
    BY LenProperties DEF JobsTyped
  <1>2. \A j \in 1..Len(jobs) : jobs[j] \in JobRow
    BY ElementOfSeq DEF JobsTyped
  <1> QED  BY <1>1, <1>2 DEF JobsTyped, JobIds

\* One row is replaced.
Replaces(j, r) == jobs' = [jobs EXCEPT ![j] = r]

LEMMA Replaced ==
    ASSUME JobsTyped, NEW j \in DOMAIN jobs, NEW r \in JobRow, Replaces(j, r)
    PROVE  /\ JobsTyped' /\ DOMAIN jobs' = DOMAIN jobs /\ Len(jobs') = Len(jobs)
           /\ jobs'[j] = r /\ \A i \in DOMAIN jobs \ {j} : jobs'[i] = jobs[i]
  <1>1. /\ jobs' \in Seq(JobRow) /\ Len(jobs') = Len(jobs)
        /\ \A i \in 1..Len(jobs) : jobs'[i] = IF i = j THEN r ELSE jobs[i]
    BY JobRows, ExceptSeq DEF Replaces, JobsTyped
  <1>2. DOMAIN jobs' = 1..Len(jobs')
    BY <1>1, LenProperties
  <1> QED  BY <1>1, <1>2, JobRows DEF JobsTyped

LEMMA MovedRow ==
    ASSUME JobsTyped, NEW j \in DOMAIN jobs, NEW s \in JobStatus,
           NEW l \in {"none", "live", "lapsed"}
    PROVE  /\ Moved(j, s, l) \in JobRow
           /\ Moved(j, s, l).status = s /\ Moved(j, s, l).attempts = jobs[j].attempts
  BY JobRows DEF Moved, JobRow

Open == {"queued", "running"}

\* What a step does to the queue: nothing that the ledger sees, ...
Shuffles == /\ DOMAIN jobs' = DOMAIN jobs /\ Len(jobs') = Len(jobs)
            /\ \A j \in DOMAIN jobs : /\ jobs'[j].attempts = jobs[j].attempts
                                      /\ \/ jobs'[j].status = jobs[j].status
                                         \/ jobs[j].status \in Open /\ jobs'[j].status \in Open
                                      /\ jobs'[j].status = "running" => jobs[j].status = "running"

\* ... a new job, ...
Enqueues == /\ Len(jobs) < MaxJobs /\ Len(jobs') = Len(jobs) + 1
            /\ \A j \in DOMAIN jobs : jobs'[j] = jobs[j]
            /\ jobs'[Len(jobs) + 1].status = "queued"
            /\ jobs'[Len(jobs) + 1].attempts = 0

\* ... an attempt of one, ...
Attempts(j) == /\ DOMAIN jobs' = DOMAIN jobs /\ Len(jobs') = Len(jobs)
               /\ \A i \in DOMAIN jobs \ {j} : jobs'[i] = jobs[i]
               /\ jobs[j].status \in Open /\ jobs'[j].status = "running"
               /\ jobs'[j].attempts = jobs[j].attempts + 1

\* ... or its end.
Settles(j, o) == /\ DOMAIN jobs' = DOMAIN jobs /\ Len(jobs') = Len(jobs)
                 /\ \A i \in DOMAIN jobs \ {j} : jobs'[i] = jobs[i]
                 /\ jobs[j].status \in Open /\ jobs'[j].status = o
                 /\ jobs'[j].attempts = jobs[j].attempts
                 /\ o # "cancelled" => jobs[j].attempts > 0

Outcomes == {"completed", "dead_letter", "cancelled"}

QueueStep == \/ Shuffles
             \/ Enqueues
             \/ \E j \in DOMAIN jobs : Attempts(j)
             \/ \E j \in DOMAIN jobs, o \in Outcomes : Settles(j, o)

\* A worker at work has a job.
HasJob == \A w \in Workers : workers[w].pc \notin {"idle", "claim"} => workers[w].job \in DOMAIN jobs

LEMMA UnchangedQueue ==
    ASSUME JobsTyped, UNCHANGED jobs
    PROVE  JobsTyped' /\ QueueStep
  BY DEF JobsTyped, QueueStep, Shuffles, Open

LEMMA SettledQueue ==
    ASSUME JobsTyped, NEW j \in DOMAIN jobs, NEW o \in Outcomes, jobs' = Move(j, o, "none"),
           jobs[j].status \in Open, o # "cancelled" => jobs[j].attempts > 0
    PROVE  JobsTyped' /\ QueueStep
  <1>1. Moved(j, o, "none") \in JobRow /\ Moved(j, o, "none").status = o
        /\ Moved(j, o, "none").attempts = jobs[j].attempts
    BY MovedRow DEF Outcomes, JobStatus
  <1>2. Replaces(j, Moved(j, o, "none"))
    BY DEF Move, Replaces
  <1>3. JobsTyped' /\ Settles(j, o)
    BY <1>1, <1>2, Replaced DEF Settles
  <1> QED  BY <1>3 DEF QueueStep

LEMMA ShuffledQueue ==
    ASSUME JobsTyped, NEW j \in DOMAIN jobs, NEW s \in Open, NEW l \in {"none", "live", "lapsed"},
           jobs' = Move(j, s, l), jobs[j].status \in Open,
           s = "running" => jobs[j].status = "running"
    PROVE  JobsTyped' /\ QueueStep
  <1> DEFINE r == Moved(j, s, l)
  <1>1. r \in JobRow /\ r.status = s /\ r.attempts = jobs[j].attempts
    BY MovedRow DEF Open, JobStatus
  <1>2. Replaces(j, r)
    BY DEF Move, Replaces
  <1> HIDE DEF r
  <1>3. JobsTyped' /\ Shuffles
    BY <1>1, <1>2, Replaced DEF Shuffles
  <1> QED  BY <1>3 DEF QueueStep

LEMMA ClaimQueue ==
    ASSUME JobsTyped, NEW w \in Workers, ClaimJob(w)
    PROVE  JobsTyped' /\ QueueStep
  <1>1. PICK j \in Queued :
          Replaces(j, [kind |-> jobs[j].kind, key |-> jobs[j].key, status |-> "running",
                       lease |-> "live", attempts |-> jobs[j].attempts + 1])
    BY DEF ClaimJob, Replaces
  <1> DEFINE r == [kind |-> jobs[j].kind, key |-> jobs[j].key, status |-> "running",
                   lease |-> "live", attempts |-> jobs[j].attempts + 1]
  <1>2. j \in DOMAIN jobs /\ jobs[j].status = "queued" /\ jobs[j] \in JobRow
    BY JobRows DEF Queued
  <1>3. r \in JobRow /\ r.status = "running" /\ r.attempts = jobs[j].attempts + 1
    BY <1>2 DEF JobRow, JobStatus
  <1> HIDE DEF r
  <1>4. JobsTyped' /\ Attempts(j)
    BY <1>1, <1>2, <1>3, Replaced DEF Attempts, Open, r
  <1> QED  BY <1>2, <1>4 DEF QueueStep

LEMMA SweepQueue ==
    ASSUME JobsTyped, NEW w \in Workers, ExpireStaleLeases(w)
    PROVE  JobsTyped' /\ QueueStep
  <1> DEFINE r(j) == IF jobs[j].status = "running" /\ jobs[j].lease = "lapsed"
                     THEN Moved(j, "queued", "none") ELSE jobs[j]
  <1>1. \A j \in DOMAIN jobs : r(j) \in JobRow
    BY JobRows, MovedRow DEF JobStatus
  <1>2. \A j \in DOMAIN jobs : /\ r(j).attempts = jobs[j].attempts
                               /\ \/ r(j).status = jobs[j].status
                                  \/ jobs[j].status \in Open /\ r(j).status \in Open
                               /\ r(j).status = "running" => jobs[j].status = "running"
    BY MovedRow DEF JobStatus, Open
  <1>3. jobs' = [j \in 1..Len(jobs) |-> r(j)]
    BY JobRows DEF ExpireStaleLeases
  <1> HIDE DEF r
  <1>4. jobs' \in Seq(JobRow) /\ Len(jobs') = Len(jobs) /\ DOMAIN jobs' = DOMAIN jobs
        /\ \A j \in DOMAIN jobs : jobs'[j] = r(j)
    BY <1>1, <1>3, JobRows
  <1> QED  BY <1>2, <1>4 DEF JobsTyped, Shuffles, QueueStep

-----------------------------------------------------------------------------
(* The steps                                                               *)

\* Facts of the queue that the steps rely on.
QueueInv == JobsTyped /\ RunningAttempted /\ HasJob

LEMMA AtWork ==
    ASSUME QueueInv, NEW w \in Workers, workers[w].pc \notin {"idle", "claim"}
    PROVE  workers[w].job \in DOMAIN jobs /\ jobs[workers[w].job] \in JobRow
  BY JobRows DEF QueueInv, HasJob

LEMMA WorkerQueue ==
    ASSUME QueueInv, NEW w \in Workers, WorkerStep(w) \/ RenewJobLease(w) \/ Crash(w)
                                          \/ Stall(w) \/ Wake(w)
    PROVE  JobsTyped' /\ QueueStep
  <1> USE DEF QueueInv
  <1>1. CASE ExpireStaleLeases(w)
    BY <1>1, SweepQueue
  <1>2. CASE ClaimJob(w)
    BY <1>2, ClaimQueue
  <1>3. CASE RenewJobLease(w)
    BY <1>3, AtWork, ShuffledQueue DEF RenewJobLease, Beating, Fenced, Running, Open
  <1>4. CASE CompleteJob(w)
    <2>1. CASE Fenced(w)
      <3>1. workers[w].job \in DOMAIN jobs
        BY <1>4, AtWork DEF CompleteJob, At
      <3>2. jobs' = Move(workers[w].job, "completed", "none")
        BY <1>4, <2>1 DEF CompleteJob
      <3> QED  BY <2>1, <3>1, <3>2, SettledQueue
                 DEF Fenced, Running, RunningAttempted, Outcomes, Open
    <2>2. CASE ~Fenced(w)
      BY <1>4, <2>2, UnchangedQueue DEF CompleteJob
    <2> QED  BY <2>1, <2>2
  <1>5. CASE FailJob(w)
    <2> DEFINE j == workers[w].job
    <2>1. j \in DOMAIN jobs /\ jobs[j] \in JobRow
      BY <1>5, AtWork DEF FailJob, At
    <2>2. CASE Fenced(w) /\ jobs[j].attempts >= MaxAttempts
      <3>1. jobs' = Move(j, "dead_letter", "none")
        BY <1>5, <2>2 DEF FailJob
      <3> QED  BY <2>1, <2>2, <3>1, SettledQueue
                 DEF Fenced, Running, RunningAttempted, Outcomes, Open
    <2>3. CASE Fenced(w) /\ ~(jobs[j].attempts >= MaxAttempts)
      <3>1. jobs' = Move(j, "queued", "none")
        BY <1>5, <2>3 DEF FailJob
      <3> QED  BY <2>1, <2>3, <3>1, ShuffledQueue DEF Fenced, Running, Open
    <2>4. CASE ~Fenced(w)
      BY <1>5, <2>4, UnchangedQueue DEF FailJob
    <2> QED  BY <2>2, <2>3, <2>4
  <1>6. CASE QueueEmpty(w) \/ StartJob(w) \/ SettleKey(w) \/ Crash(w) \/ Stall(w) \/ Wake(w)
    BY <1>6, UnchangedQueue DEF QueueEmpty, StartJob, SettleKey, Crash, Stall, Wake
  <1>7. CASE CreateStep(w)
    BY <1>7, UnchangedQueue
       DEF CreateStep, EnsureRunRunning, ReviveRun, RunGraph, GraphRaises, AwaitApproval
  <1>8. CASE ResumeStep(w)
    BY <1>8, UnchangedQueue
       DEF ResumeStep, ReleaseGuards, BeginDelivery, LoadCheckpoint, RunDelivery,
           DeliveryRaises, CompleteRun, RecordRunFailure, FailKey
  <1> QED  BY <1>1, <1>2, <1>3, <1>4, <1>5, <1>6, <1>7, <1>8 DEF WorkerStep

LEMMA RequestQueue ==
    ASSUME JobsTyped, NEW k \in ResumeKeys, ResumeRequest(k)
    PROVE  JobsTyped' /\ QueueStep
  <1>1. CASE UNCHANGED jobs
    BY <1>1, UnchangedQueue
  <1>2. CASE Len(jobs) < MaxJobs /\ jobs' = Append(jobs, Job("resume", k))
    <2>1. Job("resume", k) \in JobRow /\ Job("resume", k).status = "queued"
          /\ Job("resume", k).attempts = 0
      BY DEF Job, JobRow, JobStatus, Keys
    <2>2. /\ jobs' \in Seq(JobRow) /\ Len(jobs') = Len(jobs) + 1
          /\ \A i \in 1..Len(jobs) : jobs'[i] = jobs[i]
          /\ jobs'[Len(jobs) + 1] = Job("resume", k)
      BY <1>2, <2>1, AppendProperties DEF JobsTyped
    <2> QED  BY <1>2, <2>1, <2>2, JobRows DEF JobsTyped, QueueStep, Enqueues
  <1> QED  BY <1>1, <1>2 DEF ResumeRequest

LEMMA QueueSteps ==
    ASSUME QueueInv, [Next]_vars
    PROVE  JobsTyped' /\ QueueStep /\ RunningAttempted'
  <1>1. JobsTyped' /\ QueueStep
    <2> USE DEF QueueInv
    <2>1. ASSUME NEW w \in Workers, WorkerStep(w) \/ RenewJobLease(w) \/ Crash(w)
                                      \/ Stall(w) \/ Wake(w)
          PROVE  JobsTyped' /\ QueueStep
      BY <2>1, WorkerQueue
    <2>2. ASSUME NEW j \in DOMAIN jobs, LeaseLapses(j)
          PROVE  JobsTyped' /\ QueueStep
      BY <2>2, ShuffledQueue DEF LeaseLapses, Open
    <2>3. ASSUME NEW j \in DOMAIN jobs, RequestJobCancellation(j)
          PROVE  JobsTyped' /\ QueueStep
      <3>1. jobs' = Move(j, "cancelled", "none") /\ jobs[j].status \in Open
        BY <2>3 DEF RequestJobCancellation, Open
      <3> QED  BY <3>1, SettledQueue DEF Outcomes
    <2>4. ASSUME NEW k \in ResumeKeys, ResumeRequest(k)
          PROVE  JobsTyped' /\ QueueStep
      BY <2>4, RequestQueue
    <2>5. ASSUME NEW a \in DOMAIN approvals, NEW d \in {"approve", "reject"}, DecideRead(a, d)
          PROVE  JobsTyped' /\ QueueStep
      BY <2>5, UnchangedQueue DEF DecideRead
    <2>6. CASE ResolveApproval \/ RejectRun \/ UNCHANGED vars
      BY <2>6, UnchangedQueue DEF ResolveApproval, RejectRun, vars
    <2> QED  BY <2>1, <2>2, <2>3, <2>4, <2>5, <2>6 DEF Next
  <1>2. ASSUME NEW j \in DOMAIN jobs', jobs'[j].status = "running"
        PROVE  jobs'[j].attempts > 0
    <2> USE DEF QueueInv
    <2>0. DOMAIN jobs = 1..Len(jobs) /\ Len(jobs) \in Nat /\ DOMAIN jobs' = 1..Len(jobs')
          /\ \A i \in DOMAIN jobs : jobs[i].attempts \in Nat
      <3>1. DOMAIN jobs' = 1..Len(jobs')
        BY <1>1, LenProperties DEF JobsTyped
      <3> QED  BY <3>1, JobRows DEF JobRow
    <2>1. CASE Shuffles
      BY <1>2, <2>0, <2>1 DEF Shuffles, RunningAttempted
    <2>2. CASE Enqueues
      BY <1>2, <2>0, <2>2 DEF Enqueues, RunningAttempted
    <2>3. ASSUME NEW i \in DOMAIN jobs, Attempts(i)
          PROVE  jobs'[j].attempts > 0
      BY <1>2, <2>0, <2>3 DEF Attempts, RunningAttempted
    <2>4. ASSUME NEW i \in DOMAIN jobs, NEW o \in Outcomes, Settles(i, o)
          PROVE  jobs'[j].attempts > 0
      BY <1>2, <2>0, <2>4 DEF Settles, RunningAttempted, Outcomes
    <2> QED  BY <1>1, <2>1, <2>2, <2>3, <2>4 DEF QueueStep
  <1> QED  BY <1>1, <1>2 DEF RunningAttempted

-----------------------------------------------------------------------------
(* The run, its content and its approvals                                  *)

AppRow == [status : {"pending", "resolved", "stale"}, decision : {"none", "approve", "reject"},
           degraded : BOOLEAN]

\* An approval that is still pending carries no decision.
ApprovalsInv == /\ approvals \in Seq(AppRow)
                /\ \A a \in DOMAIN approvals :
                     approvals[a].status = "pending" => approvals[a].decision = "none"

Reviewed == \E a \in DOMAIN approvals : approvals[a].decision = "approve"

\* The content and the approval that the artifact names exist.
ArtInv == /\ art \in [gen : Nat, approval : Nat]
          /\ art.gen # 0 => art.gen \in DOMAIN approvals /\ art.approval \in DOMAIN approvals

\* So does the content of the checkpoint, once there is any.
CkptInv == /\ ckpt \in [at : CkptAt, gen : Nat]
           /\ ckpt.at \in {"paused", "done"} \/ approvals # <<>> => ckpt.gen \in DOMAIN approvals

\* And the approval of the request in progress.
ReviewerInv == /\ reviewer \in [pc : {"idle", "resolve", "reject"}, approval : Nat,
                                decision : {"none", "approve", "reject"}]
               /\ reviewer.pc # "idle" => /\ reviewer.approval \in DOMAIN approvals
                                          /\ reviewer.decision \in {"approve", "reject"}

DeliveredInv == /\ run \in RunStatus
                /\ delivered \subseteq DOMAIN approvals
                /\ DegradedNeverDelivered
                /\ delivered # {} \/ run = "delivering" => Reviewed

RunInv == ApprovalsInv /\ ArtInv /\ CkptInv /\ ReviewerInv /\ DeliveredInv

\* Approvals are never withdrawn: what a step leaves of them.
Kept == /\ DOMAIN approvals \subseteq DOMAIN approvals'
        /\ \A a \in DOMAIN approvals :
             /\ approvals'[a].degraded = approvals[a].degraded
             /\ approvals[a].decision # "none" => approvals'[a].decision = approvals[a].decision

LEMMA ApprovalRows ==
    ASSUME ApprovalsInv
    PROVE  /\ Len(approvals) \in Nat /\ DOMAIN approvals = 1..Len(approvals)
           /\ \A a \in DOMAIN approvals : approvals[a] \in AppRow
           /\ approvals # <<>> <=> Len(approvals) > 0
  <1>1. Len(approvals) \in Nat /\ DOMAIN approvals = 1..Len(approvals)
        /\ (approvals = <<>> <=> Len(approvals) = 0)
    BY LenProperties, EmptySeq DEF ApprovalsInv
  <1>2. \A a \in 1..Len(approvals) : approvals[a] \in AppRow
    BY ElementOfSeq DEF ApprovalsInv
  <1> QED  BY <1>1, <1>2

LEMMA KeptReviewed ==
    ASSUME Kept, Reviewed
    PROVE  Reviewed'
  BY DEF Kept, Reviewed

\* The parts that a step does not write survive, as approvals only grow.
LEMMA KeptParts ==
    ASSUME RunInv, ApprovalsInv', Kept
    PROVE  /\ UNCHANGED art => ArtInv'
           /\ UNCHANGED ckpt /\ ckpt.gen \in DOMAIN approvals => CkptInv'
           /\ UNCHANGED reviewer => ReviewerInv'
           /\ UNCHANGED delivered /\ run' \in RunStatus /\ (run' = "delivering" => Reviewed)
                => DeliveredInv'
  <1> USE DEF RunInv
  <1>1. Reviewed => Reviewed'
    BY KeptReviewed
  <1>2. UNCHANGED art => ArtInv'
    BY DEF ArtInv, Kept
  <1>3. UNCHANGED ckpt /\ ckpt.gen \in DOMAIN approvals => CkptInv'
    BY DEF CkptInv, Kept
  <1>4. UNCHANGED reviewer => ReviewerInv'
    BY DEF ReviewerInv, Kept
  <1>5. UNCHANGED delivered /\ run' \in RunStatus /\ (run' = "delivering" => Reviewed)
          => DeliveredInv'
    BY <1>1 DEF DeliveredInv, DegradedNeverDelivered, Kept
  <1> QED  BY <1>2, <1>3, <1>4, <1>5

LEMMA SameRun ==
    ASSUME RunInv, UNCHANGED <<run, art, approvals, ckpt, reviewer, delivered>>
    PROVE  RunInv' /\ Kept /\ Len(approvals') = Len(approvals)
  BY DEF RunInv, ApprovalsInv, ArtInv, CkptInv, ReviewerInv, DeliveredInv, DegradedNeverDelivered,
         Reviewed, Kept

\* Only the status of the run moves.
LEMMA RunMoves ==
    ASSUME RunInv, NEW s \in RunStatus, run' = s, s = "delivering" => Reviewed,
           UNCHANGED <<art, approvals, ckpt, reviewer, delivered>>
    PROVE  RunInv' /\ Kept /\ Len(approvals') = Len(approvals)
  BY DEF RunInv, ApprovalsInv, ArtInv, CkptInv, ReviewerInv, DeliveredInv, DegradedNeverDelivered,
         Reviewed, Kept

LEMMA ApprovalReplaced ==
    ASSUME ApprovalsInv, NEW a \in DOMAIN approvals, NEW s \in {"resolved", "stale"},
           NEW d \in {"none", "approve", "reject"},
           approvals[a].decision # "none" => d = approvals[a].decision,
           approvals' = [approvals EXCEPT ![a] = Approval(s, d, approvals[a].degraded)]
    PROVE  ApprovalsInv' /\ Kept /\ Len(approvals') = Len(approvals)
           /\ DOMAIN approvals' = DOMAIN approvals
  <1> DEFINE r == Approval(s, d, approvals[a].degraded)
  <1>1. r \in AppRow /\ r.status = s /\ r.decision = d /\ r.degraded = approvals[a].degraded
    <2>1. approvals[a].degraded \in BOOLEAN
      BY ApprovalRows DEF AppRow
    <2> QED  BY <2>1 DEF Approval, AppRow
  <1> HIDE DEF r
  <1>2. /\ approvals' \in Seq(AppRow) /\ Len(approvals') = Len(approvals)
        /\ \A i \in 1..Len(approvals) : approvals'[i] = IF i = a THEN r ELSE approvals[i]
    BY <1>1, ApprovalRows, ExceptSeq DEF ApprovalsInv, r
  <1>3. DOMAIN approvals' = DOMAIN approvals
    BY <1>2, LenProperties, ApprovalRows
  <1> QED  BY <1>1, <1>2, <1>3, ApprovalRows DEF ApprovalsInv, Kept

LEMMA ApprovalOpened ==
    ASSUME ApprovalsInv, NEW d \in BOOLEAN,
           approvals' = Append(approvals, Approval("pending", "none", d))
    PROVE  ApprovalsInv' /\ Kept /\ Len(approvals') = Len(approvals) + 1
           /\ DOMAIN approvals' = 1..(Len(approvals) + 1)
  <1> DEFINE r == Approval("pending", "none", d)
  <1>1. r \in AppRow /\ r.status = "pending" /\ r.decision = "none"
    BY DEF Approval, AppRow
  <1> HIDE DEF r
  <1>2. /\ approvals' \in Seq(AppRow) /\ Len(approvals') = Len(approvals) + 1
        /\ \A i \in 1..Len(approvals) : approvals'[i] = approvals[i]
        /\ approvals'[Len(approvals) + 1] = r
    BY <1>1, AppendProperties DEF ApprovalsInv, r
  <1>3. DOMAIN approvals' = 1..(Len(approvals) + 1)
    BY <1>2, LenProperties
  <1> QED  BY <1>1, <1>2, <1>3, ApprovalRows DEF ApprovalsInv, Kept

\* A content that exists is stored with the run.
LEMMA ContentStored ==
    ASSUME ApprovalsInv, ArtInv, NEW g \in DOMAIN approvals, StoreContent(g, approvals)
    PROVE  ApprovalsInv' /\ ArtInv' /\ Kept /\ Len(approvals') = Len(approvals)
           /\ DOMAIN approvals' = DOMAIN approvals
  <1>1. ApprovalsInv' /\ Kept /\ Len(approvals') = Len(approvals)
        /\ DOMAIN approvals' = DOMAIN approvals
    <2>1. CASE art.gen \in {0, g}
      BY <2>1 DEF StoreContent, ApprovalsInv, Kept
    <2>2. CASE art.gen \notin {0, g}
      <3> DEFINE a == art.approval
      <3>1. a \in DOMAIN approvals /\ approvals[a].decision \in {"none", "approve", "reject"}
        BY <2>2, ApprovalRows DEF ArtInv, AppRow
      <3>2. approvals' = [approvals EXCEPT ![a] =
                            Approval("stale", approvals[a].decision, approvals[a].degraded)]
        BY <2>2 DEF StoreContent
      <3> HIDE DEF a
      <3> QED  BY <3>1, <3>2, ApprovalReplaced
    <2> QED  BY <2>1, <2>2
  <1>2. ArtInv'
    BY <1>1, ApprovalRows DEF StoreContent, ArtInv
  <1> QED  BY <1>1, <1>2

\* The graph opens an approval for a new content.
LEMMA Generated ==
    ASSUME RunInv, NEW d \in BOOLEAN, Generate(d), UNCHANGED <<run, art, reviewer, delivered>>
    PROVE  RunInv' /\ Kept /\ Len(approvals') = Len(approvals) + 1
  <1>1. ApprovalsInv' /\ Kept /\ Len(approvals') = Len(approvals) + 1
        /\ DOMAIN approvals' = 1..(Len(approvals) + 1)
    BY ApprovalOpened DEF RunInv, Generate
  <1>2. CkptInv'
    BY <1>1, ApprovalRows DEF Generate, CkptInv, CkptAt, RunInv
  <1>3. ArtInv' /\ ReviewerInv' /\ DeliveredInv'
    BY <1>1, KeptParts DEF RunInv, DeliveredInv
  <1> QED  BY <1>1, <1>2, <1>3 DEF RunInv

\* The content of the checkpoint is stored and the run moves to s.
LEMMA ContentKept ==
    ASSUME RunInv, NEW s \in RunStatus, s # "delivering", run' = s, approvals # <<>>,
           StoreContent(ckpt.gen, approvals), UNCHANGED <<ckpt, reviewer, delivered>>
    PROVE  RunInv' /\ Kept /\ Len(approvals') = Len(approvals)
  <1>1. ckpt.gen \in DOMAIN approvals
    BY DEF RunInv, CkptInv
  <1>2. ApprovalsInv' /\ ArtInv' /\ Kept /\ Len(approvals') = Len(approvals)
    BY <1>1, ContentStored DEF RunInv
  <1>3. CkptInv' /\ ReviewerInv' /\ DeliveredInv'
    BY <1>1, <1>2, KeptParts
  <1> QED  BY <1>2, <1>3 DEF RunInv

-----------------------------------------------------------------------------
(* The workers                                                             *)

WorkerRow == [pc : WorkerPC, job : Nat, token : Nat, seen : RunStatus \cup {"none"},
              snap : [at : CkptAt, gen : Nat], stalled : BOOLEAN]

\* What a worker at r.pc has established, with n jobs, m contents, and an
\* approval or none: its job exists, the checkpoint it has read is of a content
\* that exists, and it delivers for somebody.
Fit(r, n, m, reviewed) ==
  /\ r.pc \notin {"idle", "claim"} => r.job \in 1..n
  /\ r.snap.at \in {"paused", "done"} => r.snap.gen \in 1..m
  /\ r.pc \in {"await", "complete"} => m > 0
  /\ r.pc \in {"cas", "load", "node"} => reviewed

WorkersInv == /\ workers \in [Workers -> WorkerRow]
              /\ \A w \in Workers : Fit(workers[w], Len(jobs), Len(approvals), Reviewed)

Inv == JobsTyped /\ RunningAttempted /\ RunInv /\ WorkersInv

LEMMA InvQueue ==
    ASSUME Inv
    PROVE  QueueInv
  BY JobRows DEF Inv, QueueInv, WorkersInv, HasJob, Fit

Sets(w, r) == workers' = [workers EXCEPT ![w] = r]

\* Nothing is lost: jobs and contents only grow in number.
Grows == /\ Len(jobs') \in Nat /\ Len(jobs) \in Nat /\ Len(jobs') >= Len(jobs)
         /\ Len(approvals') \in Nat /\ Len(approvals) \in Nat
         /\ Len(approvals') >= Len(approvals)
         /\ Reviewed => Reviewed'

LEMMA StillFit ==
    ASSUME Grows, NEW r, Fit(r, Len(jobs), Len(approvals), Reviewed)
    PROVE  Fit(r, Len(jobs'), Len(approvals'), Reviewed')
  BY DEF Grows, Fit

LEMMA WorkersStay ==
    ASSUME WorkersInv, Grows, UNCHANGED workers
    PROVE  WorkersInv'
  BY StillFit DEF WorkersInv

LEMMA WorkerSet ==
    ASSUME WorkersInv, Grows, NEW w \in Workers, NEW r \in WorkerRow, Sets(w, r),
           Fit(r, Len(jobs'), Len(approvals'), Reviewed')
    PROVE  WorkersInv'
  <1>1. workers' \in [Workers -> WorkerRow]
    BY DEF WorkersInv, Sets
  <1>2. workers'[w] = r /\ \A v \in Workers \ {w} : workers'[v] = workers[v]
    BY DEF WorkersInv, Sets
  <1>3. \A v \in Workers \ {w} : Fit(workers[v], Len(jobs'), Len(approvals'), Reviewed')
    BY StillFit DEF WorkersInv
  <1> QED  BY <1>1, <1>2, <1>3 DEF WorkersInv

\* A worker that is not at work needs nothing.
LEMMA WorkerFreed ==
    ASSUME WorkersInv, Grows, NEW w \in Workers, NEW pc \in {"idle", "claim"},
           Sets(w, Without(pc))
    PROVE  WorkersInv'
  <1>1. Without(pc) \in WorkerRow /\ Without(pc).pc = pc /\ Without(pc).snap.at = "none"
    BY DEF Without, NoSnap, WorkerRow, WorkerPC, CkptAt
  <1>2. Fit(Without(pc), Len(jobs'), Len(approvals'), Reviewed')
    BY <1>1 DEF Fit
  <1> QED  BY <1>1, <1>2, WorkerSet

\* One that is stalled, or wakes, is where it was.
LEMMA WorkerParks ==
    ASSUME WorkersInv, Grows, NEW w \in Workers, NEW b \in BOOLEAN,
           workers' = [workers EXCEPT ![w].stalled = b]
    PROVE  WorkersInv'
  <1> DEFINE r == [workers[w] EXCEPT !.stalled = b]
  <1>0. workers[w] \in WorkerRow /\ Fit(workers[w], Len(jobs'), Len(approvals'), Reviewed')
    BY StillFit DEF WorkersInv
  <1>1. r \in WorkerRow /\ r.pc = workers[w].pc /\ r.job = workers[w].job
        /\ r.snap = workers[w].snap
    BY <1>0 DEF WorkerRow
  <1>2. Sets(w, r)
    BY DEF Sets
  <1> HIDE DEF r
  <1>3. Fit(r, Len(jobs'), Len(approvals'), Reviewed')
    BY <1>0, <1>1 DEF Fit
  <1> QED  BY <1>1, <1>2, <1>3, WorkerSet

\* A worker that goes on with its job.
LEMMA WorkerCarries ==
    ASSUME WorkersInv, Grows, NEW w \in Workers, NEW pc \in WorkerPC,
           NEW seen \in RunStatus \cup {"none"}, NEW snap \in [at : CkptAt, gen : Nat],
           Carry(w, pc, seen, snap), workers[w].pc \notin {"idle", "claim"},
           snap.at \in {"paused", "done"} => snap.gen \in 1..Len(approvals'),
           pc \in {"await", "complete"} => Len(approvals') > 0,
           pc \in {"cas", "load", "node"} => Reviewed'
    PROVE  WorkersInv'
  <1> DEFINE r == [pc |-> pc, job |-> workers[w].job, token |-> workers[w].token,
                   seen |-> seen, snap |-> snap, stalled |-> workers[w].stalled]
  <1>0. workers[w] \in WorkerRow /\ workers[w].job \in 1..Len(jobs')
    BY DEF WorkersInv, Fit, Grows
  <1>1. r \in WorkerRow /\ r.pc = pc /\ r.job = workers[w].job /\ r.snap = snap
    BY <1>0 DEF WorkerRow
  <1>2. Sets(w, r)
    BY DEF Sets, Carry
  <1> HIDE DEF r
  <1>3. Fit(r, Len(jobs'), Len(approvals'), Reviewed')
    BY <1>0, <1>1 DEF Fit
  <1> QED  BY <1>1, <1>2, <1>3, WorkerSet

LEMMA WorkerGoes ==
    ASSUME WorkersInv, Grows, NEW w \in Workers, NEW pc \in WorkerPC, Goto(w, pc),
           workers[w].pc \notin {"idle", "claim"},
           pc \in {"await", "complete"} => Len(approvals') > 0,
           pc \in {"cas", "load", "node"} => Reviewed'
    PROVE  WorkersInv'
  <1>1. NoSnap \in [at : CkptAt, gen : Nat] /\ NoSnap.at = "none"
    BY DEF NoSnap, CkptAt
  <1>2. Carry(w, pc, "none", NoSnap)
    BY DEF Goto
  <1> QED  BY <1>1, <1>2, WorkerCarries

\* The sweep: an idle worker moves on to its claim.
LEMMA WorkerPolls ==
    ASSUME WorkersInv, Grows, NEW w \in Workers, workers[w].pc = "idle", Goto(w, "claim")
    PROVE  WorkersInv'
  <1> DEFINE r == [pc |-> "claim", job |-> workers[w].job, token |-> workers[w].token,
                   seen |-> "none", snap |-> NoSnap, stalled |-> workers[w].stalled]
  <1>0. workers[w] \in WorkerRow
    BY DEF WorkersInv
  <1>1. r \in WorkerRow /\ r.pc = "claim" /\ r.snap.at = "none"
    BY <1>0 DEF WorkerRow, NoSnap, CkptAt, WorkerPC
  <1>2. Sets(w, r)
    BY DEF Sets, Goto, Carry
  <1> HIDE DEF r
  <1>3. Fit(r, Len(jobs'), Len(approvals'), Reviewed')
    BY <1>1 DEF Fit
  <1> QED  BY <1>1, <1>2, <1>3, WorkerSet

LEMMA QueueGrows ==
    ASSUME JobsTyped, JobsTyped', QueueStep
    PROVE  Len(jobs) \in Nat /\ Len(jobs') \in Nat /\ Len(jobs') >= Len(jobs)
  <1>1. Len(jobs) \in Nat /\ Len(jobs') \in Nat
    BY LenProperties DEF JobsTyped
  <1> QED  BY <1>1 DEF QueueStep, Shuffles, Enqueues, Attempts, Settles

LEMMA BothGrow ==
    ASSUME JobsTyped, JobsTyped', QueueStep, RunInv, RunInv', Kept
    PROVE  Grows
  <1>1. Len(approvals) \in Nat /\ Len(approvals') \in Nat /\ Len(approvals') >= Len(approvals)
    <2>1. Len(approvals) \in Nat /\ Len(approvals') \in Nat
          /\ DOMAIN approvals = 1..Len(approvals) /\ DOMAIN approvals' = 1..Len(approvals')
      BY LenProperties DEF RunInv, ApprovalsInv
    <2>2. 1..Len(approvals) \subseteq 1..Len(approvals')
      BY <2>1 DEF Kept
    <2> QED  BY <2>1, <2>2
  <1>2. Reviewed => Reviewed'
    BY KeptReviewed
  <1> QED  BY <1>1, <1>2, QueueGrows DEF Grows

-----------------------------------------------------------------------------
(* Every step keeps the invariant                                          *)

StepsRun == RunInv' /\ Kept
StepsQueue == JobsTyped' /\ QueueStep /\ RunningAttempted'

LEMMA StepsGrow ==
    ASSUME Inv, StepsQueue, StepsRun
    PROVE  Grows
  BY BothGrow DEF Inv, StepsQueue, StepsRun

LEMMA QueueActions ==
    ASSUME Inv, StepsQueue, NEW w \in Workers,
           \/ ExpireStaleLeases(w) \/ ClaimJob(w) \/ QueueEmpty(w) \/ StartJob(w)
           \/ CompleteJob(w) \/ FailJob(w) \/ SettleKey(w)
    PROVE  Inv'
  <1>1. RunInv' /\ Kept /\ Grows
    <2>1. UNCHANGED <<run, art, approvals, ckpt, reviewer, delivered>>
      BY DEF ExpireStaleLeases, ClaimJob, QueueEmpty, StartJob, CompleteJob, FailJob, SettleKey,
             jobsOnly
    <2>2. RunInv' /\ Kept
      BY <2>1, SameRun DEF Inv
    <2> QED  BY <2>2, StepsGrow DEF StepsRun
  <1>2. WorkersInv'
    <2> USE DEF Inv
    <2>1. CASE ExpireStaleLeases(w)
      BY <1>1, <2>1, WorkerPolls DEF ExpireStaleLeases, At
    <2>2. CASE ClaimJob(w)
      <3>1. PICK j \in Queued :
              Sets(w, [pc |-> "start", job |-> j, token |-> jobs[j].attempts + 1,
                       seen |-> "none", snap |-> NoSnap, stalled |-> FALSE])
        BY <2>2 DEF ClaimJob, Sets
      <3> DEFINE r == [pc |-> "start", job |-> j, token |-> jobs[j].attempts + 1,
                       seen |-> "none", snap |-> NoSnap, stalled |-> FALSE]
      <3>2. j \in Nat /\ j \in 1..Len(jobs') /\ jobs[j].attempts \in Nat
        BY <1>1, JobRows DEF Queued, JobRow, Grows
      <3>3. r \in WorkerRow /\ r.pc = "start" /\ r.job = j /\ r.snap.at = "none"
        BY <3>2 DEF WorkerRow, WorkerPC, NoSnap, CkptAt
      <3>4. Sets(w, r)
        BY <3>1
      <3> HIDE DEF r
      <3>5. Fit(r, Len(jobs'), Len(approvals'), Reviewed')
        BY <3>2, <3>3 DEF Fit
      <3> QED  BY <1>1, <3>3, <3>4, <3>5, WorkerSet
    <2>3. CASE QueueEmpty(w)
      BY <1>1, <2>3, WorkerFreed DEF QueueEmpty, Free, Sets
    <2>4. CASE StartJob(w)
      <3>1. CASE NextJob(w)
        BY <1>1, <3>1, WorkerFreed DEF NextJob, Sets
      <3>2. CASE Goto(w, IF jobs[workers[w].job].kind = "create" THEN "ensure" ELSE "guard")
        <4>1. PICK pc \in {"ensure", "guard"} : Goto(w, pc)
          BY <3>2
        <4> QED  BY <1>1, <2>4, <4>1, WorkerGoes DEF StartJob, At, WorkerPC
      <3> QED  BY <2>4, <3>1, <3>2 DEF StartJob
    <2>5. CASE CompleteJob(w) \/ FailJob(w)
      BY <1>1, <2>5, WorkerFreed DEF CompleteJob, FailJob, NextJob, Sets
    <2>6. CASE SettleKey(w)
      BY <1>1, <2>6, WorkerGoes DEF SettleKey, At, WorkerPC
    <2> QED  BY <2>1, <2>2, <2>3, <2>4, <2>5, <2>6
  <1> QED  BY <1>1, <1>2 DEF Inv, StepsQueue

LEMMA FaultActions ==
    ASSUME Inv, StepsQueue, NEW w \in Workers,
           RenewJobLease(w) \/ Crash(w) \/ Stall(w) \/ Wake(w)
    PROVE  Inv'
  <1>1. RunInv' /\ Kept /\ Grows
    <2>1. UNCHANGED <<run, art, approvals, ckpt, reviewer, delivered>>
      BY DEF RenewJobLease, Crash, Stall, Wake, jobsOnly
    <2>2. RunInv' /\ Kept
      BY <2>1, SameRun DEF Inv
    <2> QED  BY <2>2, StepsGrow DEF StepsRun
  <1>2. WorkersInv'
    <2> USE DEF Inv
    <2>1. CASE RenewJobLease(w)
      BY <1>1, <2>1, WorkersStay DEF RenewJobLease
    <2>2. CASE Crash(w)
      BY <1>1, <2>2, WorkerFreed DEF Crash, Free, Sets
    <2>3. CASE Stall(w)
      BY <1>1, <2>3, WorkerParks DEF Stall
    <2>4. CASE Wake(w)
      BY <1>1, <2>4, WorkerParks DEF Wake
    <2> QED  BY <2>1, <2>2, <2>3, <2>4
  <1> QED  BY <1>1, <1>2 DEF Inv, StepsQueue

LEMMA CreateActions ==
    ASSUME Inv, StepsQueue, NEW w \in Workers, CreateStep(w)
    PROVE  Inv'
  <1> USE DEF Inv
  <1>q. run \in RunStatus /\ ckpt \in [at : CkptAt, gen : Nat]
    BY DEF RunInv, DeliveredInv, CkptInv
  <1>1. CASE EnsureRunRunning(w)
    <2>1. RunInv' /\ Kept
      BY <1>1, SameRun DEF EnsureRunRunning, jobsOnly
    <2>2. Grows
      BY <2>1, StepsGrow DEF StepsRun
    <2>3. WorkersInv'
      <3>1. CASE Goto(w, "graph")
        BY <1>1, <2>2, <3>1, WorkerGoes DEF EnsureRunRunning, At, WorkerPC
      <3>2. CASE Carry(w, "revive", run, NoSnap)
        <4>1. NoSnap \in [at : CkptAt, gen : Nat] /\ NoSnap.at = "none"
          BY DEF NoSnap, CkptAt
        <4> QED  BY <1>q, <1>1, <2>2, <3>2, <4>1, WorkerCarries
                   DEF EnsureRunRunning, At, WorkerPC
      <3> QED  BY <1>1, <3>1, <3>2 DEF EnsureRunRunning
    <2> QED  BY <2>1, <2>3 DEF StepsQueue
  <1>2. CASE ReviveRun(w)
    <2>1. RunInv' /\ Kept
      <3>1. PICK s \in RunStatus : run' = s /\ s \in {run, "running"}
        BY <1>q, <1>2 DEF ReviveRun, RunStatus
      <3>2. s = "delivering" => Reviewed
        BY <3>1 DEF RunInv, DeliveredInv
      <3> QED  BY <1>2, <3>1, <3>2, RunMoves DEF ReviveRun
    <2>2. Grows
      BY <2>1, StepsGrow DEF StepsRun
    <2>3. PICK pc \in {"graph", "raise"} : Goto(w, pc)
      BY <1>2 DEF ReviveRun
    <2>4. WorkersInv'
      BY <1>2, <2>2, <2>3, WorkerGoes DEF ReviveRun, At, WorkerPC
    <2> QED  BY <2>1, <2>4 DEF StepsQueue
  <1>3. CASE RunGraph(w)
    <2>1. RunInv' /\ Kept /\ Len(approvals') = Len(approvals) + 1
      BY <1>3, Generated DEF RunGraph
    <2>2. Grows
      BY <2>1, StepsGrow DEF StepsRun
    <2>3. WorkersInv'
      BY <1>3, <2>1, <2>2, WorkerGoes DEF RunGraph, At, WorkerPC, Grows
    <2> QED  BY <2>1, <2>3 DEF StepsQueue
  <1>4. CASE GraphRaises(w)
    <2>1. RunInv' /\ Kept
      <3>1. ApprovalsInv' /\ Kept
        BY <1>4 DEF GraphRaises, RunInv, ApprovalsInv, Kept
      <3>2. CkptInv'
        BY <1>4 DEF GraphRaises, RunInv, CkptInv, CkptAt
      <3>3. ArtInv' /\ ReviewerInv' /\ DeliveredInv'
        <4>1. run = "delivering" => Reviewed
          BY DEF RunInv, DeliveredInv
        <4> QED  BY <1>q, <1>4, <3>1, <4>1, KeptParts DEF GraphRaises
      <3> QED  BY <3>1, <3>2, <3>3 DEF RunInv
    <2>2. Grows
      BY <2>1, StepsGrow DEF StepsRun
    <2>3. WorkersInv'
      BY <1>4, <2>2, WorkerGoes DEF GraphRaises, At, WorkerPC
    <2> QED  BY <2>1, <2>3 DEF StepsQueue
  <1>5. CASE AwaitApproval(w)
    <2>0. Len(approvals) > 0 /\ approvals # <<>>
      BY <1>5, ApprovalRows DEF AwaitApproval, At, WorkersInv, Fit, RunInv
    <2>1. RunInv' /\ Kept
      BY <1>5, <2>0, ContentKept DEF AwaitApproval, RunStatus
    <2>2. Grows
      BY <2>1, StepsGrow DEF StepsRun
    <2>3. WorkersInv'
      BY <1>5, <2>2, WorkerGoes DEF AwaitApproval, At, WorkerPC
    <2> QED  BY <2>1, <2>3 DEF StepsQueue
  <1> QED  BY <1>1, <1>2, <1>3, <1>4, <1>5 DEF CreateStep

\* A content that a paused thread has been resumed for is delivered.
LEMMA Delivers ==
    ASSUME RunInv, NEW g \in DOMAIN approvals, ~Refuses(g), Reviewed,
           delivered' = delivered \cup {g}, ckpt' = [at |-> "done", gen |-> g],
           UNCHANGED <<run, art, approvals, reviewer>>
    PROVE  RunInv' /\ Kept
  <1>1. ApprovalsInv' /\ Kept
    BY DEF RunInv, ApprovalsInv, Kept
  <1>2. ArtInv' /\ ReviewerInv'
    BY <1>1, KeptParts
  <1>3. CkptInv'
    BY ApprovalRows DEF CkptInv, CkptAt, RunInv
  <1>4. Reviewed'
    BY <1>1, KeptReviewed
  <1>5. DeliveredInv'
    BY <1>4 DEF DeliveredInv, DegradedNeverDelivered, Refuses, RunInv
  <1> QED  BY <1>1, <1>2, <1>3, <1>5 DEF RunInv

LEMMA DeliveryAction ==
    ASSUME Inv, StepsQueue, NEW w \in Workers, RunDelivery(w)
    PROVE  Inv'
  <1> USE DEF Inv
  <1> DEFINE s == workers[w].snap
  <1>0. /\ workers[w].pc = "node" /\ Reviewed
        /\ s.at \in {"paused", "done"} => s.gen \in DOMAIN approvals
        /\ s.at \in {"paused", "done"} => Len(approvals) > 0
    <2>1. workers[w].pc = "node" /\ Fit(workers[w], Len(jobs), Len(approvals), Reviewed)
      BY DEF RunDelivery, At, WorkersInv
    <2>2. s.at \in {"paused", "done"} => s.gen \in 1..Len(approvals)
      BY <2>1 DEF Fit
    <2> QED  BY <2>1, <2>2, ApprovalRows DEF Fit, RunInv
  <1> HIDE DEF s
  <1>1. CASE /\ s.at = "paused" /\ ~Refuses(s.gen)
             /\ delivered' = delivered \cup {s.gen} /\ ckpt' = [at |-> "done", gen |-> s.gen]
             /\ Goto(w, "complete") /\ UNCHANGED approvals
    <2>1. RunInv' /\ Kept
      BY <1>0, <1>1, Delivers DEF RunDelivery
    <2>2. Grows
      BY <2>1, StepsGrow DEF StepsRun
    <2>3. WorkersInv'
      BY <1>0, <1>1, <2>2, WorkerGoes DEF WorkerPC
    <2> QED  BY <2>1, <2>3 DEF StepsQueue
  <1>2. CASE Goto(w, "runfail") /\ UNCHANGED <<approvals, ckpt, delivered>>
    <2>1. RunInv' /\ Kept
      BY <1>2, SameRun DEF RunDelivery
    <2>2. Grows
      BY <2>1, StepsGrow DEF StepsRun
    <2>3. WorkersInv'
      BY <1>0, <1>2, <2>2, WorkerGoes DEF WorkerPC
    <2> QED  BY <2>1, <2>3 DEF StepsQueue
  <1>3. CASE /\ s.at = "done" /\ Goto(w, "complete") /\ UNCHANGED <<approvals, ckpt, delivered>>
    <2>1. RunInv' /\ Kept /\ Len(approvals') = Len(approvals)
      BY <1>3, SameRun DEF RunDelivery
    <2>2. Grows
      BY <2>1, StepsGrow DEF StepsRun
    <2>3. WorkersInv'
      BY <1>0, <1>3, <2>1, <2>2, WorkerGoes DEF WorkerPC
    <2> QED  BY <2>1, <2>3 DEF StepsQueue
  <1>4. CASE Goto(w, "complete") /\ (\E d \in BOOLEAN : Generate(d)) /\ UNCHANGED delivered
    <2>1. RunInv' /\ Kept /\ Len(approvals') = Len(approvals) + 1
      BY <1>4, Generated DEF RunDelivery
    <2>2. Grows
      BY <2>1, StepsGrow DEF StepsRun
    <2>3. WorkersInv'
      BY <1>0, <1>4, <2>1, <2>2, WorkerGoes DEF WorkerPC, Grows
    <2> QED  BY <2>1, <2>3 DEF StepsQueue
  <1> QED  BY <1>1, <1>2, <1>3, <1>4 DEF RunDelivery, s

LEMMA ResumeActions ==
    ASSUME Inv, StepsQueue, NEW w \in Workers, ResumeStep(w)
    PROVE  Inv'
  <1> USE DEF Inv
  <1>q. /\ run \in RunStatus /\ ckpt \in [at : CkptAt, gen : Nat]
        /\ ckpt.at \in {"paused", "done"} => ckpt.gen \in 1..Len(approvals)
        /\ run = "delivering" => Reviewed
        /\ workers[w].pc \in {"cas", "load", "node"} => Reviewed
    BY ApprovalRows DEF RunInv, DeliveredInv, CkptInv, WorkersInv, Fit
  <1>1. CASE ReleaseGuards(w)
    <2>1. RunInv' /\ Kept
      BY <1>1, SameRun DEF ReleaseGuards, jobsOnly
    <2>2. Grows
      BY <2>1, StepsGrow DEF StepsRun
    <2>3. LatestApproves => Reviewed
      BY ApprovalRows DEF LatestApproves, Latest, Reviewed, RunInv
    <2>4. PICK pc \in {"finish", "raise", "load", "cas", "settle"} :
            Goto(w, pc) /\ (pc \in {"load", "cas"} => Reviewed)
      BY <1>q, <1>1, <2>3 DEF ReleaseGuards
    <2>5. WorkersInv'
      BY <1>1, <2>2, <2>4, WorkerGoes DEF ReleaseGuards, At, WorkerPC, Grows
    <2> QED  BY <2>1, <2>5 DEF StepsQueue
  <1>2. CASE BeginDelivery(w)
    <2>1. RunInv' /\ Kept
      <3>1. PICK s \in RunStatus : run' = s
        BY <1>q, <1>2 DEF BeginDelivery, RunStatus
      <3> QED  BY <1>q, <1>2, <3>1, RunMoves DEF BeginDelivery, At
    <2>2. Grows
      BY <2>1, StepsGrow DEF StepsRun
    <2>3. PICK pc \in {"load", "finish", "raise"} : Goto(w, pc)
      BY <1>2 DEF BeginDelivery
    <2>4. WorkersInv'
      BY <1>q, <1>2, <2>2, <2>3, WorkerGoes DEF BeginDelivery, At, WorkerPC, Grows
    <2> QED  BY <2>1, <2>4 DEF StepsQueue
  <1>3. CASE LoadCheckpoint(w)
    <2>1. RunInv' /\ Kept /\ Len(approvals') = Len(approvals)
      BY <1>3, SameRun DEF LoadCheckpoint, jobsOnly
    <2>2. Grows
      BY <2>1, StepsGrow DEF StepsRun
    <2>3. WorkersInv'
      BY <1>q, <1>3, <2>1, <2>2, WorkerCarries DEF LoadCheckpoint, At, WorkerPC, Grows
    <2> QED  BY <2>1, <2>3 DEF StepsQueue
  <1>4. CASE RunDelivery(w)
    BY <1>4, DeliveryAction
  <1>5. CASE DeliveryRaises(w)
    <2>1. RunInv' /\ Kept
      BY <1>5, SameRun DEF DeliveryRaises, jobsOnly
    <2>2. Grows
      BY <2>1, StepsGrow DEF StepsRun
    <2>3. WorkersInv'
      BY <1>5, <2>2, WorkerGoes DEF DeliveryRaises, At, WorkerPC
    <2> QED  BY <2>1, <2>3 DEF StepsQueue
  <1>6. CASE CompleteRun(w)
    <2>0. Len(approvals) > 0 /\ approvals # <<>>
      BY <1>6, ApprovalRows DEF CompleteRun, At, WorkersInv, Fit, RunInv
    <2>1. RunInv' /\ Kept
      BY <1>6, <2>0, ContentKept DEF CompleteRun, RunStatus
    <2>2. Grows
      BY <2>1, StepsGrow DEF StepsRun
    <2>3. WorkersInv'
      BY <1>6, <2>2, WorkerGoes DEF CompleteRun, At, WorkerPC
    <2> QED  BY <2>1, <2>3 DEF StepsQueue
  <1>7. CASE RecordRunFailure(w)
    <2>1. RunInv' /\ Kept
      BY <1>7, RunMoves DEF RecordRunFailure, RunStatus
    <2>2. Grows
      BY <2>1, StepsGrow DEF StepsRun
    <2>3. WorkersInv'
      BY <1>7, <2>2, WorkerGoes DEF RecordRunFailure, At, WorkerPC
    <2> QED  BY <2>1, <2>3 DEF StepsQueue
  <1>8. CASE FailKey(w)
    <2>1. RunInv' /\ Kept
      BY <1>8, SameRun DEF FailKey
    <2>2. Grows
      BY <2>1, StepsGrow DEF StepsRun
    <2>3. WorkersInv'
      BY <1>8, <2>2, WorkerGoes DEF FailKey, At, WorkerPC
    <2> QED  BY <2>1, <2>3 DEF StepsQueue
  <1> QED  BY <1>1, <1>2, <1>3, <1>4, <1>5, <1>6, <1>7, <1>8 DEF ResumeStep

\* The steps of the routes and of the queue leave the workers alone.
LEMMA RouteActions ==
    ASSUME Inv, StepsQueue,
           \/ \E j \in DOMAIN jobs : LeaseLapses(j) \/ RequestJobCancellation(j)
           \/ \E k \in ResumeKeys : ResumeRequest(k)
           \/ \E a \in DOMAIN approvals, d \in {"approve", "reject"} : DecideRead(a, d)
           \/ ResolveApproval \/ RejectRun \/ UNCHANGED vars
    PROVE  Inv'
  <1> USE DEF Inv
  <1>1. RunInv' /\ Kept
    <2>1. CASE UNCHANGED <<run, art, approvals, ckpt, reviewer, delivered>>
      BY <2>1, SameRun
    <2>2. ASSUME NEW a \in DOMAIN approvals, NEW d \in {"approve", "reject"}, DecideRead(a, d)
          PROVE  RunInv' /\ Kept
      <3>1. ApprovalsInv' /\ Kept
        BY <2>2 DEF DecideRead, RunInv, ApprovalsInv, Kept
      <3>2. ReviewerInv'
        <4>1. a \in Nat
          BY ApprovalRows DEF RunInv
        <4> QED  BY <2>2, <4>1 DEF DecideRead, ReviewerInv
      <3>3. ArtInv' /\ CkptInv' /\ DeliveredInv'
        BY <2>2 DEF DecideRead, RunInv, ArtInv, CkptInv, DeliveredInv, DegradedNeverDelivered,
                    Reviewed
      <3> QED  BY <3>1, <3>2, <3>3 DEF RunInv
    <2>3. CASE ResolveApproval
      <3> DEFINE a == reviewer.approval  d == reviewer.decision
      <3>1. a \in DOMAIN approvals /\ d \in {"approve", "reject"} /\ a \in Nat
        BY <2>3 DEF ResolveApproval, RunInv, ReviewerInv
      <3>2. ApprovalsInv' /\ Kept /\ DOMAIN approvals' = DOMAIN approvals
            /\ (approvals # <<>> <=> approvals' # <<>>)
        <4>1. CASE approvals[a].status = "pending"
          <5>1. approvals' = [approvals EXCEPT ![a] =
                                Approval("resolved", d, approvals[a].degraded)]
            BY <2>3, <4>1 DEF ResolveApproval
          <5>2. approvals[a].decision = "none"
            BY <3>1, <4>1 DEF RunInv, ApprovalsInv
          <5> HIDE DEF a, d
          <5>3. ApprovalsInv' /\ Kept /\ DOMAIN approvals' = DOMAIN approvals
            BY <3>1, <5>1, <5>2, ApprovalReplaced DEF RunInv
          <5>4. approvals # <<>> /\ approvals' # <<>>
            BY <3>1, <5>3
          <5> QED  BY <5>3, <5>4
        <4>2. CASE approvals[a].status # "pending"
          BY <2>3, <4>2 DEF ResolveApproval, RunInv, ApprovalsInv, Kept
        <4> QED  BY <4>1, <4>2
      <3>3. ReviewerInv'
        <4>1. reviewer' \in {NoReview, [pc |-> "reject", approval |-> a, decision |-> d]}
          BY <2>3 DEF ResolveApproval
        <4> QED  BY <3>1, <3>2, <4>1 DEF ReviewerInv, NoReview
      <3>4. ArtInv' /\ DeliveredInv'
        <4>1. run \in RunStatus /\ (run = "delivering" => Reviewed)
          BY DEF RunInv, DeliveredInv
        <4> QED  BY <2>3, <3>2, <4>1, KeptParts DEF ResolveApproval
      <3>5. CkptInv'
        BY <2>3, <3>2 DEF ResolveApproval, CkptInv, RunInv
      <3> QED  BY <3>2, <3>3, <3>4, <3>5 DEF RunInv
    <2>4. CASE RejectRun
      <3>1. ApprovalsInv' /\ Kept /\ ArtInv' /\ CkptInv'
        BY <2>4 DEF RejectRun, RunInv, ApprovalsInv, Kept, ArtInv, CkptInv
      <3>2. ReviewerInv'
        BY <2>4 DEF RejectRun, ReviewerInv, NoReview
      <3>3. DeliveredInv'
        <4>1. run \in RunStatus /\ (run = "delivering" => Reviewed)
          BY DEF RunInv, DeliveredInv
        <4>2. run' \in RunStatus /\ (run' = "delivering" => Reviewed)
          BY <2>4, <4>1 DEF RejectRun, RunStatus
        <4> QED  BY <2>4, <3>1, <4>2, KeptParts DEF RejectRun
      <3> QED  BY <3>1, <3>2, <3>3 DEF RunInv
    <2> QED  BY <2>1, <2>2, <2>3, <2>4
             DEF LeaseLapses, RequestJobCancellation, ResumeRequest, jobsOnly, vars
  <1>2. Grows
    BY <1>1, StepsGrow DEF StepsRun
  <1>3. UNCHANGED workers
    BY DEF LeaseLapses, RequestJobCancellation, ResumeRequest, DecideRead, ResolveApproval,
           RejectRun, vars
  <1>4. WorkersInv'
    BY <1>2, <1>3, WorkersStay
  <1> QED  BY <1>1, <1>4 DEF StepsQueue

\* The idempotency records and the counters keep their types on their own.
Records == idem \in [Keys -> KeyStatus] /\ count \in [{"loss", "upset"} -> Nat]

LEMMA RecordsStep ==
    ASSUME Records, JobsTyped, WorkersInv, [Next]_vars
    PROVE  Records'
  <1>1. \A s \in KeyStatus : Reserved(s) \in KeyStatus /\ Completed(s) \in KeyStatus
                             /\ Failed(s) \in KeyStatus
    BY DEF KeyStatus, Reserved, Completed, Failed, Reservable
  <1>2. ASSUME NEW e \in {"loss", "upset"}, NEW m, Happens(e, m)
        PROVE  count' \in [{"loss", "upset"} -> Nat]
    BY <1>2 DEF Happens, Records
  <1>3. ASSUME NEW k, NEW s \in KeyStatus, idem' = [idem EXCEPT ![k] = s]
        PROVE  idem' \in [Keys -> KeyStatus]
    BY <1>3 DEF Records
  <1>4. CASE UNCHANGED <<idem, count>>
    BY <1>4 DEF Records
  <1>5. ASSUME NEW w \in Workers, WorkerStep(w) \/ RenewJobLease(w) \/ Crash(w) \/ Stall(w) \/ Wake(w)
        PROVE  Records'
    <2>1. CASE GraphRaises(w) \/ DeliveryRaises(w) \/ Crash(w) \/ Stall(w)
      BY <1>2, <2>1 DEF Records, GraphRaises, DeliveryRaises, Crash, Stall, jobsOnly
    <2>2. CASE SettleKey(w) \/ FailKey(w)
      <3>1. workers[w].job \in DOMAIN jobs
        BY <2>2, JobRows DEF SettleKey, FailKey, At, WorkersInv, Fit
      <3>2. jobs[workers[w].job].key \in Keys
        BY <3>1, JobRows DEF JobRow
      <3>3. Completed(idem[jobs[workers[w].job].key]) \in KeyStatus
            /\ Failed(idem[jobs[workers[w].job].key]) \in KeyStatus
        BY <1>1, <3>2 DEF Records
      <3> QED  BY <1>3, <2>2, <3>3 DEF SettleKey, FailKey, Records
    <2>3. CASE ExpireStaleLeases(w) \/ ClaimJob(w) \/ QueueEmpty(w) \/ StartJob(w)
               \/ CompleteJob(w) \/ FailJob(w) \/ RenewJobLease(w) \/ Wake(w)
      BY <1>4, <2>3 DEF ExpireStaleLeases, ClaimJob, QueueEmpty, StartJob, CompleteJob, FailJob,
                        RenewJobLease, Wake, jobsOnly
    <2>4. CASE EnsureRunRunning(w) \/ ReviveRun(w) \/ RunGraph(w) \/ AwaitApproval(w)
               \/ ReleaseGuards(w) \/ BeginDelivery(w) \/ LoadCheckpoint(w) \/ RunDelivery(w)
               \/ CompleteRun(w) \/ RecordRunFailure(w)
      BY <1>4, <2>4 DEF EnsureRunRunning, ReviveRun, RunGraph, AwaitApproval, ReleaseGuards,
                        BeginDelivery, LoadCheckpoint, RunDelivery, CompleteRun, RecordRunFailure,
                        jobsOnly
    <2> QED  BY <1>5, <2>1, <2>2, <2>3, <2>4 DEF WorkerStep, CreateStep, ResumeStep
  <1>6. ASSUME NEW j \in DOMAIN jobs, LeaseLapses(j) \/ RequestJobCancellation(j)
        PROVE  Records'
    BY <1>2, <1>6 DEF Records, LeaseLapses, RequestJobCancellation, jobsOnly
  <1>7. ASSUME NEW k \in ResumeKeys, ResumeRequest(k)
        PROVE  Records'
    <2>1. idem[k] \in KeyStatus
      BY DEF Records, Keys
    <2>2. Reserved(idem[k]) \in KeyStatus
      BY <1>1, <2>1
    <2>3. Completed(Reserved(idem[k])) \in KeyStatus /\ Failed(Reserved(idem[k])) \in KeyStatus
      BY <1>1, <2>2
    <2>4. \/ idem' = [idem EXCEPT ![k] = Completed(Reserved(idem[k]))]
          \/ idem' = [idem EXCEPT ![k] = Reserved(idem[k])]
          \/ idem' = [idem EXCEPT ![k] = Failed(Reserved(idem[k]))]
      BY <1>7 DEF ResumeRequest
    <2>5. UNCHANGED count
      BY <1>7 DEF ResumeRequest
    <2> QED  BY <1>3, <2>2, <2>3, <2>4, <2>5 DEF Records
  <1>8. CASE (\E a \in DOMAIN approvals, d \in {"approve", "reject"} : DecideRead(a, d))
             \/ ResolveApproval \/ RejectRun \/ UNCHANGED vars
    BY <1>4, <1>8 DEF DecideRead, ResolveApproval, RejectRun, vars
  <1> QED  BY <1>5, <1>6, <1>7, <1>8 DEF Next

IInv == Inv /\ Records

LEMMA InitInv == Init => IInv
  <1> SUFFICES ASSUME Init PROVE IInv
    OBVIOUS
  <1>1. JobsTyped /\ RunningAttempted /\ Len(jobs) = 1
    <2>1. Job("create", CreateKey) \in JobRow /\ Job("create", CreateKey).status = "queued"
      BY DEF Job, JobRow, JobStatus, Keys
    <2>2. jobs \in Seq(JobRow) /\ Len(jobs) = 1 /\ DOMAIN jobs = {1}
          /\ jobs[1] = Job("create", CreateKey)
      BY <2>1 DEF Init
    <2> QED  BY <2>1, <2>2 DEF JobsTyped, RunningAttempted
  <1>2. RunInv
    <2>1. approvals \in Seq(AppRow) /\ DOMAIN approvals = {}
      BY DEF Init
    <2> QED  BY <2>1 DEF Init, RunInv, ApprovalsInv, ArtInv, CkptInv, CkptAt, ReviewerInv,
                         NoReview, DeliveredInv, RunStatus, DegradedNeverDelivered
  <1>3. WorkersInv
    <2>1. Free \in WorkerRow /\ Free.pc = "idle" /\ Free.snap.at = "none"
      BY DEF Free, Without, NoSnap, WorkerRow, WorkerPC, CkptAt
    <2>2. Fit(Free, Len(jobs), Len(approvals), Reviewed)
      BY <2>1 DEF Fit
    <2>3. workers = [w \in Workers |-> Free]
      BY DEF Init
    <2> QED  BY <2>1, <2>2, <2>3 DEF WorkersInv
  <1>4. Records
    BY DEF Init, Records, KeyStatus, Reserved, Reservable
  <1> QED  BY <1>1, <1>2, <1>3, <1>4 DEF IInv, Inv

LEMMA NextInv ==
    ASSUME IInv, [Next]_vars
    PROVE  IInv' /\ StepsQueue
  <1> USE DEF IInv
  <1>1. StepsQueue
    BY InvQueue, QueueSteps DEF StepsQueue
  <1>2. Inv'
    <2>1. ASSUME NEW w \in Workers, WorkerStep(w) \/ RenewJobLease(w) \/ Crash(w) \/ Stall(w)
                                      \/ Wake(w)
          PROVE  Inv'
      BY <1>1, <2>1, QueueActions, FaultActions, CreateActions, ResumeActions DEF WorkerStep
    <2> QED  BY <1>1, <2>1, RouteActions DEF Next
  <1>3. Records'
    BY RecordsStep DEF Inv
  <1> QED  BY <1>1, <1>2, <1>3

THEOREM Invariance == Spec => []IInv
  <1>1. IInv /\ [Next]_vars => IInv'
    BY NextInv
  <1> QED  BY InitInv, <1>1, PTL DEF Spec

\* Every variable keeps its type, whatever workers, routes and faults do.
THEOREM TypeCorrect == Spec => []TypeOK
  <1>1. IInv => TypeOK
    <2> SUFFICES ASSUME IInv PROVE TypeOK
      OBVIOUS
    <2>1. delivered \subseteq Nat
      BY ApprovalRows DEF IInv, Inv, RunInv, DeliveredInv
    <2> QED  BY <2>1 DEF IInv, Inv, Records, TypeOK, JobsTyped, JobRow, RunInv, ApprovalsInv,
                 AppRow, ArtInv, CkptInv, ReviewerInv, DeliveredInv, WorkersInv, WorkerRow
  <1> QED  BY <1>1, Invariance, PTL

\* Content that quality assurance has blocked is never delivered.
THEOREM DegradedCorrect == Spec => []DegradedNeverDelivered
  <1>1. IInv => DegradedNeverDelivered
    BY DEF IInv, Inv, RunInv, DeliveredInv
  <1> QED  BY <1>1, Invariance, PTL

\* Nothing is delivered, or about to be, before a human has approved something
\* of the run, and what is delivered of a run that generated once is approved.
THEOREM AuthorisedCorrect == Spec => []DeliveryAuthorised
  <1>1. IInv => DeliveryAuthorised
    <2> SUFFICES ASSUME IInv PROVE DeliveryAuthorised
      OBVIOUS
    <2>1. DeliveredInv /\ DOMAIN approvals = 1..Len(approvals)
      BY ApprovalRows DEF IInv, Inv, RunInv
    <2>2. ASSUME Len(approvals) = 1, NEW g \in delivered
          PROVE  approvals[g].decision = "approve"
      <3>1. DOMAIN approvals = {1} /\ g = 1
        BY <2>1, <2>2 DEF DeliveredInv
      <3> QED  BY <2>1, <2>2, <3>1 DEF DeliveredInv, Reviewed
    <2> QED  BY <2>1, <2>2 DEF DeliveryAuthorised, DeliveredInv, Reviewed
  <1> QED  BY <1>1, Invariance, PTL

-----------------------------------------------------------------------------
(* What becomes of a job                                                   *)

\* What the ledger sees of the table.
SeenOutcome == [j \in JobIds |-> IF j > Len(jobs) THEN "absent"
                                 ELSE IF jobs[j].status \in Open THEN "open"
                                 ELSE jobs[j].status]
SeenAttempts == [j \in JobIds |-> IF j > Len(jobs) THEN 0 ELSE jobs[j].attempts]

LEMMA LedgerSeen ==
    ASSUME JobsTyped, StepsQueue
    PROVE  \/ UNCHANGED <<SeenOutcome, SeenAttempts>>
           \/ \E j \in JobIds :
                /\ SeenOutcome[j] = "absent"
                /\ SeenOutcome' = [SeenOutcome EXCEPT ![j] = "open"]
                /\ UNCHANGED SeenAttempts
           \/ \E j \in JobIds :
                /\ SeenOutcome[j] = "open"
                /\ SeenAttempts' = [SeenAttempts EXCEPT ![j] = @ + 1]
                /\ UNCHANGED SeenOutcome
           \/ \E j \in JobIds, o \in Outcomes :
                /\ SeenOutcome[j] = "open"
                /\ o # "cancelled" => SeenAttempts[j] > 0
                /\ SeenOutcome' = [SeenOutcome EXCEPT ![j] = o]
                /\ UNCHANGED SeenAttempts
  <1>0. /\ DOMAIN jobs = 1..Len(jobs) /\ Len(jobs) \in Nat /\ Len(jobs) <= MaxJobs
        /\ Len(jobs') \in Nat /\ MaxJobs \in Nat /\ DOMAIN jobs \subseteq JobIds
        /\ \A j \in DOMAIN jobs : jobs[j].attempts \in Nat
    <2>1. Len(jobs') \in Nat
      BY LenProperties DEF StepsQueue, JobsTyped
    <2> QED  BY <2>1, JobRows DEF JobsTyped, JobRow
  <1>1. CASE Shuffles
    <2>1. \A j \in JobIds : SeenOutcome'[j] = SeenOutcome[j] /\ SeenAttempts'[j] = SeenAttempts[j]
      BY <1>0, <1>1 DEF Shuffles, SeenOutcome, SeenAttempts, JobIds, Open
    <2> QED  BY <2>1 DEF SeenOutcome, SeenAttempts
  <1>2. CASE Enqueues
    <2> DEFINE n == Len(jobs) + 1
    <2>1. n \in JobIds /\ SeenOutcome[n] = "absent"
      BY <1>0, <1>2 DEF Enqueues, SeenOutcome, JobIds
    <2>2. \A j \in JobIds : SeenOutcome'[j] = (IF j = n THEN "open" ELSE SeenOutcome[j])
      BY <1>0, <1>2 DEF Enqueues, SeenOutcome, JobIds, Open
    <2>3. \A j \in JobIds : SeenAttempts'[j] = SeenAttempts[j]
      BY <1>0, <1>2 DEF Enqueues, SeenAttempts, JobIds
    <2> HIDE DEF n
    <2>4. SeenOutcome' = [SeenOutcome EXCEPT ![n] = "open"] /\ UNCHANGED SeenAttempts
      BY <2>2, <2>3 DEF SeenOutcome, SeenAttempts
    <2> QED  BY <2>1, <2>4
  <1>3. ASSUME NEW i \in DOMAIN jobs, Attempts(i)
        PROVE  /\ i \in JobIds /\ SeenOutcome[i] = "open"
               /\ SeenAttempts' = [SeenAttempts EXCEPT ![i] = @ + 1]
               /\ UNCHANGED SeenOutcome
    <2>1. i \in JobIds /\ SeenOutcome[i] = "open"
      BY <1>0, <1>3 DEF Attempts, SeenOutcome
    <2>2. \A j \in JobIds : SeenOutcome'[j] = SeenOutcome[j]
      BY <1>0, <1>3 DEF Attempts, SeenOutcome, JobIds, Open
    <2>3. \A j \in JobIds : SeenAttempts'[j] =
                              (IF j = i THEN SeenAttempts[i] + 1 ELSE SeenAttempts[j])
      BY <1>0, <1>3 DEF Attempts, SeenAttempts, JobIds
    <2>4. SeenAttempts' = [SeenAttempts EXCEPT ![i] = SeenAttempts[i] + 1]
      BY <2>3 DEF SeenAttempts
    <2> QED  BY <2>1, <2>2, <2>4 DEF SeenOutcome
  <1>4. ASSUME NEW i \in DOMAIN jobs, NEW o \in Outcomes, Settles(i, o)
        PROVE  /\ i \in JobIds /\ SeenOutcome[i] = "open"
               /\ o # "cancelled" => SeenAttempts[i] > 0
               /\ SeenOutcome' = [SeenOutcome EXCEPT ![i] = o]
               /\ UNCHANGED SeenAttempts
    <2>1. i \in JobIds /\ SeenOutcome[i] = "open" /\ (o # "cancelled" => SeenAttempts[i] > 0)
      BY <1>0, <1>4 DEF Settles, SeenOutcome, SeenAttempts
    <2>2. \A j \in JobIds : SeenAttempts'[j] = SeenAttempts[j]
      BY <1>0, <1>4 DEF Settles, SeenAttempts, JobIds
    <2>3. \A j \in JobIds : SeenOutcome'[j] = (IF j = i THEN o ELSE SeenOutcome[j])
      BY <1>0, <1>4 DEF Settles, SeenOutcome, JobIds, Open, Outcomes
    <2>4. SeenOutcome' = [SeenOutcome EXCEPT ![i] = o]
      BY <2>3 DEF SeenOutcome
    <2> QED  BY <2>1, <2>2, <2>4 DEF SeenAttempts
  <1> QED  BY <1>1, <1>2, <1>3, <1>4 DEF StepsQueue, QueueStep

\* The queue implements the ledger: a job is settled once and a settled job is
\* never attempted again.
THEOREM LedgerCorrect == Spec => JobsKeepLedger
  <1>1. Init => Ledger!Init
    <2> SUFFICES ASSUME Init PROVE Ledger!Init
      OBVIOUS
    <2>1. Len(jobs) = 1 /\ jobs[1].status = "queued" /\ jobs[1].attempts = 0
      BY DEF Init, Job
    <2> QED  BY <2>1 DEF Ledger!Init, JobIds
  <1>2. IInv /\ [Next]_vars => [Ledger!Next]_(Ledger!ledger)
    <2> SUFFICES ASSUME IInv, [Next]_vars PROVE [Ledger!Next]_(Ledger!ledger)
      OBVIOUS
    <2>1. StepsQueue /\ JobsTyped
      BY NextInv DEF IInv, Inv
    <2> QED  BY <2>1, LedgerSeen
             DEF SeenOutcome, SeenAttempts, Open, Outcomes, Ledger!Next, Ledger!Enqueue,
                 Ledger!Attempt, Ledger!Settle, Ledger!Outcome, Ledger!ledger
  <1> QED  BY <1>1, <1>2, Invariance, PTL DEF Spec, JobsKeepLedger, Ledger!Spec

\* Who may take a running job out of "running".
Held(j) == \/ jobs[j].lease = "lapsed" /\ jobs'[j].status = "queued"
           \/ jobs'[j].status = "cancelled"
           \/ \E w \in Workers : /\ workers[w].job = j /\ workers[w].token = jobs[j].attempts
                                 /\ workers[w].pc \in {"finish", "raise"}
                                 /\ workers'[w].pc = "claim"

\* A job leaves "running" by the holder of its current attempt, by the sweep of
\* a lapsed lease, or by the operator.
THEOREM SettledCorrect == Spec => SettledByHolder
  <1>1. ASSUME IInv, [Next]_vars, NEW j \in DOMAIN jobs, jobs[j].status = "running",
               jobs'[j].status # "running"
        PROVE  Held(j)
    <2> USE DEF IInv, Inv
    <2>0. JobsTyped /\ WorkersInv /\ DOMAIN jobs = 1..Len(jobs) /\ Len(jobs) \in Nat
      BY <1>1, JobRows
    <2>m. ASSUME NEW i \in DOMAIN jobs, NEW s \in JobStatus, NEW l \in {"none", "live", "lapsed"},
                 jobs' = Move(i, s, l)
          PROVE  i = j /\ jobs'[j].status = s
      <3> DEFINE r == Moved(i, s, l)
      <3>1. r \in JobRow /\ r.status = s
        BY <2>0, MovedRow
      <3>2. Replaces(i, r)
        BY <2>m DEF Move, Replaces
      <3> HIDE DEF r
      <3>3. jobs'[i] = r /\ \A k \in DOMAIN jobs \ {i} : jobs'[k] = jobs[k]
        BY <2>0, <3>1, <3>2, Replaced
      <3> QED  BY <1>1, <3>1, <3>3
    <2>1. ASSUME NEW w \in Workers, CompleteJob(w) \/ FailJob(w)
          PROVE  Held(j)
      <3>1. workers[w].job \in DOMAIN jobs
        BY <2>0, <2>1 DEF CompleteJob, FailJob, At, WorkersInv, Fit
      <3>2. workers[w].pc \in {"finish", "raise"} /\ workers'[w].pc = "claim"
        BY <2>0, <2>1 DEF CompleteJob, FailJob, At, NextJob, Without, WorkersInv
      <3>3. CASE Fenced(w)
        <4>1. PICK s \in JobStatus : jobs' = Move(workers[w].job, s, "none")
          BY <2>1, <3>3 DEF CompleteJob, FailJob, JobStatus
        <4>2. workers[w].job = j
          BY <2>m, <3>1, <4>1
        <4> QED  BY <3>2, <3>3, <4>2 DEF Fenced, Running, Held
      <3>4. CASE ~Fenced(w)
        BY <1>1, <2>1, <3>4 DEF CompleteJob, FailJob
      <3> QED  BY <3>3, <3>4
    <2>2. ASSUME NEW w \in Workers, ExpireStaleLeases(w)
          PROVE  Held(j)
      <3>1. jobs'[j] = IF jobs[j].status = "running" /\ jobs[j].lease = "lapsed"
                       THEN Moved(j, "queued", "none") ELSE jobs[j]
        BY <2>2 DEF ExpireStaleLeases
      <3> QED  BY <1>1, <3>1 DEF Moved, Held
    <2>3. ASSUME NEW w \in Workers, ClaimJob(w)
          PROVE  Held(j)
      <3>1. jobs'[j] = jobs[j]
        BY <1>1, <2>3 DEF ClaimJob, Queued
      <3> QED  BY <1>1, <3>1
    <2>4. ASSUME NEW i \in DOMAIN jobs, LeaseLapses(i)
          PROVE  Held(j)
      BY <1>1, <2>m, <2>4 DEF LeaseLapses, JobStatus
    <2>5. ASSUME NEW i \in DOMAIN jobs, RequestJobCancellation(i)
          PROVE  Held(j)
      BY <2>m, <2>5 DEF RequestJobCancellation, JobStatus, Held
    <2>6. ASSUME NEW w \in Workers, RenewJobLease(w)
          PROVE  Held(j)
      <3>1. workers[w].job \in DOMAIN jobs /\ jobs' = Move(workers[w].job, "running", "live")
        BY <2>0, <2>6 DEF RenewJobLease, Beating, WorkersInv, Fit
      <3> QED  BY <1>1, <2>m, <3>1 DEF JobStatus
    <2>7. ASSUME NEW k \in ResumeKeys, ResumeRequest(k)
          PROVE  Held(j)
      <3>1. CASE jobs' = Append(jobs, Job("resume", k))
        <4>1. Job("resume", k) \in JobRow
          BY DEF Job, JobRow, JobStatus, Keys
        <4>2. jobs'[j] = jobs[j]
          BY <2>0, <3>1, <4>1, AppendProperties DEF JobsTyped
        <4> QED  BY <1>1, <4>2
      <3> QED  BY <1>1, <2>7, <3>1 DEF ResumeRequest
    <2>8. CASE UNCHANGED jobs
      BY <1>1, <2>8
    <2>9. ASSUME NEW w \in Workers, WorkerStep(w) \/ RenewJobLease(w) \/ Crash(w) \/ Stall(w)
                                      \/ Wake(w)
          PROVE  Held(j)
      <3>1. CASE CreateStep(w)
        BY <2>8, <3>1
           DEF CreateStep, EnsureRunRunning, ReviveRun, RunGraph, GraphRaises, AwaitApproval
      <3>2. CASE ResumeStep(w)
        BY <2>8, <3>2
           DEF ResumeStep, ReleaseGuards, BeginDelivery, LoadCheckpoint, RunDelivery,
               DeliveryRaises, CompleteRun, RecordRunFailure, FailKey
      <3>3. CASE QueueEmpty(w) \/ StartJob(w) \/ SettleKey(w) \/ Crash(w) \/ Stall(w) \/ Wake(w)
        BY <2>8, <3>3 DEF QueueEmpty, StartJob, SettleKey, Crash, Stall, Wake
      <3> QED  BY <2>1, <2>2, <2>3, <2>6, <2>9, <3>1, <3>2, <3>3 DEF WorkerStep
    <2> QED  BY <1>1, <2>4, <2>5, <2>7, <2>8, <2>9
             DEF Next, DecideRead, ResolveApproval, RejectRun, vars
  <1>2. IInv /\ [Next]_vars =>
          [\A j \in DOMAIN jobs : jobs[j].status = "running" /\ jobs'[j].status # "running" =>
              \/ jobs[j].lease = "lapsed" /\ jobs'[j].status = "queued"
              \/ jobs'[j].status = "cancelled"
              \/ \E w \in Workers :
                   /\ workers[w].job = j /\ workers[w].token = jobs[j].attempts
                   /\ workers[w].pc \in {"finish", "raise"}
                   /\ workers'[w].pc = "claim"]_vars
    BY <1>1 DEF Held
  <1> QED  BY <1>2, Invariance, PTL DEF Spec, SettledByHolder

-----------------------------------------------------------------------------
(* Attempts, and what they generate                                        *)

CreateOnly == {"ensure", "revive", "graph", "await"}
ResumeOnly == {"guard", "cas", "load", "node", "complete", "runfail", "keyfail"}

\* A step of a worker at its job.
Advances(w) ==
  LET from == workers[w].pc
      to == workers'[w].pc
  IN \/ from = "start" /\ jobs[workers[w].job].kind = "create" /\ to = "ensure"
     \/ from = "start" /\ jobs[workers[w].job].kind # "create" /\ to = "guard"
     \/ from \in {"ensure", "revive"} /\ to \in {"revive", "graph", "raise"}
     \/ from = "graph" /\ to = "await" /\ RunGraph(w)
     \/ from = "graph" /\ to = "raise"
     \/ from = "await" /\ to = "settle"
     \/ from = "settle" /\ to = "finish"
     \/ from \in ResumeOnly /\ to \in (ResumeOnly \ {"node"}) \cup {"settle", "finish", "raise"}
     \/ from = "load" /\ to = "node" /\ workers'[w].snap = ckpt

Stays(w) == workers'[w].pc = workers[w].pc /\ workers'[w].snap = workers[w].snap

\* A worker that goes on has its job and token, and is at pc.
LEMMA Carried ==
    ASSUME WorkersInv, NEW w \in Workers, NEW pc, NEW seen, NEW snap, Carry(w, pc, seen, snap)
    PROVE  /\ workers'[w].pc = pc /\ workers'[w].snap = snap
           /\ workers'[w].job = workers[w].job /\ workers'[w].token = workers[w].token
           /\ \A v \in Workers \ {w} : workers'[v] = workers[v]
  BY DEF WorkersInv, Carry

LEMMA Gone ==
    ASSUME WorkersInv, NEW w \in Workers, NEW pc, Goto(w, pc)
    PROVE  /\ workers'[w].pc = pc
           /\ workers'[w].job = workers[w].job /\ workers'[w].token = workers[w].token
           /\ \A v \in Workers \ {w} : workers'[v] = workers[v]
  BY Carried DEF Goto

\* Who is busy after a step has claimed a job or was busy with it before.
LEMMA BusySteps ==
    ASSUME Inv, NEW v \in Workers, WorkerStep(v), NEW w \in Workers, Busy(w)'
    PROVE  \/ w = v /\ ClaimJob(w)
           \/ /\ Busy(w) /\ workers'[w].job = workers[w].job /\ workers'[w].token = workers[w].token
              /\ Stays(w) \/ Advances(w)
  <1>0. WorkersInv
    BY DEF Inv
  <1> DEFINE Kept1 == /\ Busy(w) /\ workers'[w].job = workers[w].job
                      /\ workers'[w].token = workers[w].token
                      /\ Stays(w) \/ Advances(w)
  <1>a. ASSUME w # v, \E r : workers' = [workers EXCEPT ![v] = r]
        PROVE  Kept1
    BY <1>0, <1>a DEF WorkersInv, Busy, Stays
  <1>b. ASSUME NEW pc, NEW seen, NEW snap, Carry(v, pc, seen, snap), w # v
        PROVE  Kept1
    BY <1>a, <1>b DEF Carry
  <1>c. ASSUME NEW pc, Goto(v, pc), w # v
        PROVE  Kept1
    BY <1>b, <1>c DEF Goto
  <1>1. CASE ExpireStaleLeases(v)
    BY <1>0, <1>1, <1>c, Gone DEF ExpireStaleLeases, Busy
  <1>2. CASE ClaimJob(v)
    BY <1>2, <1>a DEF ClaimJob
  <1>3. CASE QueueEmpty(v)
    <2>1. w # v
      BY <1>0, <1>3 DEF QueueEmpty, Free, Without, WorkersInv, Busy
    <2> QED  BY <1>3, <1>a, <2>1 DEF QueueEmpty
  <1>n. ASSUME NextJob(v) PROVE Kept1
    <2>1. w # v
      BY <1>0, <1>n DEF NextJob, Without, WorkersInv, Busy
    <2> QED  BY <1>n, <1>a, <2>1 DEF NextJob
  <1>4. CASE StartJob(v)
    <2>1. workers[v].pc = "start"
      BY <1>4 DEF StartJob, At
    <2>2. CASE jobs[workers[v].job].kind = "create" /\ Goto(v, "ensure")
      BY <1>0, <1>c, <2>1, <2>2, Gone DEF Advances, Busy
    <2>3. CASE jobs[workers[v].job].kind # "create" /\ Goto(v, "guard")
      BY <1>0, <1>c, <2>1, <2>3, Gone DEF Advances, Busy
    <2> QED  BY <1>4, <1>n, <2>2, <2>3 DEF StartJob
  <1>5. CASE CompleteJob(v) \/ FailJob(v)
    BY <1>5, <1>n DEF CompleteJob, FailJob
  <1>6. CASE SettleKey(v)
    BY <1>0, <1>6, <1>c, Gone DEF SettleKey, At, Advances, Busy
  <1>7. CASE CreateStep(v)
    <2>1. CASE EnsureRunRunning(v)
      <3>1. PICK pc \in {"graph", "revive"} : \E seen : Carry(v, pc, seen, NoSnap)
        BY <2>1 DEF EnsureRunRunning, Goto
      <3>2. PICK seen : Carry(v, pc, seen, NoSnap)
        BY <3>1
      <3> QED  BY <1>0, <1>b, <2>1, <3>2, Carried DEF EnsureRunRunning, At, Advances, Busy
    <2>2. CASE ReviveRun(v)
      <3>1. PICK pc \in {"graph", "raise"} : Goto(v, pc)
        BY <2>2 DEF ReviveRun
      <3> QED  BY <1>0, <1>c, <2>2, <3>1, Gone DEF ReviveRun, At, Advances, Busy
    <2>3. CASE RunGraph(v)
      <3>1. Goto(v, "await") /\ workers[v].pc = "graph"
        BY <2>3 DEF RunGraph, At
      <3> QED  BY <1>0, <1>c, <2>3, <3>1, Gone DEF Advances, Busy
    <2>4. CASE GraphRaises(v)
      BY <1>0, <1>c, <2>4, Gone DEF GraphRaises, At, Advances, Busy
    <2>5. CASE AwaitApproval(v)
      BY <1>0, <1>c, <2>5, Gone DEF AwaitApproval, At, Advances, Busy
    <2> QED  BY <1>7, <2>1, <2>2, <2>3, <2>4, <2>5 DEF CreateStep
  <1>8. CASE ResumeStep(v)
    <2>1. CASE LoadCheckpoint(v)
      BY <1>0, <1>b, <2>1, Carried DEF LoadCheckpoint, At, Advances, Busy
    <2>2. CASE ~LoadCheckpoint(v)
      <3>1. PICK pc \in (ResumeOnly \ {"node"}) \cup {"settle", "finish", "raise"} : Goto(v, pc)
        BY <1>8, <2>2
           DEF ResumeStep, ReleaseGuards, BeginDelivery, RunDelivery, DeliveryRaises,
               CompleteRun, RecordRunFailure, FailKey, ResumeOnly
      <3>2. workers[v].pc \in ResumeOnly
        BY <1>8
           DEF ResumeStep, ReleaseGuards, BeginDelivery, LoadCheckpoint, RunDelivery, DeliveryRaises,
               CompleteRun, RecordRunFailure, FailKey, ResumeOnly, At
      <3> QED  BY <1>0, <1>c, <3>1, <3>2, Gone DEF Advances, Busy, ResumeOnly
    <2> QED  BY <2>1, <2>2
  <1> QED  BY <1>1, <1>2, <1>3, <1>4, <1>5, <1>6, <1>7, <1>8 DEF WorkerStep

\* The same of any step.
LEMMA BusyBefore ==
    ASSUME Inv, [Next]_vars, NEW w \in Workers, Busy(w)'
    PROVE  \/ ClaimJob(w)
           \/ /\ Busy(w) /\ workers'[w].job = workers[w].job /\ workers'[w].token = workers[w].token
              /\ Stays(w) \/ Advances(w)
  <1>0. workers \in [Workers -> WorkerRow]
    BY DEF Inv, WorkersInv
  <1>1. ASSUME NEW v \in Workers, Crash(v) \/ Stall(v) \/ Wake(v) \/ RenewJobLease(v)
        PROVE  Busy(w) /\ workers'[w].job = workers[w].job /\ workers'[w].token = workers[w].token /\ Stays(w)
    <2>1. CASE Crash(v)
      BY <1>0, <2>1 DEF Crash, Free, Without, Busy, Stays
    <2>2. CASE Stall(v) \/ Wake(v)
      <3>1. \E b \in BOOLEAN : workers' = [workers EXCEPT ![v].stalled = b]
        BY <2>2 DEF Stall, Wake
      <3> QED  BY <1>0, <3>1 DEF Busy, Stays, WorkerRow
    <2>3. CASE RenewJobLease(v)
      BY <2>3 DEF RenewJobLease, Busy, Stays
    <2> QED  BY <1>1, <2>1, <2>2, <2>3
  <1>2. CASE UNCHANGED workers
    BY <1>2 DEF Busy, Stays
  <1> QED  BY <1>1, <1>2, BusySteps
           DEF Next, LeaseLapses, RequestJobCancellation, ResumeRequest, DecideRead, ResolveApproval,
               RejectRun, vars

\* Attempts are only ever added, and no job is lost.
LEMMA AttemptsGrow ==
    ASSUME JobsTyped, StepsQueue, NEW j \in DOMAIN jobs
    PROVE  /\ j \in DOMAIN jobs' /\ jobs[j].attempts \in Nat /\ jobs'[j].attempts \in Nat
           /\ jobs'[j].attempts >= jobs[j].attempts
  <1>1. /\ DOMAIN jobs = 1..Len(jobs) /\ Len(jobs) \in Nat
        /\ jobs[j].attempts \in Nat
    BY JobRows DEF JobRow
  <1>2. DOMAIN jobs' = 1..Len(jobs') /\ Len(jobs') \in Nat
    BY LenProperties DEF StepsQueue, JobsTyped
  <1>3. CASE Shuffles
    BY <1>1, <1>3 DEF Shuffles
  <1>4. CASE Enqueues
    BY <1>1, <1>2, <1>4 DEF Enqueues
  <1>5. ASSUME NEW i \in DOMAIN jobs, Attempts(i) \/ \E o \in Outcomes : Settles(i, o)
        PROVE  j \in DOMAIN jobs' /\ jobs'[j].attempts \in {jobs[j].attempts, jobs[j].attempts + 1}
    BY <1>5 DEF Attempts, Settles
  <1> QED  BY <1>1, <1>3, <1>4, <1>5 DEF StepsQueue, QueueStep

\* A claim charges a new attempt and issues its token.
LEMMA Claimed ==
    ASSUME Inv, NEW w \in Workers, ClaimJob(w)
    PROVE  \E j \in DOMAIN jobs :
             /\ workers'[w].job = j /\ workers'[w].pc = "start" /\ workers'[w].snap = NoSnap
             /\ workers'[w].token = jobs[j].attempts + 1
             /\ jobs'[j].attempts = jobs[j].attempts + 1
             /\ jobs'[j].kind = jobs[j].kind
             /\ \A i \in DOMAIN jobs \ {j} : jobs'[i] = jobs[i]
             /\ \A v \in Workers \ {w} : workers'[v] = workers[v]
  <1>1. PICK j \in Queued :
          /\ jobs' = [jobs EXCEPT ![j] = [kind |-> jobs[j].kind, key |-> jobs[j].key,
                                          status |-> "running", lease |-> "live",
                                          attempts |-> jobs[j].attempts + 1]]
          /\ workers' = [workers EXCEPT ![w] = [pc |-> "start", job |-> j,
                                                token |-> jobs[j].attempts + 1, seen |-> "none",
                                                snap |-> NoSnap, stalled |-> FALSE]]
    BY DEF ClaimJob
  <1>2. j \in DOMAIN jobs /\ workers \in [Workers -> WorkerRow]
    BY DEF Queued, Inv, WorkersInv
  <1>3. jobs'[j] = [kind |-> jobs[j].kind, key |-> jobs[j].key, status |-> "running",
                    lease |-> "live", attempts |-> jobs[j].attempts + 1]
        /\ \A i \in DOMAIN jobs \ {j} : jobs'[i] = jobs[i]
    <2> DEFINE r == [kind |-> jobs[j].kind, key |-> jobs[j].key, status |-> "running",
                     lease |-> "live", attempts |-> jobs[j].attempts + 1]
    <2>1. r \in JobRow
      BY <1>2, JobRows DEF Inv, JobRow, JobStatus
    <2>2. Replaces(j, r)
      BY <1>1 DEF Replaces
    <2> HIDE DEF r
    <2>3. jobs'[j] = r /\ \A i \in DOMAIN jobs \ {j} : jobs'[i] = jobs[i]
      BY <1>2, <2>1, <2>2, Replaced DEF Inv
    <2> QED  BY <2>3 DEF r
  <1> QED  BY <1>1, <1>2, <1>3

LEMMA NextAttempts ==
    ASSUME IInv, AttemptExclusive, [Next]_vars
    PROVE  AttemptExclusive'
  <1> USE DEF IInv
  <1>0. StepsQueue /\ JobsTyped
    BY NextInv DEF Inv
  <1>1. \A w \in Workers : Busy(w) => workers[w].job \in DOMAIN jobs
    BY <1>0, JobRows DEF Inv, WorkersInv, Fit, Busy
  <1> DEFINE Same(w) == /\ Busy(w) /\ workers'[w].job = workers[w].job
                        /\ workers'[w].token = workers[w].token
  <1>2. \A w \in Workers : Busy(w)' => ClaimJob(w) \/ Same(w)
    BY BusyBefore
  <1>3. ASSUME NEW w \in Workers, Same(w)
        PROVE  workers'[w].token \in 1..jobs'[workers'[w].job].attempts
    BY <1>0, <1>1, <1>3, AttemptsGrow DEF AttemptExclusive
  <1>4. ASSUME NEW w \in Workers, ClaimJob(w)
        PROVE  /\ workers'[w].token \in 1..jobs'[workers'[w].job].attempts
               /\ \A v \in Workers \ {w} : Busy(v)' /\ workers'[v].job = workers'[w].job =>
                      workers'[v].token # workers'[w].token
    <2>1. PICK j \in DOMAIN jobs :
             /\ workers'[w].job = j
             /\ workers'[w].token = jobs[j].attempts + 1
             /\ jobs'[j].attempts = jobs[j].attempts + 1
             /\ \A v \in Workers \ {w} : workers'[v] = workers[v]
      BY <1>4, Claimed
    <2>2. jobs[j].attempts \in Nat
      BY <1>0, AttemptsGrow
    <2>3. ASSUME NEW v \in Workers \ {w}, Busy(v)', workers'[v].job = workers'[w].job
          PROVE  workers'[v].token # workers'[w].token
      <3>1. Busy(v) /\ workers[v].job = j /\ workers'[v].token = workers[v].token
        BY <2>1, <2>3 DEF Busy
      <3>2. workers[v].token \in 1..jobs[j].attempts
        BY <3>1 DEF AttemptExclusive
      <3> QED  BY <2>1, <2>2, <3>1, <3>2
    <2> QED  BY <2>1, <2>2, <2>3
  <1>5. ASSUME NEW v \in Workers, NEW w \in Workers \ {v}, Same(v), Same(w),
               workers'[v].job = workers'[w].job
        PROVE  workers'[v].token # workers'[w].token
    BY <1>5 DEF AttemptExclusive
  <1> HIDE DEF Same
  <1>6. ASSUME NEW w \in Workers, Busy(w)', NEW v \in Workers \ {w}, Busy(v)',
               workers'[v].job = workers'[w].job
        PROVE  workers'[v].token # workers'[w].token
    BY <1>2, <1>4, <1>5, <1>6
  <1> QED  BY <1>2, <1>3, <1>4, <1>6 DEF AttemptExclusive, Busy

\* Whatever workers die, stall and come back, an attempt has one worker.
THEOREM AttemptsCorrect == Spec => []AttemptExclusive
  <1>1. Init => AttemptExclusive
    BY DEF Init, AttemptExclusive, Busy, Free, Without
  <1>2. IInv /\ AttemptExclusive /\ [Next]_vars => AttemptExclusive'
    BY NextAttempts
  <1> QED  BY <1>1, <1>2, Invariance, PTL DEF Spec

\* The first job is the create job, every other one a resume job, and a worker
\* takes the steps of its own kind only.
Kinds == /\ 1 \in DOMAIN jobs
         /\ \A j \in DOMAIN jobs : jobs[j].kind = (IF j = 1 THEN "create" ELSE "resume")
         /\ \A w \in Workers : /\ workers[w].pc \in CreateOnly => workers[w].job = 1
                               /\ workers[w].pc \in ResumeOnly => workers[w].job # 1

\* Until the create job is claimed again nothing has been generated, and there is
\* nothing to decide or to resume, ...
Ungenerated == /\ approvals = <<>> /\ Len(jobs) = 1 /\ run \in {"queued", "running"}
               /\ \A w \in Workers : workers[w].pc \notin {"await", "settle", "finish"}

\* ... or there is one content, and nobody is on the way to another.
GeneratedOnce == /\ Len(approvals) = 1 /\ ckpt.at \in {"paused", "done"} /\ jobs[1].attempts = 1
                 /\ \A w \in Workers :
                      /\ Busy(w) /\ workers[w].job = 1 => workers[w].pc \in {"await", "settle", "finish"}
                      /\ workers[w].pc = "node" => workers[w].snap.at \in {"paused", "done"}

Once == jobs[1].attempts <= 1 => Ungenerated \/ GeneratedOnce

\* A job keeps its kind, and a new one resumes a run that waits for it.
LEMMA KindsKept ==
    ASSUME Inv, [Next]_vars
    PROVE  \/ /\ DOMAIN jobs' = DOMAIN jobs /\ Len(jobs') = Len(jobs)
              /\ \A j \in DOMAIN jobs : jobs'[j].kind = jobs[j].kind
           \/ /\ run = "needs_approval" /\ Len(jobs') = Len(jobs) + 1
              /\ DOMAIN jobs' = DOMAIN jobs \cup {Len(jobs) + 1} /\ Len(jobs) + 1 \notin DOMAIN jobs
              /\ \A j \in DOMAIN jobs : jobs'[j] = jobs[j]
              /\ jobs'[Len(jobs) + 1].kind = "resume"
  <1> DEFINE Same == /\ DOMAIN jobs' = DOMAIN jobs /\ Len(jobs') = Len(jobs)
                     /\ \A j \in DOMAIN jobs : jobs'[j].kind = jobs[j].kind
  <1>0. /\ JobsTyped /\ WorkersInv /\ DOMAIN jobs = 1..Len(jobs) /\ Len(jobs) \in Nat
        /\ \A w \in Workers : Busy(w) => workers[w].job \in DOMAIN jobs
    BY JobRows DEF Inv, WorkersInv, Fit, Busy
  <1>u. CASE UNCHANGED jobs
    BY <1>u
  <1>m. ASSUME NEW i \in DOMAIN jobs, NEW s \in JobStatus, NEW l \in {"none", "live", "lapsed"},
               jobs' = Move(i, s, l)
        PROVE  Same
    <2> DEFINE r == Moved(i, s, l)
    <2>1. r \in JobRow /\ r.kind = jobs[i].kind
      BY <1>0, MovedRow DEF Moved
    <2>2. Replaces(i, r)
      BY <1>m DEF Move, Replaces
    <2> HIDE DEF r
    <2> QED  BY <1>0, <2>1, <2>2, Replaced
  <1>1. ASSUME NEW w \in Workers, ExpireStaleLeases(w)
        PROVE  Same
    <2>1. jobs' = [j \in 1..Len(jobs) |->
                     IF jobs[j].status = "running" /\ jobs[j].lease = "lapsed"
                     THEN Moved(j, "queued", "none") ELSE jobs[j]]
      BY <1>0, <1>1 DEF ExpireStaleLeases
    <2>2. DOMAIN jobs' = DOMAIN jobs /\ \A j \in DOMAIN jobs : jobs'[j].kind = jobs[j].kind
      BY <1>0, <2>1 DEF Moved
    <2>3. Len(jobs') = Len(jobs)
      BY <1>0, <2>1
    <2> QED  BY <2>2, <2>3
  <1>2. ASSUME NEW w \in Workers, ClaimJob(w)
        PROVE  Same
    <2>1. StepsQueue
      BY InvQueue, QueueSteps DEF StepsQueue
    <2>2. PICK j \in DOMAIN jobs : /\ jobs'[j].kind = jobs[j].kind
                                   /\ \A i \in DOMAIN jobs \ {j} : jobs'[i] = jobs[i]
      BY <1>2, Claimed
    <2>3. DOMAIN jobs' = DOMAIN jobs
      BY <1>2 DEF ClaimJob
    <2>4. DOMAIN jobs' = 1..Len(jobs') /\ Len(jobs') \in Nat
      BY <2>1, LenProperties DEF StepsQueue, JobsTyped
    <2> QED  BY <1>0, <2>2, <2>3, <2>4
  <1>3. ASSUME NEW w \in Workers, CompleteJob(w) \/ FailJob(w) \/ RenewJobLease(w)
        PROVE  Same
    <2>1. workers[w].job \in DOMAIN jobs
      BY <1>0, <1>3 DEF CompleteJob, FailJob, RenewJobLease, At, Beating, Busy
    <2>2. UNCHANGED jobs \/ \E s \in JobStatus, l \in {"none", "live", "lapsed"} : jobs' = Move(workers[w].job, s, l)
      BY <1>3 DEF CompleteJob, FailJob, RenewJobLease, JobStatus
    <2> QED  BY <1>m, <2>1, <2>2
  <1>4. ASSUME NEW i \in DOMAIN jobs, LeaseLapses(i) \/ RequestJobCancellation(i)
        PROVE  Same
    <2>1. \E s \in JobStatus, l \in {"none", "live", "lapsed"} : jobs' = Move(i, s, l)
      BY <1>4 DEF LeaseLapses, RequestJobCancellation, JobStatus
    <2> QED  BY <1>m, <2>1
  <1>5. ASSUME NEW k \in ResumeKeys, ResumeRequest(k), jobs' # jobs
        PROVE  /\ run = "needs_approval" /\ Len(jobs') = Len(jobs) + 1
               /\ DOMAIN jobs' = DOMAIN jobs \cup {Len(jobs) + 1} /\ Len(jobs) + 1 \notin DOMAIN jobs
               /\ \A j \in DOMAIN jobs : jobs'[j] = jobs[j]
               /\ jobs'[Len(jobs) + 1].kind = "resume"
    <2>1. run = "needs_approval" /\ jobs' = Append(jobs, Job("resume", k))
      BY <1>5 DEF ResumeRequest
    <2>2. Job("resume", k) \in JobRow /\ Job("resume", k).kind = "resume"
      BY DEF Job, JobRow, JobStatus, Keys
    <2>3. /\ jobs' \in Seq(JobRow) /\ Len(jobs') = Len(jobs) + 1
          /\ \A j \in 1..Len(jobs) : jobs'[j] = jobs[j]
          /\ jobs'[Len(jobs) + 1] = Job("resume", k)
      BY <1>0, <2>1, <2>2, AppendProperties DEF JobsTyped
    <2>4. DOMAIN jobs' = 1..Len(jobs')
      BY <2>3, LenProperties
    <2> QED  BY <1>0, <2>1, <2>2, <2>3, <2>4
  <1>6. ASSUME NEW w \in Workers, WorkerStep(w), jobs' # jobs
        PROVE  ExpireStaleLeases(w) \/ ClaimJob(w) \/ CompleteJob(w) \/ FailJob(w)
    BY <1>6
       DEF WorkerStep, QueueEmpty, StartJob, SettleKey, CreateStep, EnsureRunRunning, ReviveRun, RunGraph,
           GraphRaises, AwaitApproval, ResumeStep, ReleaseGuards, BeginDelivery, LoadCheckpoint, RunDelivery,
           DeliveryRaises, CompleteRun, RecordRunFailure, FailKey
  <1>7. ASSUME NEW w \in Workers, Crash(w) \/ Stall(w) \/ Wake(w)
        PROVE  UNCHANGED jobs
    BY <1>7 DEF Crash, Stall, Wake
  <1>8. CASE (\E a \in DOMAIN approvals, d \in {"approve", "reject"} : DecideRead(a, d))
             \/ ResolveApproval \/ RejectRun \/ UNCHANGED vars
    BY <1>8, <1>u DEF DecideRead, ResolveApproval, RejectRun, vars
  <1> QED  BY <1>u, <1>1, <1>2, <1>3, <1>4, <1>5, <1>6, <1>7, <1>8 DEF Next

LEMMA NextKinds ==
    ASSUME Inv, Kinds, [Next]_vars
    PROVE  Kinds'
  <1>0. \A w \in Workers : Busy(w) => workers[w].job \in DOMAIN jobs
    BY JobRows DEF Inv, WorkersInv, Fit, Busy
  <1>1. 1 \in DOMAIN jobs' /\ \A j \in DOMAIN jobs' : jobs'[j].kind = (IF j = 1 THEN "create" ELSE "resume")
    BY KindsKept DEF Kinds
  <1>2. ASSUME NEW w \in Workers, workers'[w].pc \in CreateOnly \cup ResumeOnly
        PROVE  /\ workers'[w].pc \in CreateOnly => workers'[w].job = 1
               /\ workers'[w].pc \in ResumeOnly => workers'[w].job # 1
    <2>1. Busy(w)'
      BY <1>2 DEF Busy, CreateOnly, ResumeOnly
    <2>2. CASE ClaimJob(w)
      <3>1. workers'[w].pc = "start"
        BY <2>2, Claimed
      <3> QED  BY <3>1 DEF CreateOnly, ResumeOnly
    <2>3. CASE Busy(w) /\ workers'[w].job = workers[w].job /\ Stays(w)
      BY <2>3 DEF Stays, Kinds
    <2>4. CASE Busy(w) /\ workers'[w].job = workers[w].job /\ Advances(w)
      BY <1>0, <1>2, <2>4 DEF Advances, Kinds, CreateOnly, ResumeOnly
    <2> QED  BY <2>1, <2>2, <2>3, <2>4, BusyBefore
  <1> QED  BY <1>1, <1>2 DEF Kinds

\* Who generates: a worker that executes the graph, or one that resumes a thread
\* left part-way.
Generating(w) == \/ RunGraph(w)
                 \/ workers[w].pc = "node" /\ workers[w].snap.at \notin {"paused", "done"}

\* Every other step keeps the number of contents, and a thread that waits or has
\* finished goes on waiting or has finished.
LEMMA GenerationSteps ==
    ASSUME Inv, [Next]_vars, \A w \in Workers : ~Generating(w)
    PROVE  /\ Len(approvals') = Len(approvals)
           /\ \/ ckpt'.at \in {ckpt.at, "done"}
              \/ \E w \in Workers : workers[w].pc = "graph"
  <1> DEFINE Good == /\ Len(approvals') = Len(approvals)
                     /\ \/ ckpt'.at \in {ckpt.at, "done"}
                        \/ \E w \in Workers : workers[w].pc = "graph"
  <1>0. RunInv /\ WorkersInv /\ ApprovalsInv /\ ReviewerInv
    BY DEF Inv, RunInv
  <1>u. CASE UNCHANGED <<approvals, ckpt>>
    BY <1>u
  <1>1. ASSUME NEW w \in Workers, AwaitApproval(w) \/ CompleteRun(w)
        PROVE  Good
    <2>1. approvals # <<>> /\ StoreContent(ckpt.gen, approvals) /\ UNCHANGED ckpt
      <3>1. Fit(workers[w], Len(jobs), Len(approvals), Reviewed) /\ workers[w].pc \in {"await", "complete"}
        BY <1>0, <1>1 DEF WorkersInv, AwaitApproval, CompleteRun, At
      <3>2. Len(approvals) > 0
        BY <3>1 DEF Fit
      <3> QED  BY <1>0, <1>1, <3>2, ApprovalRows DEF AwaitApproval, CompleteRun
    <2>2. ckpt.gen \in DOMAIN approvals
      BY <1>0, <2>1 DEF RunInv, CkptInv
    <2> QED  BY <1>0, <2>1, <2>2, ContentStored DEF RunInv
  <1>2. CASE ResolveApproval
    <2> DEFINE a == reviewer.approval
    <2>0. a \in DOMAIN approvals /\ reviewer.decision \in {"approve", "reject"}
      BY <1>0, <1>2 DEF ReviewerInv, ResolveApproval
    <2>1. CASE approvals[a].status = "pending"
      <3>1. approvals' = [approvals EXCEPT ![a] =
                            Approval("resolved", reviewer.decision, approvals[a].degraded)]
        BY <1>2, <2>1 DEF ResolveApproval
      <3>2. approvals[a].decision = "none"
        BY <1>0, <2>0, <2>1 DEF ApprovalsInv
      <3>3. Len(approvals') = Len(approvals)
        <4> HIDE DEF a
        <4> QED  BY <1>0, <2>0, <3>1, <3>2, ApprovalReplaced
      <3> QED  BY <1>2, <3>3 DEF ResolveApproval
    <2>2. CASE approvals[a].status # "pending"
      BY <1>2, <2>2 DEF ResolveApproval
    <2> QED  BY <2>1, <2>2
  <1>3. ASSUME NEW w \in Workers, RunDelivery(w)
        PROVE  Good
    <2>1. workers[w].pc = "node" /\ workers[w].snap.at \in {"paused", "done"}
      BY <1>3 DEF RunDelivery, At, Generating
    <2> QED  BY <1>3, <2>1 DEF RunDelivery
  <1>4. ASSUME NEW w \in Workers, GraphRaises(w)
        PROVE  Good
    BY <1>4 DEF GraphRaises, At
  <1>5. ASSUME NEW w \in Workers, WorkerStep(w) \/ RenewJobLease(w) \/ Crash(w) \/ Stall(w) \/ Wake(w)
        PROVE  Good
    <2>1. \/ AwaitApproval(w) \/ CompleteRun(w) \/ RunDelivery(w) \/ GraphRaises(w) \/ RunGraph(w)
          \/ UNCHANGED <<approvals, ckpt>>
      BY <1>5
         DEF WorkerStep, ExpireStaleLeases, ClaimJob, QueueEmpty, StartJob, CompleteJob, FailJob, SettleKey,
             CreateStep, EnsureRunRunning, ReviveRun, ResumeStep, ReleaseGuards, BeginDelivery,
             LoadCheckpoint, DeliveryRaises, RecordRunFailure, FailKey, RenewJobLease, Crash, Stall, Wake,
             jobsOnly
    <2> QED  BY <1>u, <1>1, <1>3, <1>4, <2>1 DEF Generating
  <1>6. CASE \/ \E j \in DOMAIN jobs : LeaseLapses(j) \/ RequestJobCancellation(j)
             \/ \E k \in ResumeKeys : ResumeRequest(k)
             \/ \E a \in DOMAIN approvals, d \in {"approve", "reject"} : DecideRead(a, d)
             \/ RejectRun \/ UNCHANGED vars
    BY <1>u, <1>6
       DEF LeaseLapses, RequestJobCancellation, ResumeRequest, DecideRead, RejectRun, vars, jobsOnly
  <1> QED  BY <1>2, <1>5, <1>6 DEF Next

\* Who moves the run, but to "running".
LEMMA RunSteps ==
    ASSUME [Next]_vars, run' \notin {run, "running"}
    PROVE  reviewer.pc = "reject" \/ \E w \in Workers : workers[w].pc \in ResumeOnly \cup {"await"}
  <1>1. ASSUME NEW w \in Workers, WorkerStep(w) \/ RenewJobLease(w) \/ Crash(w) \/ Stall(w) \/ Wake(w)
        PROVE  workers[w].pc \in ResumeOnly \cup {"await"}
    <2>1. AwaitApproval(w) \/ BeginDelivery(w) \/ CompleteRun(w) \/ RecordRunFailure(w)
      BY <1>1
         DEF WorkerStep, ExpireStaleLeases, ClaimJob, QueueEmpty, StartJob, CompleteJob, FailJob, SettleKey,
             CreateStep, EnsureRunRunning, ReviveRun, RunGraph, GraphRaises, ResumeStep, ReleaseGuards,
             LoadCheckpoint, RunDelivery, DeliveryRaises, FailKey, RenewJobLease, Crash, Stall, Wake, jobsOnly
    <2> QED  BY <2>1 DEF AwaitApproval, BeginDelivery, CompleteRun, RecordRunFailure, At, ResumeOnly
  <1>2. CASE \/ \E j \in DOMAIN jobs : LeaseLapses(j) \/ RequestJobCancellation(j)
             \/ \E k \in ResumeKeys : ResumeRequest(k)
             \/ \E a \in DOMAIN approvals, d \in {"approve", "reject"} : DecideRead(a, d)
             \/ ResolveApproval \/ RejectRun \/ UNCHANGED vars
    BY <1>2
       DEF LeaseLapses, RequestJobCancellation, ResumeRequest, DecideRead, ResolveApproval, RejectRun, vars,
           jobsOnly
  <1> QED  BY <1>1, <1>2 DEF Next

LEMMA UngeneratedStep ==
    ASSUME IInv, AttemptExclusive, Kinds, Ungenerated, [Next]_vars, jobs'[1].attempts <= 1
    PROVE  Ungenerated' \/ GeneratedOnce'
  <1> USE DEF IInv
  <1>0. /\ JobsTyped /\ WorkersInv /\ RunInv /\ DOMAIN jobs = {1} /\ Len(approvals) = 0
        /\ \A w \in Workers : Busy(w) => workers[w].job = 1
    <2>1. DOMAIN jobs = 1..Len(jobs) /\ Len(approvals) = 0
      BY JobRows, ApprovalRows DEF Inv, RunInv, Ungenerated
    <2>2. \A w \in Workers : Busy(w) => workers[w].job \in 1..Len(jobs)
      BY DEF Inv, WorkersInv, Fit, Busy
    <2> QED  BY <2>1, <2>2 DEF Inv, Ungenerated
  <1>1. \A w \in Workers : workers[w].pc \notin ResumeOnly \cup {"await", "settle", "finish"}
    BY <1>0 DEF Kinds, Ungenerated, Busy, ResumeOnly
  <1>2. reviewer.pc = "idle"
    BY <1>0, ApprovalRows DEF RunInv, ReviewerInv
  <1>3. CASE \A w \in Workers : ~RunGraph(w)
    <2>1. approvals' = <<>>
      <3>1. \A w \in Workers : ~Generating(w)
        BY <1>1, <1>3 DEF Generating, ResumeOnly
      <3>2. Len(approvals') = 0
        BY <1>0, <3>1, GenerationSteps
      <3>3. approvals' \in Seq(AppRow)
        BY NextInv DEF Inv, RunInv, ApprovalsInv
      <3> QED  BY <3>2, <3>3, EmptySeq
    <2>2. Len(jobs') = 1
      BY KindsKept DEF Ungenerated
    <2>3. run' \in {"queued", "running"}
      BY <1>1, <1>2, RunSteps DEF Ungenerated
    <2>4. ASSUME NEW w \in Workers, workers'[w].pc \in {"await", "settle", "finish"}
          PROVE  FALSE
      <3>1. Busy(w)'
        BY <2>4 DEF Busy
      <3>2. CASE ClaimJob(w)
        BY <2>4, <3>2, Claimed
      <3>3. CASE Stays(w)
        BY <1>1, <2>4, <3>3 DEF Stays
      <3>4. CASE Advances(w)
        BY <1>1, <1>3, <2>4, <3>4 DEF Advances
      <3> QED  BY <3>1, <3>2, <3>3, <3>4, BusyBefore
    <2> QED  BY <2>1, <2>2, <2>3, <2>4 DEF Ungenerated
  <1>4. ASSUME NEW w \in Workers, RunGraph(w)
        PROVE  GeneratedOnce'
    <2>1. workers[w].pc = "graph" /\ Goto(w, "await") /\ UNCHANGED jobs
      BY <1>4 DEF RunGraph, At
    <2>2. /\ workers'[w].pc = "await"
          /\ \A v \in Workers \ {w} : workers'[v] = workers[v]
      BY <1>0, <2>1, Gone
    <2>3. Len(approvals') = 1 /\ ckpt'.at = "paused"
      BY <1>0, <1>4, Generated DEF RunGraph, Generate
    <2>4. jobs[1].attempts = 1 /\ workers[w].token = 1
      <3>1. Busy(w) /\ workers[w].job = 1 /\ jobs[1].attempts \in Nat
        BY <1>0, <2>1, JobRows DEF Busy, JobRow
      <3>2. workers[w].token \in 1..jobs[1].attempts
        BY <3>1 DEF AttemptExclusive
      <3> QED  BY <2>1, <3>1, <3>2
    <2>5. ASSUME NEW v \in Workers \ {w}
          PROVE  ~Busy(v)
      <3>1. SUFFICES ASSUME Busy(v) PROVE FALSE
        OBVIOUS
      <3>2. workers[v].job = workers[w].job /\ Busy(w)
        BY <1>0, <2>1, <3>1 DEF Busy
      <3>3. workers[v].token \in 1..jobs[workers[v].job].attempts /\ workers[v].token # workers[w].token
        BY <3>1, <3>2 DEF AttemptExclusive
      <3> QED  BY <1>0, <2>4, <3>1, <3>3
    <2>6. \A v \in Workers : /\ Busy(v)' => v = w
                             /\ workers'[v].pc # "node"
      BY <2>2, <2>5 DEF Busy
    <2> QED  BY <2>1, <2>2, <2>3, <2>4, <2>6 DEF GeneratedOnce
  <1> QED  BY <1>3, <1>4

LEMMA GeneratedStep ==
    ASSUME IInv, Kinds, GeneratedOnce, [Next]_vars, jobs'[1].attempts <= 1
    PROVE  GeneratedOnce'
  <1> USE DEF IInv
  <1>0. StepsQueue /\ JobsTyped
    BY NextInv DEF Inv
  <1>1. \A w \in Workers : workers[w].pc # "graph"
    BY DEF Kinds, GeneratedOnce, CreateOnly, Busy
  <1>2. Len(approvals') = 1 /\ ckpt'.at \in {"paused", "done"}
    <2>1. \A w \in Workers : ~Generating(w)
      BY <1>1 DEF Generating, GeneratedOnce, RunGraph, At
    <2> QED  BY <1>1, <2>1, GenerationSteps DEF GeneratedOnce
  <1>3. jobs'[1].attempts = 1
    BY <1>0, AttemptsGrow DEF Kinds, GeneratedOnce
  <1>4. \A w \in Workers : ClaimJob(w) => workers'[w].job # 1 /\ workers'[w].pc = "start"
    BY <1>3, Claimed DEF GeneratedOnce
  <1>5. ASSUME NEW w \in Workers, Busy(w)', workers'[w].job = 1
        PROVE  workers'[w].pc \in {"await", "settle", "finish"}
    <2>1. Busy(w) /\ workers[w].job = 1 /\ (Stays(w) \/ Advances(w))
      BY <1>4, <1>5, BusyBefore
    <2>2. workers[w].pc \in {"await", "settle", "finish"}
      BY <2>1 DEF GeneratedOnce
    <2> QED  BY <2>1, <2>2 DEF Stays, Advances, ResumeOnly
  <1>6. ASSUME NEW w \in Workers, workers'[w].pc = "node"
        PROVE  workers'[w].snap.at \in {"paused", "done"}
    <2>1. Stays(w) \/ Advances(w)
      BY <1>4, <1>6, BusyBefore DEF Busy
    <2>2. CASE Stays(w)
      BY <1>6, <2>2 DEF Stays, GeneratedOnce
    <2>3. CASE Advances(w)
      BY <1>6, <2>3 DEF Advances, GeneratedOnce, ResumeOnly
    <2> QED  BY <2>1, <2>2, <2>3
  <1> QED  BY <1>2, <1>3, <1>5, <1>6 DEF GeneratedOnce, Busy

LEMMA NextOnce ==
    ASSUME IInv, AttemptExclusive, Kinds, Once, [Next]_vars
    PROVE  Once'
  <1>1. SUFFICES ASSUME jobs'[1].attempts <= 1
                 PROVE  Ungenerated' \/ GeneratedOnce'
    BY DEF Once
  <1>2. jobs[1].attempts <= 1
    <2>1. StepsQueue /\ JobsTyped
      BY NextInv DEF IInv, Inv
    <2>2. /\ jobs[1].attempts \in Nat /\ jobs'[1].attempts \in Nat
          /\ jobs'[1].attempts >= jobs[1].attempts
      BY <2>1, AttemptsGrow DEF Kinds
    <2> QED  BY <1>1, <2>2
  <1> QED  BY <1>1, <1>2, UngeneratedStep, GeneratedStep DEF Once

\* The human gate holds for as long as the create job has been claimed once: one
\* content is generated, and what is delivered had been approved.
THEOREM GateCorrect == Spec => []GateHoldsOnce
  <1>1. Init => Kinds /\ Once
    <2> SUFFICES ASSUME Init PROVE Kinds /\ Once
      OBVIOUS
    <2>1. jobs = <<Job("create", CreateKey)>> /\ \A w \in Workers : workers[w].pc = "idle"
      BY DEF Init, Free, Without
    <2>2. Len(jobs) = 1 /\ DOMAIN jobs = {1} /\ jobs[1].kind = "create"
      BY <2>1 DEF Job
    <2> QED  BY <2>1, <2>2 DEF Init, Kinds, Once, Ungenerated, CreateOnly, ResumeOnly
  <1>2. IInv /\ AttemptExclusive /\ Kinds /\ Once /\ [Next]_vars => Kinds' /\ Once'
    BY NextKinds, NextOnce DEF IInv
  <1>3. IInv /\ Once => GateHoldsOnce
    <2> SUFFICES ASSUME IInv, Once, jobs[1].attempts <= 1
                 PROVE  Len(approvals) <= 1 /\ DeliveredApproved
      BY DEF GateHoldsOnce
    <2>1. DeliveredInv /\ DOMAIN approvals = 1..Len(approvals)
      BY ApprovalRows DEF IInv, Inv, RunInv
    <2>2. CASE Ungenerated
      <3>1. Len(approvals) = 0
        BY <2>2, ApprovalRows DEF Ungenerated, IInv, Inv, RunInv
      <3> QED  BY <2>1, <3>1 DEF DeliveredInv, DeliveredApproved
    <2>3. CASE GeneratedOnce
      <3>1. Len(approvals) = 1 /\ DOMAIN approvals = {1}
        BY <2>1, <2>3 DEF GeneratedOnce
      <3> QED  BY <2>1, <3>1 DEF DeliveredInv, DeliveredApproved, Reviewed
    <2> QED  BY <2>2, <2>3 DEF Once
  <1> QED  BY <1>1, <1>2, <1>3, Invariance, AttemptsCorrect, PTL DEF Spec

=============================================================================
