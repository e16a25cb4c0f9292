----------------------------- MODULE AgencyJobs -----------------------------
(***************************************************************************)
(* Background execution of one agency run: the durable job queue           *)
(* (persistence/jobs.py), the workers that drain it (runtime/worker.py),   *)
(* the run record (persistence/runs.py), the approvals of the run          *)
(* (persistence/approvals.py, api/routes/approvals.py) and the background  *)
(* branches of the create and resume routes (api/routes/agency.py).        *)
(*                                                                         *)
(* One database transaction, or one execution of the LangGraph graph, is   *)
(* one action; what a process has read before is in its own record.  The   *)
(* content of a generation is its number: the n-th execution of the graph  *)
(* up to the human gate produces content n and opens approval n for it.    *)
(* No code under src/ sets a run to "cancelled", so that status, and the   *)
(* branches that test it, are left out.                                    *)
(***************************************************************************)
EXTENDS Naturals, Sequences, FiniteSets, IdempotencyRecords

CONSTANTS Workers,       \* worker processes
          ResumeKeys,    \* Idempotency-Keys of the resume requests
          CreateKey,     \* Idempotency-Key of the create request
          MaxAttempts,   \* AMC_JOB_MAX_ATTEMPTS
          MaxJobs,       \* bound: jobs ever enqueued
          MaxGens,       \* bound: executions of the graph up to the gate
          MaxLosses,     \* bound: workers that die, or are suspended past a lease
          MaxUpsets      \* bound: executions of the graph that raise, and jobs
                         \* that an operator cancels

ASSUME JobsAssumption == /\ CreateKey \notin ResumeKeys
                         /\ MaxAttempts \in Nat \ {0}
                         /\ MaxJobs \in Nat \ {0}
                         /\ {MaxGens, MaxLosses, MaxUpsets} \subseteq Nat

Keys == ResumeKeys \cup {CreateKey}

JobStatus == {"queued", "running", "completed", "dead_letter", "cancelled"}
RunStatus == {"queued", "running", "needs_approval", "delivering",
              "completed", "failed", "rejected"}
WorkerPC == {"idle", "claim", "start", "ensure", "revive", "graph", "await",
             "guard", "cas", "load", "node", "complete", "settle", "finish",
             "runfail", "keyfail", "raise"}
CkptAt == {"none", "partial", "paused", "done"}

VARIABLES
  jobs,       \* the table amc_jobs, in the order of queued_at
  run,        \* status of the run record
  art,        \* [gen, approval]: content stored with the run, and the
              \* approval its protected artifact names
  approvals,  \* approvals of the run, oldest first; the n-th is about content n
  ckpt,       \* [at, gen]: LangGraph checkpoint of the thread of the run
  idem,       \* idempotency record of each key
  workers,    \* per worker: pc, job, token, what it has read, whether suspended
  reviewer,   \* pc, approval and decision of the decide request in progress
  delivered,  \* history: contents the delivery node has been executed for
  count       \* how often each bounded event has happened

vars == <<jobs, run, art, approvals, ckpt, idem, workers, reviewer,
          delivered, count>>

JobIds == 1..MaxJobs
Gens == 1..MaxGens

Job(kind, key) == [kind |-> kind, key |-> key, status |-> "queued",
                   attempts |-> 0, lease |-> "none"]
NoSnap == [at |-> "none", gen |-> 0]
Without(pc) == [pc |-> pc, job |-> 0, token |-> 0, seen |-> "none", snap |-> NoSnap,
                stalled |-> FALSE]
Free == Without("idle")
NoReview == [pc |-> "idle", approval |-> 0, decision |-> "none"]

TypeOK ==
  /\ jobs \in Seq([kind : {"create", "resume"}, key : Keys, status : JobStatus,
                   attempts : Nat, lease : {"none", "live", "lapsed"}])
  /\ Len(jobs) <= MaxJobs
  /\ run \in RunStatus
  /\ art \in [gen : Nat, approval : Nat]
  /\ approvals \in Seq([status : {"pending", "resolved", "stale"},
                        decision : {"none", "approve", "reject"},
                        degraded : BOOLEAN])
  /\ ckpt \in [at : CkptAt, gen : Nat]
  /\ idem \in [Keys -> KeyStatus]
  /\ workers \in [Workers ->
        [pc : WorkerPC, job : Nat, token : Nat, seen : RunStatus \cup {"none"},
         snap : [at : CkptAt, gen : Nat], stalled : BOOLEAN]]
  /\ reviewer \in [pc : {"idle", "resolve", "reject"}, approval : Nat,
                   decision : {"none", "approve", "reject"}]
  /\ delivered \subseteq Nat
  /\ count \in [{"loss", "upset"} -> Nat]

\* create_agency_run in background mode has returned: the key is reserved, the
\* run record is "queued" and its job is in the queue.
Init ==
  /\ jobs = <<Job("create", CreateKey)>>
  /\ run = "queued"
  /\ art = [gen |-> 0, approval |-> 0]
  /\ approvals = <<>>
  /\ ckpt = [at |-> "none", gen |-> 0]
  /\ idem = [k \in Keys |-> IF k = CreateKey THEN Reserved("absent") ELSE "absent"]
  /\ workers = [w \in Workers |-> Free]
  /\ reviewer = NoReview
  /\ delivered = {}
  /\ count = [e \in {"loss", "upset"} |-> 0]

-----------------------------------------------------------------------------
(* The queue                                                               *)

Happens(e, max) == count[e] < max /\ count' = [count EXCEPT ![e] = @ + 1]

Running(j, token) == jobs[j].status = "running" /\ jobs[j].attempts = token

\* The claim token is random; the attempt number it was issued with stands for
\* it.  expire_stale_leases clears it and the next claim replaces it.
Fenced(w) == Running(workers[w].job, workers[w].token)

\* Work of w that has a healthy heartbeat thread behind it.
Beating(w) == workers[w].pc \notin {"idle", "claim"} /\ ~workers[w].stalled

\* The row of j with another status and lease.
Moved(j, status, lease) == [kind |-> jobs[j].kind, key |-> jobs[j].key, status |-> status,
                            attempts |-> jobs[j].attempts, lease |-> lease]
Move(j, status, lease) == [jobs EXCEPT ![j] = Moved(j, status, lease)]

\* w goes on with its job at pc; what the step has read is used by the next one
\* and then forgotten.
Carry(w, pc, seen, snap) ==
  workers' = [workers EXCEPT ![w] =
                [pc |-> pc, job |-> workers[w].job, token |-> workers[w].token,
                 seen |-> seen, snap |-> snap, stalled |-> workers[w].stalled]]
Goto(w, pc) == Carry(w, pc, "none", NoSnap)

At(w, pc) == workers[w].pc = pc /\ ~workers[w].stalled

jobsOnly == <<run, art, approvals, ckpt, idem, reviewer, delivered>>

\* Slip: the sweep gives up the lease and leaves the job running.
ExpireLeasesOnly(w) ==
  /\ At(w, "idle")
  /\ Goto(w, "claim")
  /\ jobs' = [j \in DOMAIN jobs |->
                IF jobs[j].status = "running" /\ jobs[j].lease = "lapsed"
                THEN Moved(j, "running", "none")
                ELSE jobs[j]]
  /\ UNCHANGED <<jobsOnly, count>>

\* poll_once, its first call: every running job with an expired lease goes back
\* to the queue.  The attempt is not charged and max_attempts is not looked at.
ExpireStaleLeases(w) ==
  /\ At(w, "idle")
  /\ Goto(w, "claim")
  /\ jobs' = [j \in DOMAIN jobs |->
                IF jobs[j].status = "running" /\ jobs[j].lease = "lapsed"
                THEN Moved(j, "queued", "none")
                ELSE jobs[j]]
  /\ UNCHANGED <<jobsOnly, count>>

Queued == {j \in DOMAIN jobs : jobs[j].status = "queued"}

\* claim_job: the oldest queued job, with a fresh token and a live lease.
ClaimJob(w) ==
  /\ At(w, "claim")
  /\ \E j \in Queued :
       /\ \A i \in Queued : j <= i
       /\ jobs' = [jobs EXCEPT ![j] = [kind |-> jobs[j].kind, key |-> jobs[j].key,
                                       status |-> "running", lease |-> "live",
                                       attempts |-> jobs[j].attempts + 1]]
       /\ workers' = [workers EXCEPT ![w] = [pc |-> "start", job |-> j,
                                             token |-> jobs[j].attempts + 1, seen |-> "none",
                                             snap |-> NoSnap, stalled |-> FALSE]]
  /\ UNCHANGED <<jobsOnly, count>>

\* claim_job finds nothing: poll_once returns and the loop sleeps.
QueueEmpty(w) ==
  /\ At(w, "claim")
  /\ Queued = {}
  /\ workers' = [workers EXCEPT ![w] = Free]
  /\ UNCHANGED <<jobs, jobsOnly, count>>

\* _LeaseHeartbeat: the thread of w renews the lease.  renew_job_lease asks for
\* the token and the status, not for a lease that has not run out yet.
RenewJobLease(w) ==
  /\ Beating(w) /\ Fenced(w)
  /\ jobs[workers[w].job].lease = "lapsed"
  /\ jobs' = Move(workers[w].job, "running", "live")
  /\ UNCHANGED <<jobsOnly, workers, count>>

\* The clock passes lease_expires_at: nobody is renewing the lease.
LeaseLapses(j) ==
  /\ jobs[j].status = "running" /\ jobs[j].lease = "live"
  /\ \A w \in Workers :
       Beating(w) => ~(workers[w].job = j /\ workers[w].token = jobs[j].attempts)
  /\ jobs' = Move(j, "running", "lapsed")
  /\ UNCHANGED <<jobsOnly, workers, count>>

\* handle_job returns to the claim loop of poll_once.
NextJob(w) == workers' = [workers EXCEPT ![w] = Without("claim")]

\* handle_job, the cancellation fence: the status alone is read, not the token.
StartJob(w) ==
  /\ At(w, "start")
  /\ \/ /\ jobs[workers[w].job].status # "running"
        /\ NextJob(w)
     \/ /\ jobs[workers[w].job].status = "running"
        /\ Goto(w, IF jobs[workers[w].job].kind = "create" THEN "ensure" ELSE "guard")
  /\ UNCHANGED <<jobs, jobsOnly, count>>

\* Slip: the status is checked, the token is not.
CompleteJobUnfenced(w) ==
  /\ At(w, "finish")
  /\ NextJob(w)
  /\ jobs' = IF jobs[workers[w].job].status = "running"
             THEN Move(workers[w].job, "completed", "none")
             ELSE jobs
  /\ UNCHANGED <<jobsOnly, count>>

\* complete_job: fenced by token and status; a zombie changes nothing.
CompleteJob(w) ==
  /\ At(w, "finish")
  /\ NextJob(w)
  /\ jobs' = IF Fenced(w)
             THEN Move(workers[w].job, "completed", "none")
             ELSE jobs
  /\ UNCHANGED <<jobsOnly, count>>

\* Slip: neither the token nor the status is checked.
FailJobUnfenced(w) ==
  /\ At(w, "raise")
  /\ NextJob(w)
  /\ LET j == workers[w].job
     IN jobs' = Move(j, IF jobs[j].attempts >= MaxAttempts THEN "dead_letter" ELSE "queued",
                     "none")
  /\ UNCHANGED <<jobsOnly, count>>

\* fail_job: back to the queue, or dead-lettered when the budget is spent.
FailJob(w) ==
  /\ At(w, "raise")
  /\ NextJob(w)
  /\ LET j == workers[w].job
     IN jobs' = IF Fenced(w)
                THEN Move(j, IF jobs[j].attempts >= MaxAttempts THEN "dead_letter" ELSE "queued",
                          "none")
                ELSE jobs
  /\ UNCHANGED <<jobsOnly, count>>

\* request_job_cancellation: not fenced, refused for a settled job.
RequestJobCancellation(j) ==
  /\ Happens("upset", MaxUpsets)
  /\ jobs[j].status \in {"queued", "running"}
  /\ jobs' = Move(j, "cancelled", "none")
  /\ UNCHANGED <<jobsOnly, workers>>

-----------------------------------------------------------------------------
(* The run record, its content and its approvals                           *)

Approval(status, decision, degraded) ==
  [status |-> status, decision |-> decision, degraded |-> degraded]

Latest == approvals[Len(approvals)]

\* Slip: a decision is a decision, whatever it says.
LatestDecided == /\ approvals # <<>>
                 /\ Latest.status = "resolved"

\* get_approvals_for_run()[0] is a resolved approval that says approve.
LatestApproves == /\ approvals # <<>>
                  /\ Latest.status = "resolved"
                  /\ Latest.decision = "approve"

\* update_run_status(..., {"agency": content g}): the protected artifact is
\* created, or revised when the content differs; a revision stales the approval
\* the artifact names.  appr is the list of approvals before the call.
StoreContent(g, appr) ==
  /\ art' = IF art.gen = 0 THEN [gen |-> g, approval |-> Len(appr)]
                           ELSE [gen |-> g, approval |-> art.approval]
  /\ approvals' = IF art.gen \in {0, g} THEN appr
                  ELSE [appr EXCEPT ![art.approval] =
                          Approval("stale", @.decision, @.degraded)]

\* The graph from its first node to the human gate: a new content, an approval
\* request for it, and a checkpoint that waits before the delivery node.
Generate(degraded) ==
  LET g == Len(approvals) + 1
  IN /\ g <= MaxGens
     /\ approvals' = Append(approvals, Approval("pending", "none", degraded))
     /\ ckpt' = [at |-> "paused", gen |-> g]

-----------------------------------------------------------------------------
(* agency.create jobs                                                      *)

\* _ensure_run_running, the read.
EnsureRunRunning(w) ==
  /\ At(w, "ensure")
  /\ IF run = "running" THEN Goto(w, "graph") ELSE Carry(w, "revive", run, NoSnap)
  /\ UNCHANGED <<jobs, jobsOnly, count>>

\* _ensure_run_running, the compare-and-set: whatever status was read, it is
\* replaced by "running".  A lost race is an error unless the run is running.
ReviveRun(w) ==
  /\ At(w, "revive")
  /\ \/ /\ run = workers[w].seen
        /\ run' = "running"
        /\ Goto(w, "graph")
     \/ /\ run # workers[w].seen
        /\ Goto(w, IF run = "running" THEN "graph" ELSE "raise")
        /\ UNCHANGED run
  /\ UNCHANGED <<jobs, art, approvals, ckpt, idem, reviewer, delivered, count>>

\* run_and_record_events(initial_state) succeeds.
RunGraph(w) ==
  /\ At(w, "graph")
  /\ \E d \in BOOLEAN : Generate(d)
  /\ Goto(w, "await")
  /\ UNCHANGED <<jobs, run, art, idem, reviewer, delivered, count>>

\* A node raises: the thread is left part-way and, unlike a resume job, neither
\* the run nor the key is marked failed.
GraphRaises(w) ==
  /\ At(w, "graph")
  /\ Happens("upset", MaxUpsets)
  /\ ckpt' = [at |-> "partial", gen |-> ckpt.gen]
  /\ Goto(w, "raise")
  /\ UNCHANGED <<jobs, run, art, approvals, idem, reviewer, delivered>>

\* update_run_status("needs_approval", ...): unconditional.
AwaitApproval(w) ==
  /\ At(w, "await")
  /\ run' = "needs_approval"
  /\ StoreContent(ckpt.gen, approvals)
  /\ Goto(w, "settle")
  /\ UNCHANGED <<jobs, ckpt, idem, reviewer, delivered, count>>

\* complete_idempotency with the response of the job.
SettleKey(w) ==
  /\ At(w, "settle")
  /\ idem' = [idem EXCEPT ![jobs[workers[w].job].key] = Completed(@)]
  /\ Goto(w, "finish")
  /\ UNCHANGED <<jobs, run, art, approvals, ckpt, reviewer, delivered, count>>

-----------------------------------------------------------------------------
(* agency.resume jobs                                                      *)

StoredDegraded == art.gen # 0 /\ approvals[art.gen].degraded

\* The reads of _execute_resume_job and the release guards.  "completed"
\* returns without completing the key; "delivering" is taken for a crash of an
\* earlier attempt and skips the guards.
ReleaseGuards(w) ==
  /\ At(w, "guard")
  /\ \/ run = "completed"  /\ Goto(w, "finish")
     \/ run = "failed"     /\ Goto(w, "raise")
     \/ run = "delivering" /\ Goto(w, "load")
     \/ /\ run \notin {"completed", "failed", "delivering"}
        /\ Goto(w, IF LatestApproves /\ ~StoredDegraded THEN "cas" ELSE "settle")
  /\ UNCHANGED <<jobs, jobsOnly, count>>

\* compare_and_set_run_status(needs_approval, delivering).
BeginDelivery(w) ==
  /\ At(w, "cas")
  /\ \/ /\ run = "needs_approval"
        /\ run' = "delivering"
        /\ Goto(w, "load")
     \/ /\ run # "needs_approval"
        /\ Goto(w, IF run = "completed" THEN "finish" ELSE "raise")
        /\ UNCHANGED run
  /\ UNCHANGED <<jobs, art, approvals, ckpt, idem, reviewer, delivered, count>>

\* graph.stream(None): the thread is loaded from its checkpoint ...
LoadCheckpoint(w) ==
  /\ At(w, "load")
  /\ Carry(w, "node", "none", ckpt)
  /\ UNCHANGED <<jobs, jobsOnly, count>>

\* Slip: the delivery node relies on the guards.
RefusesNothing(g) == FALSE

\* The delivery node's own check: quality_release_blocked.
Refuses(g) == approvals[g].degraded

\* ... and continued: the delivery node of a paused thread is executed, and it
\* refuses degraded content; a finished thread has nothing left to do; a thread
\* left part-way is generated up to the human gate.
RunDelivery(w) ==
  /\ At(w, "node")
  /\ LET s == workers[w].snap
     IN \/ /\ s.at = "paused" /\ ~Refuses(s.gen)
           /\ delivered' = delivered \cup {s.gen}
           /\ ckpt' = [at |-> "done", gen |-> s.gen]
           /\ Goto(w, "complete")
           /\ UNCHANGED approvals
        \/ /\ s.at = "paused" /\ Refuses(s.gen)
           /\ Goto(w, "runfail")
           /\ UNCHANGED <<approvals, ckpt, delivered>>
        \/ /\ s.at = "done"
           /\ Goto(w, "complete")
           /\ UNCHANGED <<approvals, ckpt, delivered>>
        \/ /\ s.at = "partial"
           /\ \E d \in BOOLEAN : Generate(d)
           /\ Goto(w, "complete")
           /\ UNCHANGED delivered
  /\ UNCHANGED <<jobs, run, art, idem, reviewer, count>>

DeliveryRaises(w) ==
  /\ At(w, "node")
  /\ Happens("upset", MaxUpsets)
  /\ Goto(w, "runfail")
  /\ UNCHANGED <<jobs, jobsOnly>>

\* update_run_status("completed", ...): unconditional.
CompleteRun(w) ==
  /\ At(w, "complete")
  /\ run' = "completed"
  /\ StoreContent(ckpt.gen, approvals)
  /\ Goto(w, "settle")
  /\ UNCHANGED <<jobs, ckpt, idem, reviewer, delivered, count>>

\* _record_run_failure: the run, unconditionally, then the key.
RecordRunFailure(w) ==
  /\ At(w, "runfail")
  /\ run' = "failed"
  /\ Goto(w, "keyfail")
  /\ UNCHANGED <<jobs, art, approvals, ckpt, idem, reviewer, delivered, count>>

FailKey(w) ==
  /\ At(w, "keyfail")
  /\ idem' = [idem EXCEPT ![jobs[workers[w].job].key] = Failed(@)]
  /\ Goto(w, "raise")
  /\ UNCHANGED <<jobs, run, art, approvals, ckpt, reviewer, delivered, count>>

-----------------------------------------------------------------------------
(* Routes                                                                  *)

\* resume_agency_run in background mode answers by the status of the run: the
\* stored result, a job in the queue, or a refusal.  The read of the run, the
\* reservation and the job are separate transactions; a job written after the
\* run has moved on is a job that waits in the queue while the run moves on.
ResumeRequest(k) ==
  /\ Reservable(idem[k])
  /\ \/ /\ run = "completed"
        /\ idem' = [idem EXCEPT ![k] = Completed(Reserved(@))]
        /\ UNCHANGED jobs
     \/ /\ run = "needs_approval"
        /\ Len(jobs) < MaxJobs
        /\ idem' = [idem EXCEPT ![k] = Reserved(@)]
        /\ jobs' = Append(jobs, Job("resume", k))
     \/ /\ run \notin {"completed", "needs_approval"}
        /\ idem' = [idem EXCEPT ![k] = Failed(Reserved(@))]
        /\ UNCHANGED jobs
  /\ UNCHANGED <<run, art, approvals, ckpt, workers, reviewer, delivered, count>>

\* decide_approval: a run that awaits approval and an approval not stale ...
DecideRead(a, d) ==
  /\ reviewer.pc = "idle"
  /\ run = "needs_approval" /\ approvals[a].status = "pending"
  /\ reviewer' = [pc |-> "resolve", approval |-> a, decision |-> d]
  /\ UNCHANGED <<jobs, run, art, approvals, ckpt, idem, workers,
                 delivered, count>>

\* ... resolve_approval, if the approval is still pending ...
ResolveApproval ==
  /\ reviewer.pc = "resolve"
  /\ LET a == reviewer.approval
         ok == approvals[a].status = "pending"
     IN /\ approvals' = IF ok THEN [approvals EXCEPT ![a] =
                                       Approval("resolved", reviewer.decision, @.degraded)]
                              ELSE approvals
        /\ reviewer' = IF ok /\ reviewer.decision = "reject"
                       THEN [pc |-> "reject", approval |-> a, decision |-> reviewer.decision]
                       ELSE NoReview
  /\ UNCHANGED <<jobs, run, art, ckpt, idem, workers, delivered, count>>

\* Slip: the decision is written where the status belongs.
RejectRunDecision ==
  /\ reviewer.pc = "reject"
  /\ run' = IF run = "needs_approval" THEN reviewer.decision ELSE run
  /\ reviewer' = NoReview
  /\ UNCHANGED <<jobs, art, approvals, ckpt, idem, workers, delivered, count>>

\* ... and a rejection moves the run, if it still awaits approval.
RejectRun ==
  /\ reviewer.pc = "reject"
  /\ run' = IF run = "needs_approval" THEN "rejected" ELSE run
  /\ reviewer' = NoReview
  /\ UNCHANGED <<jobs, art, approvals, ckpt, idem, workers, delivered, count>>

-----------------------------------------------------------------------------
(* Faults of the processes                                                 *)

\* A worker process dies and is started again; its heartbeat dies with it.
Crash(w) ==
  /\ workers[w].pc # "idle"
  /\ Happens("loss", MaxLosses)
  /\ workers' = [workers EXCEPT ![w] = Free]
  /\ UNCHANGED <<jobs, jobsOnly>>

\* A worker is suspended, or cut off from the database, with its heartbeat, ...
Stall(w) ==
  /\ Beating(w)
  /\ Happens("loss", MaxLosses)
  /\ workers' = [workers EXCEPT ![w].stalled = TRUE]
  /\ UNCHANGED <<jobs, jobsOnly>>

\* ... and comes back where it was.
Wake(w) ==
  /\ workers[w].stalled
  /\ workers' = [workers EXCEPT ![w].stalled = FALSE]
  /\ UNCHANGED <<jobs, jobsOnly, count>>

-----------------------------------------------------------------------------

CreateStep(w) == \/ EnsureRunRunning(w) \/ ReviveRun(w) \/ RunGraph(w)
                 \/ GraphRaises(w) \/ AwaitApproval(w)

ResumeStep(w) == \/ ReleaseGuards(w) \/ BeginDelivery(w) \/ LoadCheckpoint(w)
                 \/ RunDelivery(w) \/ DeliveryRaises(w) \/ CompleteRun(w)
                 \/ RecordRunFailure(w) \/ FailKey(w)

WorkerStep(w) == \/ ExpireStaleLeases(w) \/ ClaimJob(w) \/ QueueEmpty(w)
                 \/ StartJob(w) \/ CompleteJob(w) \/ FailJob(w)
                 \/ CreateStep(w) \/ ResumeStep(w) \/ SettleKey(w)

Next ==
  \/ \E w \in Workers : WorkerStep(w) \/ RenewJobLease(w) \/ Crash(w) \/ Stall(w) \/ Wake(w)
  \/ \E j \in DOMAIN jobs : LeaseLapses(j) \/ RequestJobCancellation(j)
  \/ \E k \in ResumeKeys : ResumeRequest(k)
  \/ \E a \in DOMAIN approvals, d \in {"approve", "reject"} : DecideRead(a, d)
  \/ ResolveApproval
  \/ RejectRun

Spec == Init /\ [][Next]_vars

\* Worker loops keep running, suspended workers come back, clocks advance.
\* Requests and reviewers owe nothing.
Fairness == /\ \A w \in Workers : WF_vars(WorkerStep(w)) /\ WF_vars(Wake(w))
            /\ \A j \in JobIds : WF_vars(j \in DOMAIN jobs /\ LeaseLapses(j))

FairSpec == Spec /\ Fairness

-----------------------------------------------------------------------------
(* Properties                                                              *)

\* The queue keeps its promise (jobs.py): a job is settled once and a settled
\* job is never attempted again, whatever workers die, stall and come back.
Ledger == INSTANCE JobLedger WITH
  outcome  <- [j \in JobIds |->
                 IF j > Len(jobs) THEN "absent"
                 ELSE IF jobs[j].status \in {"queued", "running"} THEN "open"
                 ELSE jobs[j].status],
  attempts <- [j \in JobIds |-> IF j > Len(jobs) THEN 0 ELSE jobs[j].attempts]

JobsKeepLedger == Ledger!Spec

\* complete_job and fail_job are fenced by the claim token: a job leaves
\* "running" for an outcome of an attempt, or for the queue, only by a worker
\* that holds its current attempt, by the sweep of a lapsed lease, or by the
\* operator.  A worker that has lost its lease decides nothing.
SettledByHolder ==
  [][\A j \in DOMAIN jobs :
       jobs[j].status = "running" /\ jobs'[j].status # "running" =>
         \/ jobs[j].lease = "lapsed" /\ jobs'[j].status = "queued"
         \/ jobs'[j].status = "cancelled"
         \/ \E w \in Workers :
              /\ workers[w].job = j /\ workers[w].token = jobs[j].attempts
              /\ workers[w].pc \in {"finish", "raise"}
              /\ workers'[w].pc = "claim"]_vars

\* brand_safety_qa marks content made by a fallback provider release_blocked;
\* it is never delivered, whichever guard a worker has skipped and whatever the
\* reviewer said (delivery_node refuses it a second time).
DegradedNeverDelivered == \A g \in delivered : ~approvals[g].degraded

\* Nothing is delivered before a human has approved something of the run; and
\* as long as the create job has generated once, what is delivered is what was
\* approved, however many resume jobs run, die or come back.
DeliveryAuthorised ==
  /\ delivered # {} \/ run = "delivering" =>
       \E a \in DOMAIN approvals : approvals[a].decision = "approve"
  /\ Len(approvals) = 1 => \A g \in delivered : approvals[g].decision = "approve"

\* build.py: "every run pauses for human approval ... before the campaign is
\* delivered".  Content that was delivered had been approved.
DeliveredApproved == \A g \in delivered : approvals[g].decision = "approve"

\* How far the gate fails: content that nobody approved is delivered, and content
\* is generated a second time, only when the create job was claimed again.
GateHoldsOnce ==
  jobs[1].attempts <= 1 => Len(approvals) <= 1 /\ DeliveredApproved

Busy(w) == workers[w].pc \notin {"idle", "claim"}

\* claim_job: no two workers, be they dead to the queue or alive, ever work on the
\* same attempt of a job, and none on an attempt that has not been charged.
AttemptExclusive ==
  \A w \in Workers : Busy(w) =>
    /\ workers[w].token \in 1..jobs[workers[w].job].attempts
    /\ \A v \in Workers \ {w} :
         Busy(v) /\ workers[v].job = workers[w].job => workers[v].token # workers[w].token

\* Every job that is enqueued is settled in the end: no sequence of a bounded
\* number of deaths, stalls and errors leaves one queued or running for ever.
JobsSettle ==
  \A j \in JobIds :
    (j \in DOMAIN jobs) ~> (j \in DOMAIN jobs /\ jobs[j].status \notin {"queued", "running"})

=============================================================================
