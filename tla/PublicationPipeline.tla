-------------------------- MODULE PublicationPipeline --------------------------
(***************************************************************************)
(* The scheduler tick of persistence/project_ops.py with the outbox of     *)
(* agency/reliability: a tick takes a due job, and for a delivery drives   *)
(* its outbox message and one publication attempt through the provider.    *)
(* Several ticks may run at once.  What only its own tick writes and reads *)
(* is left out: the status of the message, which is dispatched once, and   *)
(* the states of the attempt before EXECUTING; so are receipts, permits    *)
(* and events.                                                             *)
(***************************************************************************)
EXTENDS ContentSchedule

CONSTANTS Ticks,      \* concurrent calls of run_scheduler_tick
          Live,       \* the provider of the channel is LIVE, otherwise DRY_RUN
          MaxFaults   \* bound: calls that raise and processes that die

ASSUME PipelineAssumption == Live \in BOOLEAN /\ MaxFaults \in Nat

VARIABLES attempts,  \* publication_attempts: state of the one of a job
          published, \* the provider's ledger: per job, what it was given
          calls,     \* how often publish has been called for a job
          tick,      \* per tick: pc, its job, the item and the body it has read
          faults     \* faults so far

pipeline == <<attempts, published, calls, tick, faults>>

NoJob == [kind |-> "NONE", version |-> 0, at |-> 0]
NoTick == [pc |-> "idle", job |-> NoJob, item |-> NoItem, body |-> 0]
Unsent == [version |-> 0, body |-> 0]

AttemptState == {"none", "BLOCKED", "EXECUTING", "READBACK", "UNCERTAIN", "VERIFIED", "FAILED"}

PipelineTypeOK ==
  /\ attempts \in [Jobs -> AttemptState]
  /\ published \in [Jobs -> [version : 0..MaxVersion, body : 0..MaxVersion]]
  /\ calls \in [Jobs -> Nat]
  /\ tick \in [Ticks ->
       [pc : {"idle", "decide", "send", "request", "execute", "publish", "verify", "confirm", "undo"},
        job : Jobs \cup {NoJob}, item : Item, body : 0..MaxVersion]]
  /\ faults \in 0..MaxFaults

PipelineInit == /\ attempts = [j \in Jobs |-> "none"]
                /\ published = [j \in Jobs |-> Unsent]
                /\ calls = [j \in Jobs |-> 0]
                /\ tick = [w \in Ticks |-> NoTick]
                /\ faults = 0

Job(w) == tick[w].job
Read(w) == tick[w].item
Go(w, pc) == tick' = [tick EXCEPT ![w].pc = pc]
Continue(w, pc, read, body) ==
  tick' = [tick EXCEPT ![w] = [pc |-> pc, job |-> Job(w), item |-> read, body |-> body]]
End(w) == tick' = [tick EXCEPT ![w] = NoTick]
Set(w, state) == attempts' = [attempts EXCEPT ![Job(w)] = state]
Fault == faults < MaxFaults /\ faults' = faults + 1
Smooth == UNCHANGED faults

\* live and not lifecycle: only then the item moves along.
Moves(w) == Live /\ Job(w).kind # "LIFECYCLE"

\* _move_item: the version is compared, the state is not.
MoveItem(w, state) == item' = IF item.version = Read(w).version
                              THEN Seen(state, item.version, item.approved) ELSE item
KeepItem == UNCHANGED item
KeepContent == UNCHANGED <<approvals, edit>>

\* _set_job: only from the given status.
SetJob(j, from, status) == jobs' = IF jobs[j] = from THEN [jobs EXCEPT ![j] = status] ELSE jobs

\* mark_outbox_delivered or mark_outbox_failed, and the job; when the former
\* raises, the tick ends and the job stays ENQUEUED.
Report(w, status) ==
  /\ End(w)
  /\ \/ Smooth /\ SetJob(Job(w), "ENQUEUED", status)
     \/ Fault /\ UNCHANGED jobs

\* run_scheduler_tick lists what waits; _run_refresh and _run_delivery read the
\* item.  The status is compared again before anything is written.
TakeJob(w, j) ==
  /\ tick[w].pc = "idle"
  /\ jobs[j] = "WAITING"
  /\ tick' = [tick EXCEPT ![w] = [pc |-> "decide", job |-> j, item |-> item, body |-> 0]]
  /\ UNCHANGED <<content, attempts, published, calls, faults>>

\* due_gate and execute_publication: the approval is bound to the version read.
Approved(w) == Read(w).approved = Read(w).version

\* ITEM_CHANGED_SINCE_SCHEDULING and ITEM_NOT_REFRESHABLE.
Stale(w) == /\ Job(w).kind # "LIFECYCLE"
            /\ \/ Read(w).version # Job(w).version
               \/ Read(w).state \notin IF Job(w).kind = "REFRESH" THEN {"VERIFIED", "MEASURED"}
                                                                  ELSE {"SCHEDULED", "DUE"}

\* The rest of _run_refresh.
Refresh(w) ==
  /\ tick[w].pc = "decide" /\ Job(w).kind = "REFRESH"
  /\ SetJob(Job(w), "WAITING", IF Stale(w) THEN "CANCELLED" ELSE "DELIVERED")
  /\ IF ~Stale(w) /\ jobs[Job(w)] = "WAITING" THEN MoveItem(w, "REFRESH_DUE") ELSE KeepItem
  /\ End(w)
  /\ KeepContent /\ UNCHANGED <<attempts, published, calls, faults>>

\* _run_delivery gives the job up, or blocks it: for the approval, or for stale
\* evidence, a dependency, rights or a provider, which are not modelled ...
TurnAway(w) ==
  /\ tick[w].pc = "decide" /\ Job(w).kind # "REFRESH"
  /\ SetJob(Job(w), "WAITING", IF Stale(w) THEN "CANCELLED" ELSE "WAITING")
  /\ End(w)
  /\ KeepItem /\ KeepContent /\ UNCHANGED <<attempts, published, calls, faults>>

\* Slip: the status is not compared.
ClaimAnyway(w) ==
  /\ tick[w].pc = "decide" /\ Job(w).kind # "REFRESH"
  /\ ~Stale(w) /\ Approved(w)
  /\ jobs' = [jobs EXCEPT ![Job(w)] = "ENQUEUED"]
  /\ IF Moves(w) /\ Read(w).state = "SCHEDULED" THEN MoveItem(w, "DUE") ELSE KeepItem
  /\ Go(w, "send")
  /\ KeepContent /\ UNCHANGED <<attempts, published, calls, faults>>

\* ... or claims it: the tick that moves it to ENQUEUED delivers it.
ClaimJob(w) ==
  /\ tick[w].pc = "decide" /\ Job(w).kind # "REFRESH"
  /\ ~Stale(w) /\ Approved(w)
  /\ SetJob(Job(w), "WAITING", "ENQUEUED")
  /\ IF jobs[Job(w)] = "WAITING"
     THEN /\ IF Moves(w) /\ Read(w).state = "SCHEDULED" THEN MoveItem(w, "DUE") ELSE KeepItem
          /\ Continue(w, "send", NoItem, 0)
     ELSE End(w) /\ KeepItem
  /\ KeepContent /\ UNCHANGED <<attempts, published, calls, faults>>

\* enqueue_outbox, claim_outbox, and the item as execute_publication reads it.
\* What raises on the way to the handler (an audit checkpoint that lost its
\* sequence number, the database) ends the tick and leaves the job ENQUEUED.
SendMessage(w) ==
  /\ tick[w].pc = "send"
  /\ \/ Smooth /\ Continue(w, "request", Seen("IDEA", item.version, item.approved), 0)
     \/ Fault /\ End(w)
  /\ UNCHANGED <<content, attempts, published, calls>>

\* The request is built and authorized; the body of the item is read for it.
Authorize(w) ==
  /\ Set(w, "EXECUTING")
  /\ Continue(w, "execute", Seen("IDEA", Read(w).version, 0), item.version)
  /\ Smooth /\ UNCHANGED jobs

\* execute_publication inserts the attempt, has it validated, and compares the
\* approval with the version it has read.  An attempt that exists is not one of
\* another delivery: the job has been claimed once.
Request(w) ==
  /\ tick[w].pc = "request"
  /\ \/ Approved(w) /\ Authorize(w)
     \/ ~Approved(w) /\ Set(w, "BLOCKED") /\ Report(w, "FAILED")
     \/ Set(w, "FAILED") /\ Report(w, "FAILED")
  /\ KeepItem /\ KeepContent /\ UNCHANGED <<published, calls>>

\* The item moves to PUBLISHING.
Execute(w) ==
  /\ tick[w].pc = "execute"
  /\ IF Moves(w) THEN MoveItem(w, "PUBLISHING") ELSE KeepItem
  /\ Go(w, "publish")
  /\ KeepContent /\ UNCHANGED <<jobs, attempts, published, calls, faults>>

\* The provider keeps the first request of an idempotency key.
Land(w) == published' = [published EXCEPT ![Job(w)] =
             IF @ = Unsent THEN [version |-> Read(w).version, body |-> tick[w].body] ELSE @]

\* provider.publish: made; of unknown outcome (ProviderUncertain); refused.
Publish(w) ==
  /\ tick[w].pc = "publish"
  /\ calls' = [calls EXCEPT ![Job(w)] = @ + 1]
  /\ \/ /\ Land(w) /\ Set(w, "READBACK") /\ Continue(w, "verify", NoItem, 0)
        /\ IF Moves(w) THEN MoveItem(w, "PUBLISHED") ELSE KeepItem
     \/ /\ Land(w) \/ UNCHANGED published
        /\ Set(w, "UNCERTAIN") /\ Continue(w, "verify", NoItem, 0) /\ KeepItem
     \/ /\ UNCHANGED published
        /\ Set(w, "FAILED") /\ Continue(w, "undo", Seen(item.state, item.version, 0), 0) /\ KeepItem
  /\ KeepContent /\ UNCHANGED <<jobs, faults>>

\* Slip: what is not found on readback counts as made.
VerifyAnyway(w) ==
  /\ tick[w].pc = "verify"
  /\ Set(w, "VERIFIED") /\ Continue(w, "confirm", Seen(item.state, item.version, 0), 0)
  /\ UNCHANGED <<content, published, calls, faults>>

\* _reconcile: found on readback; not found, or something else; or verify raises.
\* The item is read again to be moved.
Verify(w) ==
  /\ tick[w].pc = "verify"
  /\ \/ /\ published[Job(w)] # Unsent
        /\ Set(w, "VERIFIED") /\ Continue(w, "confirm", Seen(item.state, item.version, 0), 0) /\ Smooth /\ UNCHANGED jobs
     \/ Set(w, "FAILED") /\ Continue(w, "undo", Seen(item.state, item.version, 0), 0) /\ Smooth /\ UNCHANGED jobs
     \/ UNCHANGED attempts /\ Report(w, "FAILED")
  /\ KeepItem /\ KeepContent /\ UNCHANGED <<published, calls>>

\* The last move of _reconcile.  The item it reads again within the transaction
\* comes over another connection, which does not see the move before it.
Confirm(w) ==
  /\ tick[w].pc = "confirm"
  /\ CASE Moves(w) /\ Read(w).state = "PUBLISHING" ->
            MoveItem(w, IF item.state = "PUBLISHED" THEN "VERIFIED" ELSE "PUBLISHED")
       [] Moves(w) /\ Read(w).state = "PUBLISHED" -> MoveItem(w, "VERIFIED")
       [] OTHER -> KeepItem
  /\ Report(w, "DELIVERED")
  /\ KeepContent /\ UNCHANGED <<attempts, published, calls>>

\* _after_failure: back to SCHEDULED; the job does not come back.
Undo(w) ==
  /\ tick[w].pc = "undo"
  /\ IF Moves(w) /\ Read(w).state \in {"DUE", "PUBLISHING"} THEN MoveItem(w, "SCHEDULED")
                                                            ELSE KeepItem
  /\ Report(w, "FAILED")
  /\ KeepContent /\ UNCHANGED <<attempts, published, calls>>

\* The process dies: nothing looks for an ENQUEUED job again.
TickDies(w) ==
  /\ tick[w].pc # "idle"
  /\ Fault /\ End(w)
  /\ UNCHANGED <<content, attempts, published, calls>>

TickStep(w) == \/ Refresh(w) \/ TurnAway(w) \/ ClaimJob(w) \/ SendMessage(w)
               \/ Request(w) \/ Execute(w) \/ Publish(w) \/ Verify(w)
               \/ Confirm(w) \/ Undo(w)

TickNext == \E w \in Ticks : TickStep(w) \/ TickDies(w) \/ \E j \in Jobs : TakeJob(w, j)

===============================================================================
