# TLA+ models of Agent Mission Control

This directory models the parts of the repository where several processes act on
shared rows and may die between any two transactions: the **durable runtime**
(leased jobs, write-ahead intents, bounded ticks), the **governed action plane**
(approved, budgeted, reconciled external effects), the **agency job queue** with the
workers that run and deliver agency runs, the **publication schedule** of projects, the
**execution fabric** that executes the work orders of a mission, and
the **commerce proxy** (checkouts, webhooks and payouts over one ledger of
commissions). Each is a detailed specification translated from the code and checked by
TLC on small instances; the promises of each are an abstract specification that
the detailed one is shown to implement, and TLAPS proofs cover all instances of what
section 4 lists.

To check a run: `tlc -config DurableRuns_safety.cfg DurableRuns.tla`; to check the
proofs: `tlapm DurableRuns_proofs.tla` and the same for the other modules whose name ends
in `_proofs`. The run
names below are those of `PROJECT.json`, where every definition is mapped to its lines.

## 1. The system

The control plane is a Python service (`services/langgraph`): FastAPI routes over
modules that keep all their state in one SQL database (SQLite or PostgreSQL).
Processes share nothing else. `transaction(write=True)` is the unit of atomicity; what a
function does between two transactions, or between a transaction and a call to a
handler, an adapter or a provider, can interleave with every other process, and a
process can stop there for good. A second program, `aisl-proxy` (TypeScript), is an
independent commerce proxy with its own database. `apps/web` and `packages/` are the
console and shared types.

| component | state | operations | interacts with | what is hard | what makes it correct |
|---|---|---|---|---|---|
| durable runtime (`persistence/durable_runs.py`, `agency/durable/ticks.py`, `fsm.py`) | `durable_jobs` rows (state, lease owner, token and expiry, logical tick, attempts, fingerprints), `durable_intents` rows | create, claim, renew, transition, operator move, reserve / mark / settle / commit intent, one tick | handlers, operators, approvals | leases that expire under a running worker; a move that reads and writes in two transactions; a crash anywhere; lost acknowledgements; retries | one lease holder acts at a time; every effect is journalled before it is made; a tick is committed once; a stop is final; interrupted work is taken up again |
| job handlers (`visual_job.py`, `rendering/service.py`, `intake/release.py`) | artifact versions, render candidates, approvals | precheck, probe, dispatch, observe, verify, on_commit; cancel, review, resume | durable runtime | effects that are not fenced; late workers | a render is made once; a stopped render registers nothing; reviews are about the newest version |
| action plane (`agency/actions/gateway.py`, `persistence/actions.py`, `fsm.py`) | `action_requests` rows with a version, `action_budget_reservations` | propose, dispatch, cancel, expire, reconcile, sweep, retry, compensate | broker, adapters, budget ledger | concurrent callers of one action; unknown outcomes; slow workers taken for dead; partial failure of a compensation | no effect without approval; a spend is charged once; money follows what the provider shows; the transition table is kept |
| approvals (`broker.py`, `persistence/approvals.py`) | approval rows bound to a hash | open, decide, stale | actions, jobs | decisions racing with dispatches | an approval authorises exactly what was approved |
| agency job queue (`persistence/jobs.py`, `runtime/worker.py`, `api/routes/agency.py`) | `amc_jobs`, run records, idempotency records, the LangGraph thread of a run | enqueue, claim, heartbeat, complete, fail, expire, cancel; create and resume jobs; decide an approval | LangGraph workflow, approvals | suspended workers that come back; delivery resumed after a crash; statuses written without a fence | a job is settled once and by its holder, and always in the end; nothing is delivered that nobody approved |
| project operations (`persistence/project_ops.py`) | content items, scheduled jobs, publication attempts | move, edit, approve, schedule; the scheduler tick with gate, claim, publish, readback | outbox, external channels | edits racing with ticks, overlapping ticks, unknown outcomes | a job is delivered once, after readback, with a version that was approved |
| reliability kernel (`agency/reliability`) | facts with epochs, outbox | write, publish, consume | consumers | at-least-once delivery | no fact is lost or applied out of order |
| execution fabric (`agency/execution_fabric`) | idempotency records, dispatch permits, versions and provenance of artifacts, receipts | reserve, permit, dispatch, commit, observe, complete; reconcile the reservation of another | skills, people who revise the artifact | a death between any two of its transactions; executions in parallel; leases that lapse under a slow skill; reservations failed without a fence | an execution writes its version once; what is reported succeeded landed and was read back; an interrupted one is found out and finished |
| invalidation (`persistence/invalidation.py`) | graph of artifacts | propagate staleness | releases | cycles, partial updates | what depends on a change is stale |
| request admission (`security/`) | nonces, rate counters | admit, refuse | routes | distributed counters | limits hold |
| commerce proxy (`aisl-proxy`) | checkout keys, conversions, webhook events and their keys in Redis, payouts and their items | checkout with compensation, webhook, payout sweep, reconcile | merchants, payment rail | duplicated and reordered webhooks, clawbacks, overlapping sweeps, lost answers | one commission for a payment, one payout for a conversion, one reversal for an event |
| creative pipelines, quality, integrations, UI | documents | generate, score, render | - | - | pure transformations, left aside |

`PROJECT.json` lists every component with its status, and under `hazards` what is hard
to test, at its line, with the properties that are about it.

## 2. Modules

| module | what it is |
|---|---|
| `RunFSM` | the run state machine of `agency/durable/fsm.py`: states, `InFlight`, `Claimable`, `Edges` |
| `RunLedger` | abstract: what the durable runtime promises about one job |
| `DurableRuns` | the durable runtime with its workers, operator, approver and two kinds of jobs |
| `DurableRuns_proofs` | its theorems |
| `DurableEffects_proofs` | its theorems about failures, candidates, receipts and approvals |
| `ActionFSM` | the transition table of `agency/actions/fsm.py` |
| `ActionLifecycle` | abstract: what the action plane promises about one action |
| `ActionGateway` | the gateway with its callers, sweep, approvals, budget and provider |
| `MCActionGateway` | symmetry for TLC |
| `ActionGateway_proofs` | its theorems |
| `JobLedger` | abstract: what the queue promises about a job |
| `IdempotencyRecords` | the three operations on an idempotency record, as functions of its status |
| `AgencyJobs` | the queue, its workers, one run with its thread, approvals and requests |
| `AgencyJobs_proofs` | its theorems |
| `CommissionSplit` | the arithmetic of a commission |
| `PaymentRail` | the payment provider, as the proxy uses it (external) |
| `CommissionLedger` | the conversions: sales and reversals |
| `Checkout`, `StripeWebhooks`, `AgentPayouts` | the three services over the ledger, each with its own rows and processes |
| `Commerce`, `MCCommerce` | their composition and its properties; symmetry for TLC |
| `AgentAccount` | abstract: what the proxy promises an agent about the commissions it earns |
| `Commerce_proofs` | the theorems of the composition and of the arithmetic |
| `AgentAccount_proofs` | that the composition implements `AgentAccount` |
| `ContentSchedule` | a content item, its approval, edits and scheduled jobs |
| `PublicationPipeline` | the scheduler tick over them |
| `PublicationLedger` | abstract: what the scheduler promises about one item and its jobs |
| `Publications`, `MCPublications` | their composition and its properties; symmetry for TLC |
| `Publications_proofs` | its theorems |
| `FabricLedger` | abstract: what the execution fabric promises about one artifact |
| `ExecutionFabric` | its consumers on one artifact, with the people who revise it |
| `ExecutionFabric_proofs` | its theorems |

### DurableRuns

One action is one transaction of `durable_runs.py`, one call of the handler, or a crash.
Each worker has a program counter `pc`, the point of `run_tick` it is at; its name says
what comes next (`reserve`, `dispatch`, `toVerifying`). What the worker remembers of the
job is `wjob`, `wtok` (its fencing token) and `wtick`; `rd` is the state it has read
inside `transition()`, which reads in one transaction (`MoveRead`) and writes in another
(`MoveWrite`, `ReleaseWrite`, `FailWrite`, `FinalWrite`). `MoveLost` and `MoveRefused`
are the two ways it raises `StaleFence`. Claims are `ClaimRead` and `ClaimCAS`.

| code | model |
|---|---|
| `durable_jobs.state`, `lease_token`, `lease_owner`, `logical_tick`, `attempts` | `state`, `token`, `owner`, `tick`, `attempts` |
| `lease_expires_at > now` | `live`; `LeaseExpires` lets time pass |
| `version` compare-and-set of the claim | `fresh`: the version this claim read is current; every writer calls `Touch` |
| `failure_fingerprints` | `seen`, sets of (reason, environment) |
| `durable_intents.status`, `pre_image.version`, `receipt` | `intent`, `pre`, `receipt`, per logical tick |
| artifact versions, or candidates of a render job | `effects[j]`: for each, the tick it was rendered for |
| approvals bound to a version | `approval[j][version]` |
| `operator_move`, `cancel`, decisions, `settle_waiting_approval` and `resume` | `OperatorMove`, `CancelStop`, `Decide`, `SettleApproval` |

`next_due_at` is left out: a claimable job may be due whenever somebody looks, which
allows every schedule. `RenewLease` is offered to a running worker at any point,
although no caller in the product code uses it today.

The abstraction `RunLedger` has three variables: the state, the counter and the set of
committed ticks. `LedgerSpec` of `DurableRuns` instantiates it with the set of ticks
whose intent is `COMMITTED`.

### ActionGateway

One action is one transaction of `persistence/actions.py` or one adapter call. A caller
is a request or a sweep in progress. Every state change is a compare-and-set on the
version and state of the row the caller read last, so `CAS` is the one operator through
which states change, `fresh` says whether it would succeed, and `MoveLost` is the
`ActionConflict`. The three clocks (lease, expiry of the action, expiry of a
reservation) are one bit each.

| code | model |
|---|---|
| `state`, `attempts`, `reconcile_attempts`, `retry_eligible`, `budget_reservation_id` | `st`, `attempts`, `recon`, `eligible`, `resv` |
| `lease_expires_at` | `lease`: none, live or expired |
| `action_budget_reservations` | `ract`, `rstat`, `rdue` |
| the provider's record of the effect key | `provider`: absent, applied or compensated |
| `governance.uncertainty` | `Unresolved`: the tenant's actions that are UNKNOWN, RECONCILING or NEEDS_HUMAN |
| `propose` | `Propose`, `PlainMove`, `Route` |
| `dispatch` with `_settle` and `preflight` | `Dispatch`, `Settle`, `Preflight`, `Reserve`, `ToReserved`, `ToDispatching`, `Execute`, `Observe`, `CommitBudget`, `ToCompleted` |
| `_release_budget` before the final move | `ReleaseBudget` at the release points |
| `reconcile`, `recover_stale`, `retry`, `compensate` | `Reconcile`, `Probe`, `Sweep`, `Retry`, `Compensate`, `ApplyCompensation`, `Refund` |

The actions are those of one tenant. `preflight` lets a hold go before a block: from
class R3 on (`ApprovalActions`: an action needs approval by its class exactly from there
on) a dispatch is refused while `Unresolved` is not empty. The check is made once: an
action that becomes unresolved after it does not stop a dispatch already past it.

The gateway never calls `assert_transition`; `ActionLifecycle` is the table as a
specification, and `LifecycleSpec` says that the gateway keeps it all the same.

### AgencyJobs

One action is one transaction, or one execution of the LangGraph graph. A worker is a
process with its heartbeat thread: while it is not `stalled` it renews the lease of its
job, so that a lease lapses (`LeaseLapses`) only for a worker that is dead, suspended or
done. A stalled worker comes back (`Wake`) where it was. The content of a generation is
its number; approval *n* is the one that generation *n* opened.

| code | model |
|---|---|
| `amc_jobs`: status, attempt_count, claim_token, lease_expires_at | `jobs[j]`; the attempt number stands for the random token, which is replaced with every claim |
| the run record's status, and the content stored with it | `run`, `art` |
| approvals of the run, with the quality verdict stored with the content | `approvals` |
| LangGraph checkpoint of the thread | `ckpt`: before, part-way, paused at the gate, done |
| idempotency records | `idem`, moved by the operators of `IdempotencyRecords` |
| `poll_once`, `handle_job` | `ExpireStaleLeases`, `ClaimJob`, `QueueEmpty`, `StartJob`, `CompleteJob`, `FailJob` |
| `_execute_create_job` | `EnsureRunRunning`, `ReviveRun`, `RunGraph`, `GraphRaises`, `AwaitApproval`, `SettleKey` |
| `_execute_resume_job` | `ReleaseGuards`, `BeginDelivery`, `LoadCheckpoint`, `RunDelivery`, `DeliveryRaises`, `CompleteRun`, `RecordRunFailure`, `FailKey` |
| the resume and decide routes | `ResumeRequest`; `DecideRead`, `ResolveApproval`, `RejectRun` |

### Commerce

`Checkout`, `StripeWebhooks` and `AgentPayouts` extend `CommissionLedger`, which extends
`PaymentRail`; each adds the rows it owns and the processes that work on them, and calls
the operations of the ledger and of the rail in its steps. `Commerce` lets them
interleave. `Fault` is a call that raises or a process that dies, at whatever step; a
call of the rail that raises may have had its effect. So may a transaction whose answer to
COMMIT is lost: `MarkPaid` may write PAID and raise, upon which `MarkFailed`, which looks
at no status, makes the payout FAILED and releases its items; `CompleteEvent`
may store the outcome of an event and raise. For the other transactions the caller is left where a death or a failure of its next
step leaves it, and that is in the model.

| code | model |
|---|---|
| `conversions` | `conv`, in the order of `created_at`; a reversal names its sale and its event |
| `checkout_idempotency`, orders at the merchant | `checkoutKey`, `orders` |
| payments at the rail and the events it delivers | `rail`, `emitted` |
| Redis dedupe keys, `webhook_events` | `cache`, `eventRow` |
| `payouts`, `payout_items`, transfers at the rail | `payouts`, `claimed`, `landed` |
| `checkoutService.execute` | `ClaimKey`, `Authorize`, `CreateOrder`, `Compensate`, `SettleSale`, `CompleteKey`, `ReleaseKey` |
| `webhookService.handle` | `Deliver`, `ClaimEvent`, `Dispatch`, `CompleteEvent`, `ReleaseEvent`, `DropKey` |
| `payoutService`, `payouts.claim` | `ReadEligible`, `ClaimItems`, `Transfer`, `MarkPaid`, `MarkFailed` |

`claim()` of a payout is one transaction at READ COMMITTED with row locks. It is two
steps: its select sees a snapshot, and `FOR UPDATE OF c` looks again at the rows of
`conversions` that have changed since, but not at `payout_items`; the unique index of
that table aborts the transaction when another sweep was faster.

### Publications

The calls of an editor end in a transaction that compares what they have read, so each
is one step of `ContentSchedule`; `revise_content_item` compares the version only and
computes the next state from an earlier read, so it is two. In `PublicationPipeline`
each tick carries what it has read of the item (`item`, `body`) from one transaction to
the next; what only the tick itself reads back is forgotten as soon as it is used.

| code | model |
|---|---|
| `content_items`: state, version, approved_version | `item` |
| `scheduled_jobs`, keyed by idempotency key | `jobs`: a job is its key |
| `publication_attempts`, the provider's ledger | `attempts`, `published` |
| `transition_content_item`, `revise_content_item`, `schedule_*` | `TransitionItem`, `OpenEdit` and `SaveEdit`, `ScheduleItem`, `ScheduleRefresh`, `ScheduleStep` |
| `run_scheduler_tick`, `_run_refresh`, `_run_delivery` | `TakeJob`, `Refresh`, `TurnAway`, `ClaimJob`, `SendMessage` |
| `execute_publication`, `_reconcile`, `_after_failure` | `Request`, `Execute`, `Publish`, `Verify`, `Confirm`, `Undo` |

### ExecutionFabric

The cells of a sub-wave never share an artifact (`_sub_waves`), so what an execution
does to one artifact is a sequence, and one artifact is modelled. A consumer works on
one key (the hash of a work order with its inputs) at a time; the head of the artifact
is the length of `history`, which says who wrote each version. `pc` names the next
transaction. What a consumer remembers is `snap`, the head when it prepared the cell,
and `seen`, the version it has read since: the pre-image of a permit while it
reconciles, the head it reports afterwards.

| code | model |
|---|---|
| `idempotency_records`, whose `updated_at` is older than `lease_seconds` | `idem`, moved by the operators of `IdempotencyRecords`; `lapsed` |
| `dispatch_permits`: the target version in `dependency_version_refs` | `permit`, one per key, overwritten |
| artifact version; `metadata.v2.provenance_ref` | `history`; `provenance` |
| execution and observation receipts | `witnessed` |
| `_prepare`, `_intent`, `_dispatch` | `Prepare`, `Reserve`, `Dispatch` |
| `_reconcile` | `ReadPermit`, `Compare`, then `Adopt`, or `Release` and `Retake` |
| `_commit` | `Write` (and `Insert`, `Stamp`: `create_artifact`; `_set_metadata` after a revision), `ReadHead`, `Observe`, `Complete`, `GiveUp` |
| `revise_project_artifact`, `restore_artifact_version` by people | `OpenRevision`, `Revise`, `StampRevision` |

`contested` is a history variable: the keys whose reservation was failed although they
had landed, or while a consumer was at work under it. The ledger excuses these: "never
write a second version" (`consumer.py:395`) is kept for the others.

## 3. Runs

| run | instance | what it checks and shows |
|---|---|---|
| `safety` | 1 recurring approval job, 2 workers, 2 ticks, 3 leases | fencing (`FenceExclusive`), what the current holder may rely on (`HolderKnowsRow`, `HolderKnowsJournal`), ticks committed once and in order (`CountedTicksCommitted`, `LedgerSpec`), write-ahead (`EffectsFollowIntent`), receipts never going back (`ReceiptsAdvance`), finality of a stop (`StopIsFinal`), no lease resurrected (`ExpiredLeaseIsDead`) |
| `render` | 1 render job, 2 workers, 2 environments, 3 leases, attempts up to 3, fair | one candidate per tick whatever crashes (`RenderedOnce`), a job that waits waits for an approval that was asked for and that nobody has staled (`AwaitedApprovalExists`), negative knowledge (`RetriesAreNew`), a stopped render accepts nothing (`StoppedRenderAcceptsNothing`), an in-flight job is taken up again (`InterruptedTickMovesOn`) |
| `gateway_safety` | 1 spend action with approval, 2 callers, 3 reservations, ceiling 2, 2 attempts, symmetric callers and reservations | `EffectsWereApproved`, `ReservedWithinCeiling`, `MoneyFollowsProvider`, `SpendCommittedOnce`, `LifecycleSpec` |
| `gateway_live` | 1 action, 2 callers, 2 readable reconciliations, up to 3, fair | `LeasedStateLeft` |
| `agency_jobs` | 2 workers, a create and a resume job, 2 attempts, 3 generations, 1 death or stall, 1 error or cancellation, fair | the queue keeps its ledger (`JobsKeepLedger`) and only the holder settles a job (`SettledByHolder`), whoever comes back late; degraded content is never delivered (`DegradedNeverDelivered`) and nothing without a decision (`DeliveryAuthorised`), whichever guard was skipped; every job is settled (`JobsSettle`) |
| `commerce` | 2 purchases, 2 handlers, 1 delivery at a time, 2 sweeps, 1 fault, 1 refund or dispute, all symmetric | `OneCommissionPerPayment` (whatever is retried, ordered twice or compensated), `ClaimsExclusive`, `ReversedOncePerEvent`, `CheckoutsExclusive`, `AccountKept` (the refinement of `AgentAccount`: what an agent is owed and was paid moves only by sales, settlements, reversals and payouts of whole claims) |
| `publications` | 1 item with 2 versions, 2 jobs, 2 ticks, a live provider, 1 fault, symmetric ticks | `DeliveredVerified`, `LedgerKept` (the refinement of `PublicationLedger`: a job is given to the provider once, for an approved version, confirmed after a readback, and then never touched) |
| `fabric` | 2 consumers, 2 keys of one artifact, 2 upsets, fair | the refinement of `FabricLedger` (`LedgerSpec`): one version per key that is not contested, reports of what landed and was witnessed only, whoever dies, stalls or edits; a reservation that its consumer left behind is taken up again, as far as it can be told whether its write landed (`AbandonedRecovered`) |

Four further questions have the answer no; each is a run in which TLC finds the
counterexample, and a finding in `PROJECT.json` quotes the text that says otherwise:

| run | what the code does |
|---|---|
| `gateway_spend` | overdue reservations of actions in flight (DISPATCHING, OBSERVING) stop counting; the ceiling is exceeded |
| `agency_gate` | a create job that is claimed again revives a run in delivery and generates new content under it; the delivery delivers that, unapproved |
| `commerce_paid` | a transfer whose answer is lost, or whose booking as paid fails, releases its claim; the next sweep pays the same conversions again |
| `publications_body` | an edit saved between the read of the item and the read of its body is published under the old approval |

How far each of these goes is itself proved. `OverspendLapsed`: the ceiling is exceeded
by at most the number of spends whose reservations all lapsed, and nothing was spent that
had not been reserved. `PaidTwiceOnlyLost`: two transfers share a conversion only if one
of them was given up as failed, and there are at most as many of these as calls that
failed. `GivenInOrder`: what goes out is an approved version with a body no older than
that version. `DeliveryAuthorised`: of a run that was generated once, only approved content
is delivered; `GateHoldsOnce`: as long as no worker has claimed the create job a second
time, the run is generated once.

The models show further behaviour that no run is spent on: a worker that dies between
its move to INCONCLUSIVE and the move to SCHEDULED (`ticks.py:259-270`) leaves a job
that no claim looks for, and in that window an operator may move the job under a live lease; a superseded worker stales the approval
of a newer version; readback failures and inconclusive verdicts are retried without
being counted; a slow caller makes its effect after the read-back that found none;
VERIFIED keeps a lease that the sweep does not recover; a webhook whose database claim
raises is acknowledged at its redelivery without having been processed; a refund that
arrives before its sale is recorded is ignored for good; a tick that dies after its claim leaves a
job ENQUEUED for ever; a resume job that finds its run completed leaves its key executing.

Of the gateway: a cancellation or expiry that loses its final move to a dispatch has
released the reservation all the same, so that a spend goes on without one. An action that
has become UNKNOWN is no way to pass the ceiling, as the preflight holds the next spend.

Of the payouts: one that is PAID becomes FAILED when the answer to that COMMIT is lost, with
its ledger legs left behind; so `AgentAccount` promises that a failed payout is
final, not that a paid one is.

Of the execution fabric: a key does write a second version when it is contested, that
is after a readback that did not match, when two executions release the same lapsed
reservation one after the other (the second failure takes the reservation the first one
was granted), or when a live consumer overruns its lease. A consumer that dies between
its reservation and its permit, or between the new version and its provenance, leaves a
cell that is RECONCILE_DIVERGENT at every later execution, until the record expires:
this is why `AbandonedRecovered` speaks of reservations that can be told apart only. The
head that a consumer reports may be a newer version by somebody else, and may be
adopted for it when a person has revised its version, as a revision keeps the
provenance. Two first writers of an artifact end with an uncaught error of the second.

### Bounds

`MaxToken` bounds the leases of a job and `MaxTick` its ticks; they are guards of the
claim. `ReconBound` bounds reconciliations. Nothing else is bounded, the effects of a job
and the attempts follow from these. Two workers and three leases are enough for one
superseded worker, a second one superseded in turn and a third holder; two ticks for a
late worker of one tick to meet the next; three reservations for two racing dispatches,
one of which orphans its reservation, and a retry that reserves again. One job or action
suffices in the safety runs because the rows of different jobs are touched by different
steps only (the budget is the exception, and `gateway_spend` has two actions).
`MAX_ATTEMPTS` and `MAX_RECONCILE_ATTEMPTS` are 3 in the code and smaller in the runs; the
proofs are for every value.

`AgencyJobs` is bounded by `MaxJobs`, `MaxGens` (executions of the graph), `MaxLosses`
(deaths and stalls) and `MaxUpsets` (errors and cancellations); with two jobs and three
generations a create job can be claimed again while its run is delivered, which is
the case that matters. `Commerce` has `MaxFaults` and `MaxClaims`: one fault is enough
to leave any of its claims half done, and one refund or dispute to meet every stage of
its sale; two purchases let a sweep hold a conversion that another one misses. The run has one
delivery at a time, so an event that is delivered twice is delivered again; that
deliveries of one event may overlap is covered by the proof, which is for any number of them.
`ExecutionFabric` has `MaxUpsets`: two are a death and a lapsed lease, a death of the
one who reconciles, or an edit in the middle of a recovery; two keys let the versions
of one execution come between the permit and the head of another.
`Publications` has `MaxVersion`, `MaxJobs`, `MaxFaults` and the set `Targets` of states
editors move the item to: the run leaves out those that only end a lifecycle (ARCHIVED,
MEASURED and so on), and one edit is open at a time.

Deadlock is not checked in the runs that end: a job may be STOPPED, an action
COMPLETED, and at the bounds nothing is left to do. It is checked in `agency_jobs`,
whose worker loops never end.

### Fairness

`DurableRuns`: weak fairness of each running worker's own steps, of time passing, and
strong fairness of a claim of each job. The code justifies it as follows: `run_tick` is
straight-line code without waits, the clock advances, and `rendering/worker.py` is made
to be invoked periodically by a supervisor. Strong fairness is needed as between two
invocations a job may become claimable and cease to be (by an operator). `Crash` has no
fairness: workers may die or not. `ActionGateway`: the same of callers, leases, and the
recovery sweep (`POST /actions/recovery/sweep`, which is called from outside: without
somebody who calls it again and again nothing recovers an action, and the run says so
by assuming it). `AgencyJobs`: weak fairness of the steps of each worker loop, which
`run_worker_loop` repeats for ever and a supervisor restarts, of a suspended worker
coming back, and of the clock passing an expiry. What is not assumed: that an operator
acts, that a human decides, that a client asks, that the provider answers.
`ExecutionFabric`: weak fairness of each consumer's steps, which are straight-line code,
and of leases growing old, and strong fairness of somebody executing a key again: the
report of an execution names the cells that are blocked or failed, and executing the
mission again is what it asks for; without that nothing recovers a reservation. Strong,
because there may be moments with no free consumer.
`Commerce` and `Publications` state no liveness: what their processes leave half done
is, by the code, left to a human.

## 4. Proofs

All theorems are of the form `Spec => ...` for arbitrary sets of jobs, workers, actions,
callers and reservations (the last finite, as a table is) and arbitrary bounds, from the
named assumptions of the modules: the null values are not members, render jobs need
approval, spends need approval, bounds are natural numbers.

TLC checks nearly all of what is proved on the instances of section 3. A few properties
are in no run, since a stronger one is there or since the proof says what a run
would only repeat; these were checked on the instance of the run of their component
before they were proved, and are marked * below.

The families below `ActionGateway_proofs` are laid out alike: the invariant is a
conjunction of named parts, a first layer of lemmas says what kinds of steps there are
for one piece of state, and the part of the invariant about it is proved from the kinds.

### DurableRuns_proofs

| theorem | property |
|---|---|
| `TypeCorrect` | `TypeOK` |
| `FencingCorrect` | `FenceExclusive` |
| `RowCorrect`, `JournalCorrect` | `HolderKnowsRow`, `HolderKnowsJournal` |
| `CountedCorrect` | `CountedTicksCommitted` |
| `LeaseCorrect` | `ExpiredLeaseIsDead` |
| `StopCorrect`, `LateRenderCorrect` | `StopIsFinal`, `StoppedRenderAcceptsNothing` |
| `WriteAheadCorrect` | `EffectsFollowIntent` |
| `LedgerCorrect` | the refinement of `RunLedger` |

The inductive invariant is

    IInv == Typed /\ FenceExclusive /\ ReadsLegal /\ InFlightOwned /\ Holders

What one wants to know is `Holders`: the worker whose token is the row's knows the row
and the journal. It is not inductive alone. A move that has passed its read writes the
edge it saw then, so the pending reads must be legal (`ReadsLegal`); another worker
could write under the same token unless tokens are exclusive (`FenceExclusive`); and the
operator is kept out of an in-flight job by its owner being set, a dead lease or not
(`InFlightOwned`). The step lemmas are split by actor: a step of somebody else leaves
what the holder knows (`OthersKeepRow`), the holder's own step re-establishes it. The
refinement then follows, as a commit or an advance is made by a holder, whose tick is
`tick + 1` and whose intent is unsettled or committed as `RunLedger` requires.

### DurableEffects_proofs

| theorem | property |
|---|---|
| `RetryCorrect` | `RetriesAreNew` |
| `RenderedCorrect` | `RenderedOnce` |
| `ReceiptCorrect` | `ReceiptsAdvance` |
| `OneAheadCorrect` | `JournalOneAhead` *: the journal has no gap and is one tick ahead of the counter at most |
| `SettledCorrect` | `SettledIntentsFinal` *: nothing is written over a committed or failed entry |
| `ApprovalCorrect` | `ApprovalsOfReceipts` *: an approval is for a candidate that some tick has committed |
| `AwaitedCorrect` | `AwaitedApprovalExists` |

Invariants of what ticks leave behind, each relative to `IInv`. The steps are first
reduced to the few that charge an attempt (`ChargeSteps`), add an effect (`EffectSteps`) or
write the journal (`JournalChanges`).

- `RetryCorrect` needs that a job with attempts remembers a failure (`Charged`), as a
  committed tick gives the attempts back and keeps the fingerprints, and that `MAX_RETRIES`
  is 3: the second failure is the last one that may be retried.
- `RenderedCorrect` needs `RenderInv`: the pre-image of a render job has no version, so a
  probe that finds no effect finds no candidate at all, and the holder that goes on to
  render does so for a tick without one; a dispatch of anybody else is refused by the fence.
- `ReceiptCorrect` needs `ReceiptInv`: what the holder has observed can be its receipt
  (`Fits`), and goes on to, as the receipts of earlier ticks are settled
  (`CountedTicksCommitted`) and versions are never taken away.
- `AwaitedCorrect` stands on the two before it. The holder ends its tick on what is in
  the journal (`Confirmed`: over a committed intent it has observed the receipt), each
  candidate took a lease of its own, so its version is among those approvals are kept
  for (`RoomToRender`), and what makes the approval that the holder opened (`Asked`)
  stale is only the commit callback of the holder of a job in flight, of which there is
  none between that approval and the decision. The theorem is about render jobs; of visual jobs it would be
  false: the commit callback of a superseded worker is not fenced and may stale
  the approval of the version that was committed, which the wait settles as "stale".

### ActionGateway_proofs

| theorem | property |
|---|---|
| `TypeCorrect` | `TypeOK` (the bound on attempts included) |
| `LifecycleCorrect` | the refinement of `ActionLifecycle` |
| `ApprovalCorrect` | `EffectsWereApproved` |
| `CeilingCorrect` | `ReservedWithinCeiling` |
| `MoneyCorrect` | `MoneyFollowsProvider` |
| `SpendCorrect` | `SpendCommittedOnce` |
| `OverspendCorrect` | `OverspendLapsed` * |

The base of the induction is `Base`: types, `Knows` (a caller whose copy of the row is
current knows the states its next move may start from) and `AttemptsLeft` (an action that
may yet be dispatched has an attempt left, which is what bounds `attempts`). On it stand
four independent invariants: `Effects` (nothing at the provider before a dispatch was
counted; who confirmed an effect did see it), `Approvals` (past the preflight the action
was approved, and an approved approval never changes), `Holdings` (a reservation held by
a row or a caller is the action's own) and `Charges` (an action not yet VERIFIED has no
charged reservation, and at most one caller is about to charge it). A first layer of
lemmas says what any step does to one piece of state (`StateSteps`, `ProviderSteps`,
`ApprovalSteps`, `BudgetSteps`, `AttemptSteps`) and where a caller can come from
(`Arrivals`); the invariants are proved from these without going through the actions
again. `CeilingCorrect` needs the cardinality facts of finite sets, and is the only one
with `OverspendCorrect` that uses the finiteness of `Reservations`. The latter adds
`Backing`: a spend that is RESERVED or further has a reservation, as a call becomes one
that dispatches only through the reservation, and a reservation once made is never
taken off the table; the spends that still hold one count against the ceiling, the
others have lapsed.

### AgencyJobs_proofs

| theorem | property |
|---|---|
| `TypeCorrect` | `TypeOK` |
| `DegradedCorrect` | `DegradedNeverDelivered` |
| `AuthorisedCorrect` | `DeliveryAuthorised` |
| `LedgerCorrect` | the refinement of `JobLedger` |
| `SettledCorrect` | `SettledByHolder` |
| `AttemptsCorrect` | `AttemptExclusive` * |
| `GateCorrect` | `GateHoldsOnce` * |

The queue part is the lemma `QueueSteps`: every step shuffles rows that stay open,
enqueues, attempts one job or settles one, and a running job has been attempted
(`RunningAttempted`, without which `JobLedger` could not settle it). The refinement
follows from these four kinds alone. For delivery the induction is over `RunInv` and
`WorkersInv`: contents and decisions are never withdrawn (`Kept`), what a worker has
established by reaching its `pc` (`Fit`: the checkpoint it read is of a content that
exists; past the guards somebody has approved) therefore stays established however long
it is suspended. That a worker skips the guards for a run it finds in "delivering" is
covered by the last part of `DeliveredInv`.

That an attempt has one worker is inductive by itself: the token a claim issues is larger
than every token of the job before, and a token is never given up for another (`BusyBefore`
lists how a worker comes to be where it is). With it the extent of the finding is proved
from two more invariants. `Kinds`: the first job is the create job, every other one a
resume job, and a worker takes the steps of its own kind. `Once`: until the create job is
claimed again, either nothing has been generated, and then the run has not reached
"needs_approval" and no resume job or decision exists (`Ungenerated`), or there is one
content and no worker is left on the way to another one (`GeneratedOnce`). The step from
the one to the other is where the tokens are needed: a second worker before the graph
would hold the same attempt. Approval stays outside the argument until the end, as a run with
one content delivers only with an approval of something, and that is it.

### Commerce_proofs

| theorem | property |
|---|---|
| `TypeCorrect` | `TypeOK` |
| `CommissionCorrect` | `OneCommissionPerPayment` |
| `ClaimsCorrect` | `ClaimsExclusive` |
| `ReversalCorrect` | `ReversedOncePerEvent` |
| `CheckoutCorrect` | `CheckoutsExclusive` |
| `RefundCorrect` | `RefundFinal` * |
| `PaidCorrect` | `PaidTwiceOnlyLost` * |
| `SplitBounded` | of `CommissionSplit`: with a cut of at most the rate no part is negative |
| `SplitFair` | of `CommissionSplit`: truncation costs the merchant nothing and gives it less than a cent; it moves the agent by less than a cent |
| `ReversalExact` | of `CommissionSplit`: the split of the negated amount is the negated split |

    IInv == TypeOK /\ OldestEarns /\ ReversedOncePerEvent /\ CheckoutInv /\ Delivers /\ PayoutInv

Every step adds a sale, settles one, adds a reversal or leaves the ledger
(`LedgerStep`). `OneCommissionPerPayment` needs `OldestEarns`: of the sales of a payment
only the first can have earned, as settlement looks for the oldest. `CheckoutInv` ties a
key to the one handler that serves it and says what that handler has done by its `pc`;
`ReversedOncePerEvent` is inductive by itself (`Delivers` only says that a delivery at work
has an event); `PayoutInv` that each claimed conversion belongs to one payout, on which one
sweep works, and that this payout is in flight, or at worst paid without the sweep
knowing (`InHand`). That the parts of a split add up is no theorem: two of them are defined
as remainders. What truncation does to the others is, with integers as exact as those of
the code are while `gross * bps` is a safe integer.
`PaidCorrect` counts the transfers in doubt (`Doubtful`): made, and failed or about to be
released. A step puts at most one there, and that step is the fault.

### AgentAccount_proofs

| theorem | property |
|---|---|
| `AccountCorrect` | `AccountKept`, the refinement of `AgentAccount` |

The mapping takes the row table apart: the commission of a payment has the status of its
oldest sale row, and a reversal is named by the payment and its cause. That different rows of
one payout are different entries follows from `IInv` above: only the oldest sale of a
payment is ever anything but pending, and a cause is one reversal. `AccountInv` adds what a
sweep may rely on when it claims: a sale with a reversal is refunded, what was ever in
a payout had been settled, and a reversal is set off only against a sale that was paid.
The steps are then those of the ledger (`LedgerStep`), each a step of the account or one
it does not see (a second sale row of a payment), and the opening and the ending of a
payout; a positive sum means more commissions than reversals as they are all of one
amount (`TotalPositive`).

### Publications_proofs

| theorem | property |
|---|---|
| `TypeCorrect` | `TypeOK` |
| `LedgerCorrect` | `LedgerKept`, the refinement of `PublicationLedger` |
| `ReadBackCorrect` | `DeliveredVerified` |
| `GivenCorrect` | `GivenInOrder` * |
| `EndedCorrect` | `EndedStays` * |
| `OnceCorrect`, `ApprovedCorrect` | `DeliveredOnce` *, `PublishedWasApproved` * |

    IInv == TypeOK /\ Owned /\ ReadBack /\ ApprovalsBound

A job is delivered at most once because (`Owned`) only the tick that moved it to ENQUEUED works on
it from then on, and nothing moves it back; a tick confirms only what it has read back (`ReadBack`); what it
publishes is what it read, and that was approved, as the approval of a version is never
forgotten (`ApprovalsBound`). The refinement also needs that versions only grow while a
tick is at work (`VersionsKept`): the version a tick has read is at least the one that was
scheduled and at most that of the body it reads afterwards, which is what remains true of
the body when an editor comes between.

### ExecutionFabric_proofs

| theorem | property |
|---|---|
| `TypeCorrect` | `TypeOK` |
| `WriterCorrect` | `OneWriter`: one consumer at work on a key, none about to write once it has landed |
| `LedgerCorrect` | the refinement of `FabricLedger` |

    IInv == TypeOK /\ ConsumersFit /\ RecordsTrue /\ OneWriter

The refinement needs that whoever writes for a key is the first to do so, and whoever
reports has seen it landed. The second is `ConsumersFit` (past its write a consumer's
key has landed, past its read of the head at or before the version it read) with
`RecordsTrue` (provenance, receipts and results name what is in the history), of which
adoption makes use: it trusts the provenance. The first is `OneWriter`, over the keys
that are not contested: a reservation is granted only when the record is free, so when
it was never failed under the key, its holder is alone, and once the key has landed the
record stays executing or completed and is never granted again. `contested` is what
makes this inductive: a failure of a reservation that somebody needs puts the key there,
and any other failure leaves a key that has not landed and on which nobody works.

### Model-checked only

- `InterruptedTickMovesOn`, `LeasedStateLeft`, `JobsSettle` and `AbandonedRecovered`:
  liveness under fairness is beyond the prover.

## 5. What is not modelled

- Several budget policies, their day and month windows, and committed amounts that
  differ from the reserved ones.
- Freezes, lowered autonomy ceilings and policy versions as state: they are outcomes of the
  preflight. (The hold for unresolved actions is modelled.)
- The receipts, permits, metrics, transition and tick logs: written, never read back by
  the operations modelled.
- The handlers of innovation and site-build jobs, and remote render workers.
- The bodies of rendering, generation, verification and provider calls: their outcomes
  are nondeterministic.
- `AgencyJobs`: inline execution without the queue, the expiry of idempotency records,
  request hashes, and the status `cancelled` of a run, which nothing sets.
- `Commerce`: several agents and currencies, the reconciliation service, rotation of
  credentials, the intent search.
- `Publications`: rights, evidence, dependencies and the pause switches as state (they
  block a job and change nothing else), retirement of items, campaigns.
- `ExecutionFabric`: the eligibility of cells, waves, budgets and capsules, which are
  computed from the plan before the first write;
  merges of a branch, which name the branch as provenance; several artifacts, which
  share only the order in which one consumer handles them.
- The retention of idempotency records (`idempotency.py:62-73`). `LedgerSpec`,
  `WriterCorrect` and `LedgerCorrect` hold of a key as long as its record is kept: after
  24 hours a completed key is new, and executing it again writes a second version.
- The other components of section 1 and those `PROJECT.json` lists as not modelled.

## 6. Plan

Order: what can lose money or deliver twice first, then what repeats a pattern already
modelled.

1. *(done)* `DurableRuns` over `RunFSM`, implementing `RunLedger`; proofs.
2. *(done)* `ActionGateway` over `ActionFSM`, implementing `ActionLifecycle`; proofs.
3. *(done)* `AgencyJobs`, implementing `JobLedger`; proofs.
4. *(done)* `Commerce` over one `CommissionLedger`, implementing `AgentAccount`; proofs.
5. *(done)* `Publications`, implementing `PublicationLedger`; proofs.
6. *(done)* `ExecutionFabric`, implementing `FabricLedger`; proofs.
7. `DurableRuns` extended by the innovation handler (a tick inside an outer transaction)
   and the site build (unconditional redo).
8. `Invalidation` as an algorithm against reachability in the graph of artifacts.
