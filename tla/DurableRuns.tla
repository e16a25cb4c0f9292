---------------------------- MODULE DurableRuns ----------------------------
(***************************************************************************)
(* The durable runtime: rows of durable_jobs and durable_intents           *)
(* (persistence/durable_runs.py), the workers that run one bounded tick    *)
(* over them (agency/durable/ticks.py), the operator, and two kinds of     *)
(* jobs: visual jobs (agency/durable/visual_job.py), whose handler writes  *)
(* versions of an artifact with no fence, and governed render jobs         *)
(* (agency/rendering/service.py), whose handler keeps a candidate on the   *)
(* row under the fence and which an authorised caller may cancel.          *)
(*                                                                         *)
(* One action is one database transaction, one call of the handler or one  *)
(* crash; a worker may lose its process between any two of them.           *)
(* transition() reads the row in one transaction and writes it in another, *)
(* so every move is a MoveRead followed by a MoveWrite.                    *)
(*                                                                         *)
(* Wall time is abstracted to one bit per job: `live' says whether         *)
(* lease_expires_at lies in the future.  next_due_at is abstracted away: a *)
(* claimable job may be due whenever a tick looks.  The version column is  *)
(* abstracted to `fresh': whether the version a claim has read is current. *)
(***************************************************************************)
EXTENDS RunFSM, Integers, Sequences, FiniteSets

CONSTANTS Jobs,           \* job ids
          Workers,        \* processes that call run_tick
          NoWorker,       \* lease_owner is NULL
          NoJob,          \* the worker has no job
          RecurringJobs,  \* jobs with recurrence_seconds
          ApprovalJobs,   \* jobs whose spec has requires_approval
          RenderJobs,     \* governed render jobs; the others are visual jobs
          Envs,           \* environment fingerprints the probes may report
          MaxAttempts,    \* durable_jobs.max_attempts
          MaxTick,        \* bound: logical ticks per job
          MaxToken        \* bound: leases per job

ASSUME NoneAssumption == NoWorker \notin Workers /\ NoJob \notin Jobs
ASSUME KindAssumption == RenderJobs \subseteq ApprovalJobs /\ ApprovalJobs \subseteq Jobs
ASSUME BoundAssumption == /\ MaxAttempts \in Nat /\ MaxTick \in Nat \ {0}
                          /\ MaxToken \in Nat \ {0}

MaxRetries == 3   \* ticks.MAX_RETRIES
RetryCap == IF MaxAttempts < MaxRetries THEN MaxAttempts ELSE MaxRetries

Ticks == 1..MaxTick

VARIABLES
    \* the durable_jobs row
    state, token, owner, live, tick, attempts,
    seen,      \* failure_fingerprints
    \* durable_intents, one per logical tick of a job
    intent,    \* status, or "none" when the row does not exist
    pre,       \* pre_image.version
    receipt,   \* the artifact version in receipt.observation
    \* what the handler acts on
    effects,   \* the versions of the target artifact, or the candidates of a
               \* render job: the tick that rendered each
    approval,  \* per version, the status of the newest approval bound to it
    \* the workers' local state
    pc, wjob, wtok, wtick, rd, obs, fresh

rowVars    == <<state, token, owner, live, tick, attempts, seen>>
intentVars == <<intent, pre, receipt>>
artVars    == <<effects, approval>>
storeVars  == <<rowVars, intentVars, artVars>>
localVars  == <<wjob, wtok, wtick, obs>>
workVars   == <<pc, rd, fresh, localVars>>
vars       == <<storeVars, workVars>>

Fingerprints == {"RENDER_FAILED", "VERIFICATION_FAILED"} \X Envs
Unsettled == {"INTENT", "UNCONFIRMED"}
IntentStatus == Unsettled \cup {"none", "COMMITTED", "FAILED"}

\* The version of the artifact's head, or the render job's last candidate; 0
\* while there is none.
HeadVersion(j) == Len(effects[j])

\* The points of run_tick where it moves the job, and the move made there.
Move == [toPrecheck      |-> [to |-> {"PRECHECK"},      then |-> "precheck"],
         toReady         |-> [to |-> {"READY"},         then |-> "reserve"],
         toReconciling   |-> [to |-> {"RECONCILING"},   then |-> "reconcile"],
         toReadyFresh    |-> [to |-> {"READY"},         then |-> "reserveFresh"],
         toReadyRedo     |-> [to |-> {"READY"},         then |-> "toRunning"],
         toRunning       |-> [to |-> {"RUNNING"},       then |-> "dispatch"],
         toUnknown       |-> [to |-> {"RECONCILING"},   then |-> "idle"],
         toObserving     |-> [to |-> {"OBSERVING"},     then |-> "observe"],
         toAdopted       |-> [to |-> {"OBSERVING"},     then |-> "toVerifying"],
         toInconclusive  |-> [to |-> {"INCONCLUSIVE"},  then |-> "toRescheduled"],
         toVerifying     |-> [to |-> {"VERIFYING"},     then |-> "verify"],
         toCommitting    |-> [to |-> {"COMMITTING"},    then |-> "commit"]]

PlainMoves == DOMAIN Move

\* The points where it moves the job and gives the lease back: release(),
\* fail() and the move that ends a committed tick.
Releases == {"toBlocked", "toDeadLetter", "toRescheduled", "fail", "toFinal"}

FinalState(j) == IF j \in ApprovalJobs THEN "WAITING_APPROVAL"
                 ELSE IF j \in RecurringJobs THEN "SCHEDULED" ELSE "DORMANT"

Targets(w) == {s \in RunState :
    \/ pc[w] \in PlainMoves   /\ s \in Move[pc[w]].to
    \/ pc[w] = "toBlocked"     /\ s \in Blocked
    \/ pc[w] = "toDeadLetter"  /\ s = "DEAD_LETTER"
    \/ pc[w] = "toRescheduled" /\ s = "SCHEDULED"
    \/ pc[w] = "fail"          /\ s \in {"RETRY_PENDING", "DEAD_LETTER"}
    \/ pc[w] = "toFinal"       /\ s = FinalState(wjob[w])}

HandlerPoints == {"precheck", "probe", "dispatch", "observe", "verify", "onCommit"}
StorePoints == {"claiming", "reserve", "reserveFresh", "reconcile", "unconfirmed",
                "settleFailed", "lostAck", "commit"}
PCs == {"idle"} \cup PlainMoves \cup Releases \cup HandlerPoints \cup StorePoints

-----------------------------------------------------------------------------

\* The rows, the journal and the workers stay within their types: every state
\* is one of the run state machine, every worker at a point of run_tick.
TypeOK ==
    /\ state \in [Jobs -> RunState]
    /\ token \in [Jobs -> Nat]
    /\ owner \in [Jobs -> Workers \cup {NoWorker}]
    /\ live \in [Jobs -> BOOLEAN]
    /\ tick \in [Jobs -> Nat]
    /\ attempts \in [Jobs -> Nat]
    /\ seen \in [Jobs -> SUBSET Fingerprints]
    /\ intent \in [Jobs -> [Ticks -> IntentStatus]]
    /\ pre \in [Jobs -> [Ticks -> Nat]]
    /\ receipt \in [Jobs -> [Ticks -> Nat]]
    /\ effects \in [Jobs -> Seq(Ticks)]
    /\ approval \in [Jobs -> [1..MaxToken -> {"none", "pending", "decided", "stale"}]]
    /\ pc \in [Workers -> PCs]
    /\ wjob \in [Workers -> Jobs \cup {NoJob}]
    /\ wtok \in [Workers -> Nat]
    /\ wtick \in [Workers -> Nat]
    /\ rd \in [Workers -> RunState \cup {"unread"}]
    /\ obs \in [Workers -> Nat]
    /\ fresh \in [Workers -> BOOLEAN]

\* create_job: SCHEDULED, logical tick 0, fencing token 0, no intent.
Init ==
    /\ state = [j \in Jobs |-> "SCHEDULED"]
    /\ token = [j \in Jobs |-> 0]
    /\ owner = [j \in Jobs |-> NoWorker]
    /\ live = [j \in Jobs |-> FALSE]
    /\ tick = [j \in Jobs |-> 0]
    /\ attempts = [j \in Jobs |-> 0]
    /\ seen = [j \in Jobs |-> {}]
    /\ intent = [j \in Jobs |-> [t \in Ticks |-> "none"]]
    /\ pre = [j \in Jobs |-> [t \in Ticks |-> 0]]
    /\ receipt = [j \in Jobs |-> [t \in Ticks |-> 0]]
    /\ effects = [j \in Jobs |-> <<>>]
    /\ approval = [j \in Jobs |-> [v \in 1..MaxToken |-> "none"]]
    /\ pc = [w \in Workers |-> "idle"]
    /\ wjob = [w \in Workers |-> NoJob]
    /\ wtok = [w \in Workers |-> 0]
    /\ wtick = [w \in Workers |-> 0]
    /\ rd = [w \in Workers |-> "unread"]
    /\ obs = [w \in Workers |-> 0]
    /\ fresh = [w \in Workers |-> FALSE]

-----------------------------------------------------------------------------
(* Helpers. *)

\* Slip: a write that forgets version = version + 1.
TouchWithoutVersion(j) == UNCHANGED fresh

\* Every write of a row increments its version: a claim that has read the
\* old version can no longer win its compare-and-set.
Touch(j) == fresh' = [w \in Workers |-> fresh[w] /\ wjob[w] # j]

Goto(w, p) == /\ pc' = [pc EXCEPT ![w] = p]
              /\ UNCHANGED <<rd, fresh, localVars>>

\* The tick ends or its process dies: nothing local survives.
Forget(w) == /\ wjob' = [wjob EXCEPT ![w] = NoJob]
             /\ wtok' = [wtok EXCEPT ![w] = 0]
             /\ wtick' = [wtick EXCEPT ![w] = 0]
             /\ obs' = [obs EXCEPT ![w] = 0]
             /\ rd' = [rd EXCEPT ![w] = "unread"]
             /\ pc' = [pc EXCEPT ![w] = "idle"]

\* An exception leaves run_tick: StaleFence or IllegalTransition.
Raise(w) == Forget(w) /\ fresh' = [fresh EXCEPT ![w] = FALSE] /\ UNCHANGED storeVars

\* _active_fence: the row still carries the worker's token under a live lease.
ActiveFence(w) == LET j == wjob[w] IN
    /\ token[j] = wtok[w]
    /\ state[j] \in InFlight
    /\ owner[j] # NoWorker
    /\ live[j]

\* reserve_intent checks the same, the owner excepted.
LiveFence(w) == LET j == wjob[w] IN
    token[j] = wtok[w] /\ state[j] \in InFlight /\ live[j]

\* The first transaction of transition() lets the move pass.
MovePermitted(w) == LET j == wjob[w] IN
    /\ token[j] = wtok[w]
    /\ ~(state[j] \in InFlight /\ owner[j] # NoWorker /\ ~live[j])
    /\ Targets(w) \subseteq Edges(state[j])

\* A render job's handler writes the row only under the fence; a visual job's
\* handler does not look at it.
HandlerFence(w) == wjob[w] \in RenderJobs => ActiveFence(w)

SetIntent(w, status) ==
    intent' = [intent EXCEPT ![wjob[w]][wtick[w]] = status]

-----------------------------------------------------------------------------
(* claim_due_job. *)

\* Slip: the candidates leave out the interrupted jobs.
ClaimReadDueOnly(w, j) ==
    /\ pc[w] = "idle"
    /\ token[j] < MaxToken /\ tick[j] < MaxTick
    /\ state[j] \in Claimable
    /\ pc' = [pc EXCEPT ![w] = "claiming"]
    /\ wjob' = [wjob EXCEPT ![w] = j]
    /\ fresh' = [fresh EXCEPT ![w] = TRUE]
    /\ UNCHANGED <<storeVars, rd, wtok, wtick, obs>>

\* The candidates are selected in a transaction of their own.
ClaimRead(w, j) ==
    /\ pc[w] = "idle"
    /\ token[j] < MaxToken /\ tick[j] < MaxTick      \* bounds
    /\ state[j] \in Claimable \/ (state[j] \in InFlight /\ ~live[j])
    /\ pc' = [pc EXCEPT ![w] = "claiming"]
    /\ wjob' = [wjob EXCEPT ![w] = j]
    /\ fresh' = [fresh EXCEPT ![w] = TRUE]
    /\ UNCHANGED <<storeVars, rd, wtok, wtick, obs>>

\* Slip: taking over an interrupted job keeps its fencing token.
ClaimCASSameToken(w) ==
    /\ pc[w] = "claiming" /\ fresh[w]
    /\ LET j == wjob[w]
           interrupted == state[j] \in InFlight
           next == IF interrupted THEN token[j] ELSE token[j] + 1
       IN  /\ state' = [state EXCEPT ![j] = IF interrupted THEN "RECONCILING" ELSE "LEASED"]
           /\ token' = [token EXCEPT ![j] = next]
           /\ owner' = [owner EXCEPT ![j] = w]
           /\ live' = [live EXCEPT ![j] = TRUE]
           /\ wtok' = [wtok EXCEPT ![w] = next]
           /\ wtick' = [wtick EXCEPT ![w] = tick[j] + 1]
           /\ pc' = [pc EXCEPT ![w] = IF interrupted THEN "reconcile" ELSE "toPrecheck"]
           /\ Touch(j)
    /\ UNCHANGED <<tick, attempts, seen, intentVars, artVars, wjob, rd, obs>>

\* The compare-and-set on the version read.  The winner's token is the
\* incremented one; an interrupted job is entered into RECONCILING.  The last
\* disjunct of the pc: no handler is registered for the kind of the job.
ClaimCAS(w) ==
    /\ pc[w] = "claiming" /\ fresh[w]
    /\ LET j == wjob[w]
           interrupted == state[j] \in InFlight
       IN  /\ state' = [state EXCEPT ![j] = IF interrupted THEN "RECONCILING" ELSE "LEASED"]
           /\ token' = [token EXCEPT ![j] = @ + 1]
           /\ owner' = [owner EXCEPT ![j] = w]
           /\ live' = [live EXCEPT ![j] = TRUE]
           /\ wtok' = [wtok EXCEPT ![w] = token[j] + 1]
           /\ wtick' = [wtick EXCEPT ![w] = tick[j] + 1]
           /\ \E p \in {IF interrupted THEN "reconcile" ELSE "toPrecheck", "toPrecheck"} :
                 pc' = [pc EXCEPT ![w] = p]
           /\ Touch(j)
    /\ UNCHANGED <<tick, attempts, seen, intentVars, artVars, wjob, rd, obs>>

ClaimLost(w) == pc[w] = "claiming" /\ ~fresh[w] /\ Raise(w)

-----------------------------------------------------------------------------
(* transition(). *)

MoveRead(w) ==
    /\ pc[w] \in PlainMoves \cup Releases
    /\ rd[w] = "unread"
    /\ MovePermitted(w)
    /\ rd' = [rd EXCEPT ![w] = state[wjob[w]]]
    /\ UNCHANGED <<storeVars, pc, fresh, localVars>>

\* The token is superseded, the lease has run out or the edge is illegal.
MoveRefused(w) ==
    /\ pc[w] \in PlainMoves \cup Releases
    /\ rd[w] = "unread"
    /\ ~MovePermitted(w)
    /\ Raise(w)

\* The write transaction: conditioned on the token and on the state read, not
\* on the lease.
FenceHolds(w) == /\ rd[w] # "unread"
                 /\ token[wjob[w]] = wtok[w]
                 /\ state[wjob[w]] = rd[w]

MoveLost(w) == /\ pc[w] \in PlainMoves \cup Releases
               /\ rd[w] # "unread"
               /\ ~FenceHolds(w)
               /\ Raise(w)

\* Slip: the write transaction trusts the state read by the first one.
MoveWriteUnfenced(w) ==
    /\ pc[w] \in PlainMoves /\ rd[w] # "unread"
    /\ \E to \in Move[pc[w]].to : state' = [state EXCEPT ![wjob[w]] = to]
    /\ IF Move[pc[w]].then = "idle"
         THEN Forget(w)
         ELSE /\ pc' = [pc EXCEPT ![w] = Move[pc[w]].then]
              /\ rd' = [rd EXCEPT ![w] = "unread"]
              /\ UNCHANGED localVars
    /\ Touch(wjob[w])
    /\ UNCHANGED <<token, owner, live, tick, attempts, seen, intentVars, artVars>>


MoveWrite(w) ==
    /\ pc[w] \in PlainMoves
    /\ FenceHolds(w)
    /\ \E to \in Move[pc[w]].to : state' = [state EXCEPT ![wjob[w]] = to]
    /\ IF Move[pc[w]].then = "idle"
         THEN Forget(w)
         ELSE /\ pc' = [pc EXCEPT ![w] = Move[pc[w]].then]
              /\ rd' = [rd EXCEPT ![w] = "unread"]
              /\ UNCHANGED localVars
    /\ Touch(wjob[w])
    /\ UNCHANGED <<token, owner, live, tick, attempts, seen, intentVars, artVars>>

\* What every release writes beside the state.
Release(w) ==
    LET j == wjob[w] IN
    /\ FenceHolds(w)
    /\ owner' = [owner EXCEPT ![j] = NoWorker]
    /\ live' = [live EXCEPT ![j] = FALSE]
    /\ Forget(w)
    /\ Touch(j)
    /\ UNCHANGED <<token, intentVars, artVars>>

\* release(): blocked, dead-lettered, or rescheduled after an inconclusive tick.
ReleaseWrite(w) ==
    /\ pc[w] \in {"toBlocked", "toDeadLetter", "toRescheduled"}
    /\ \E to \in Targets(w) : state' = [state EXCEPT ![wjob[w]] = to]
    /\ Release(w)
    /\ UNCHANGED <<tick, attempts, seen>>

\* Slip: only the retry budget is checked, not whether the failure is new.
FailWriteBudgetOnly(w) ==
    LET j == wjob[w]
        code == IF state[j] = "RUNNING" THEN "RENDER_FAILED" ELSE "VERIFICATION_FAILED"
    IN  /\ pc[w] = "fail"
        /\ \E e \in Envs : seen' = [seen EXCEPT ![j] = @ \cup {<<code, e>>}]
        /\ state' = [state EXCEPT ![j] =
              IF attempts[j] + 1 < RetryCap THEN "RETRY_PENDING" ELSE "DEAD_LETTER"]
        /\ attempts' = [attempts EXCEPT ![j] = @ + 1]
        /\ Release(w)
        /\ UNCHANGED tick

\* fail(): retry while the budget lasts and the failure is new under this
\* environment, else dead-letter.  The handler is RETRY_SAFE.
FailWrite(w) ==
    LET j == wjob[w]
        code == IF state[j] = "RUNNING" THEN "RENDER_FAILED" ELSE "VERIFICATION_FAILED"
    IN  /\ pc[w] = "fail"
        /\ \E e \in Envs :
              /\ seen' = [seen EXCEPT ![j] = @ \cup {<<code, e>>}]
              /\ state' = [state EXCEPT ![j] =
                    IF attempts[j] + 1 < RetryCap /\ <<code, e>> \notin seen[j]
                      THEN "RETRY_PENDING" ELSE "DEAD_LETTER"]
        /\ attempts' = [attempts EXCEPT ![j] = @ + 1]
        /\ Release(w)
        /\ UNCHANGED tick

\* Slip: a committed tick gives one attempt back instead of all of them.
FinalWriteRefund(w) ==
    LET j == wjob[w] IN
    /\ pc[w] = "toFinal"
    /\ state' = [state EXCEPT ![j] = FinalState(j)]
    /\ tick' = [tick EXCEPT ![j] = wtick[w]]
    /\ attempts' = [attempts EXCEPT ![j] = @ - 1]
    /\ Release(w)
    /\ UNCHANGED seen

\* The last move of a committed tick.
FinalWrite(w) ==
    LET j == wjob[w] IN
    /\ pc[w] = "toFinal"
    /\ state' = [state EXCEPT ![j] = FinalState(j)]
    /\ tick' = [tick EXCEPT ![j] = wtick[w]]
    /\ attempts' = [attempts EXCEPT ![j] = 0]
    /\ Release(w)
    /\ UNCHANGED seen

-----------------------------------------------------------------------------
(* The journal and the handler, in the order run_tick calls them. *)

\* handler.precheck, or no handler registered.  The attempt budget is one of
\* a visual job's refusals; the others depend on the world outside the model.
Precheck(w) ==
    /\ pc[w] = "precheck"
    /\ \E p \in {"toReady", "toBlocked"} :
          /\ p = "toReady" => wjob[w] \in RenderJobs \/ attempts[wjob[w]] < MaxAttempts
          /\ Goto(w, p)
    /\ UNCHANGED storeVars

\* reserve_intent: write-ahead, unique on its key, under a live lease.  A row
\* that exists already is reconciled, unless the caller knows it just looked.
ReserveIntent(w) ==
    LET j == wjob[w]
        t == wtick[w]
        exists == intent[j][t] # "none"
    IN  /\ pc[w] \in {"reserve", "reserveFresh"}
        /\ LiveFence(w)
        /\ IF exists
             THEN UNCHANGED intentVars
             ELSE /\ SetIntent(w, "INTENT")
                  /\ pre' = [pre EXCEPT ![j][t] = IF j \in RenderJobs THEN 0 ELSE HeadVersion(j)]
                  /\ UNCHANGED receipt
        /\ Goto(w, IF exists /\ pc[w] = "reserve" THEN "toReconciling" ELSE "toRunning")
        /\ UNCHANGED <<rowVars, artVars>>

ReserveRefused(w) ==
    pc[w] \in {"reserve", "reserveFresh"} /\ ~LiveFence(w) /\ Raise(w)

\* Slip: a tick with no intent is redone as if its intent were there.
ReadIntentRedo(w) ==
    LET j == wjob[w]
        status == intent[j][wtick[w]]
    IN  /\ pc[w] = "reconcile"
        /\ \/ status = "none"      /\ Goto(w, "toReadyRedo")
           \/ status = "FAILED"    /\ Goto(w, "toDeadLetter")
           \/ status \in Unsettled /\ Goto(w, "probe")
           \/ /\ status = "COMMITTED"
              /\ pc' = [pc EXCEPT ![w] = "toAdopted"]
              /\ obs' = [obs EXCEPT ![w] = receipt[j][wtick[w]]]
              /\ UNCHANGED <<rd, fresh, wjob, wtok, wtick>>
        /\ UNCHANGED storeVars

\* get_intent, at the start of the RECONCILING branch.
ReadIntent(w) ==
    LET j == wjob[w]
        status == intent[j][wtick[w]]
    IN  /\ pc[w] = "reconcile"
        /\ \/ status = "none"      /\ Goto(w, "toReadyFresh")
           \/ status = "FAILED"    /\ Goto(w, "toDeadLetter")
           \/ status \in Unsettled /\ Goto(w, "probe")
           \/ /\ status = "COMMITTED"
              /\ pc' = [pc EXCEPT ![w] = "toAdopted"]
              /\ obs' = [obs EXCEPT ![w] = receipt[j][wtick[w]]]
              /\ UNCHANGED <<rd, fresh, wjob, wtok, wtick>>
        /\ UNCHANGED storeVars

\* Slip: the head the tick started from is adopted as its effect.
ProbeAdoptOld(w) ==
    LET j == wjob[w] IN
    /\ pc[w] = "probe"
    /\ HeadVersion(j) >= pre[j][wtick[w]]
    /\ pc' = [pc EXCEPT ![w] = "toAdopted"]
    /\ obs' = [obs EXCEPT ![w] = HeadVersion(j)]
    /\ UNCHANGED <<storeVars, rd, fresh, wjob, wtok, wtick>>

\* handler.reconcile: adopt a head newer than the pre-image, redo when there
\* is none; a probe may fail, stay unsure, or report a definite failure.  The
\* pre-image of a render job has no version: any candidate is adopted.
ProbeAdopt(w) ==
    LET j == wjob[w] IN
    /\ pc[w] = "probe" /\ HandlerFence(w)
    /\ HeadVersion(j) > pre[j][wtick[w]]
    /\ pc' = [pc EXCEPT ![w] = "toAdopted"]
    /\ obs' = [obs EXCEPT ![w] = HeadVersion(j)]
    /\ UNCHANGED <<storeVars, rd, fresh, wjob, wtok, wtick>>

ProbeNoEffect(w) ==
    LET j == wjob[w] IN
    /\ pc[w] = "probe"
    /\ HeadVersion(j) <= pre[j][wtick[w]]
    /\ \E p \in {"toReadyRedo", "settleFailed"} : Goto(w, p)
    /\ UNCHANGED storeVars

ProbeUnknown(w) == pc[w] = "probe" /\ Goto(w, "unconfirmed") /\ UNCHANGED storeVars

\* mark_intent_unconfirmed.  After a probe the tick ends and leaves the job in
\* RECONCILING under its lease; after a lost acknowledgement it moves it there.
MarkUnconfirmed(w) ==
    /\ pc[w] \in {"unconfirmed", "lostAck"}
    /\ ActiveFence(w) /\ intent[wjob[w]][wtick[w]] \in Unsettled
    /\ SetIntent(w, "UNCONFIRMED")
    /\ \/ pc[w] = "unconfirmed" /\ Forget(w) /\ UNCHANGED fresh
       \/ pc[w] = "lostAck" /\ Goto(w, "toUnknown")
    /\ UNCHANGED <<rowVars, pre, receipt, artVars>>

\* Slip: settling does not check the fence.
SettleFailedUnfenced(w) ==
    /\ pc[w] = "settleFailed"
    /\ intent[wjob[w]][wtick[w]] \in Unsettled
    /\ SetIntent(w, "FAILED")
    /\ Goto(w, "toDeadLetter")
    /\ UNCHANGED <<rowVars, pre, receipt, artVars>>

\* settle_intent_failed, on the provider's word.
SettleFailed(w) ==
    /\ pc[w] = "settleFailed"
    /\ ActiveFence(w) /\ intent[wjob[w]][wtick[w]] \in Unsettled
    /\ SetIntent(w, "FAILED")
    /\ Goto(w, "toDeadLetter")
    /\ UNCHANGED <<rowVars, pre, receipt, artVars>>

\* Slip: the candidate of a render job is written without the fence.
DispatchEffectUnfenced(w) ==
    /\ pc[w] = "dispatch"
    /\ effects' = [effects EXCEPT ![wjob[w]] = Append(@, wtick[w])]
    /\ \E p \in {"toObserving", "lostAck"} : Goto(w, p)
    /\ UNCHANGED <<rowVars, intentVars, approval>>

\* handler.dispatch.  Nothing fences a visual render: a worker whose lease
\* has run out, or was taken over, still adds a version of the artifact.
DispatchEffect(w) ==
    /\ pc[w] = "dispatch" /\ HandlerFence(w)
    /\ effects' = [effects EXCEPT ![wjob[w]] = Append(@, wtick[w])]
    /\ \E p \in {"toObserving", "lostAck"} : Goto(w, p)
    /\ UNCHANGED <<rowVars, intentVars, approval>>

\* No version is added: the dispatch raises, is blocked or fails, or a visual
\* render reproduces the content the head has already.
DispatchNoEffect(w) ==
    /\ pc[w] = "dispatch"
    /\ \E p \in {"lostAck", "toBlocked", "fail", "toObserving"} :
          /\ p = "toObserving" => HeadVersion(wjob[w]) > 0 /\ wjob[w] \notin RenderJobs
          /\ Goto(w, p)
    /\ UNCHANGED storeVars

\* handler.observe reads back the head of the artifact, whoever wrote it; for
\* a render job, the candidate, which the fence keeps from being replaced.
Observe(w) ==
    /\ pc[w] = "observe"
    /\ \/ /\ HandlerFence(w)
          /\ pc' = [pc EXCEPT ![w] = "toVerifying"]
          /\ obs' = [obs EXCEPT ![w] = HeadVersion(wjob[w])]
          /\ UNCHANGED <<rd, fresh, wjob, wtok, wtick>>
       \/ Goto(w, "toInconclusive")
    /\ UNCHANGED storeVars

Verify(w) ==
    /\ pc[w] = "verify"
    /\ \E p \in {"toCommitting", "toInconclusive", "fail"} : Goto(w, p)
    /\ UNCHANGED storeVars

\* Slip: an intent that was marked UNCONFIRMED is taken for settled.
CommitIntentFirstOnly(w) ==
    LET j == wjob[w]
        t == wtick[w]
    IN  /\ pc[w] = "commit"
        /\ IF intent[j][t] = "INTENT"
             THEN /\ ActiveFence(w)
                  /\ SetIntent(w, "COMMITTED")
                  /\ receipt' = [receipt EXCEPT ![j][t] = obs[w]]
                  /\ UNCHANGED pre
             ELSE UNCHANGED intentVars
        /\ Goto(w, "onCommit")
        /\ UNCHANGED <<rowVars, artVars>>

\* get_intent and commit_intent.  An intent that is settled already is left
\* alone, and then nothing checks the fence.
CommitIntent(w) ==
    LET j == wjob[w]
        t == wtick[w]
    IN  /\ pc[w] = "commit"
        /\ IF intent[j][t] \in Unsettled
             THEN /\ ActiveFence(w)
                  /\ SetIntent(w, "COMMITTED")
                  /\ receipt' = [receipt EXCEPT ![j][t] = obs[w]]
                  /\ UNCHANGED pre
             ELSE UNCHANGED intentVars
        /\ Goto(w, "onCommit")
        /\ UNCHANGED <<rowVars, artVars>>

\* The writes behind _active_fence refuse without the fence, the journal's also
\* when the row is settled.
JournalRefused(w) ==
    LET status == intent[wjob[w]][wtick[w]] IN
    /\ \/ /\ pc[w] \in {"unconfirmed", "lostAck", "settleFailed"}
          /\ ~ActiveFence(w) \/ status \notin Unsettled
       \/ pc[w] = "commit" /\ status \in Unsettled /\ ~ActiveFence(w)
       \/ pc[w] = "onCommit" /\ ~HandlerFence(w)
    /\ Raise(w)

\* Slip: on_commit of a render job relies on the fence of commit_intent.
OnCommitUnfenced(w) ==
    LET j == wjob[w] IN
    /\ pc[w] = "onCommit"
    /\ approval' = IF j \notin ApprovalJobs THEN approval
         ELSE [approval EXCEPT ![j] = [v \in 1..MaxToken |->
                 IF v = obs[w] THEN "pending"
                 ELSE IF @[v] = "pending" THEN "stale" ELSE @[v]]]
    /\ Goto(w, "toFinal")
    /\ UNCHANGED <<rowVars, intentVars, effects>>

\* handler.on_commit: open_artifact_approval marks the pending approvals of
\* other versions stale, reuses a pending one of this version, else opens one.
\* For a render job this and the registration of the artifact are fenced.
OnCommit(w) ==
    LET j == wjob[w] IN
    /\ pc[w] = "onCommit" /\ HandlerFence(w)
    /\ approval' = IF j \notin ApprovalJobs THEN approval
         ELSE [approval EXCEPT ![j] = [v \in 1..MaxToken |->
                 IF v = obs[w] THEN "pending"
                 ELSE IF @[v] = "pending" THEN "stale" ELSE @[v]]]
    /\ Goto(w, "toFinal")
    /\ UNCHANGED <<rowVars, intentVars, effects>>

-----------------------------------------------------------------------------
(* Everyone else. *)

\* The process dies, or a handler call raises where run_tick does not catch.
\* Dying between the two transactions of a claim leaves no trace at all.
Crash(w) == pc[w] \notin {"idle", "claiming"} /\ Raise(w)

LeaseExpires(j) ==
    /\ live[j]
    /\ live' = [live EXCEPT ![j] = FALSE]
    /\ UNCHANGED <<state, token, owner, tick, attempts, seen, intentVars, artVars, workVars>>

\* Slip: the owner renews its lease after it has run out.
RenewLeaseLate(w) ==
    LET j == wjob[w] IN
    /\ pc[w] \notin {"idle", "claiming"}
    /\ owner[j] = w /\ token[j] = wtok[w] /\ state[j] \in InFlight
    /\ live' = [live EXCEPT ![j] = TRUE]
    /\ Touch(j)
    /\ UNCHANGED <<state, token, owner, tick, attempts, seen, intentVars, artVars, pc, rd, localVars>>

\* renew_lease: only the live lease of its owner is extended.
RenewLease(w) ==
    LET j == wjob[w] IN
    /\ pc[w] \notin {"idle", "claiming"}
    /\ owner[j] = w /\ token[j] = wtok[w] /\ state[j] \in InFlight /\ live[j]
    /\ live' = [live EXCEPT ![j] = TRUE]
    /\ Touch(j)
    /\ UNCHANGED <<state, token, owner, tick, attempts, seen, intentVars, artVars, pc, rd, localVars>>

OperatorTargets == {"PAUSED", "SCHEDULED", "STOPPED"}

\* Slip: the operator does not look at the lease.
OperatorMoveAnytime(j) ==
    /\ \E to \in OperatorTargets \cap Edges(state[j]) : state' = [state EXCEPT ![j] = to]
    /\ Touch(j)
    /\ UNCHANGED <<token, owner, live, tick, attempts, seen, intentVars, artVars, pc, rd, localVars>>

\* operator_move: refused under an unexpired lease; the transition() it calls
\* refuses an expired one.  The write is conditioned on the state and token
\* it read, so its three transactions act as one.
OperatorMove(j) ==
    /\ ~(state[j] \in InFlight /\ live[j])
    /\ ~(state[j] \in InFlight /\ owner[j] # NoWorker /\ ~live[j])
    /\ \E to \in OperatorTargets \cap Edges(state[j]) : state' = [state EXCEPT ![j] = to]
    /\ Touch(j)
    /\ UNCHANGED <<token, owner, live, tick, attempts, seen, intentVars, artVars, pc, rd, localVars>>

\* The authorised cancellation of a render job revokes the fence.
CancelStop(j) ==
    /\ j \in RenderJobs
    /\ "STOPPED" \in Edges(state[j])
    /\ state' = [state EXCEPT ![j] = "STOPPED"]
    /\ token' = [token EXCEPT ![j] = @ + 1]
    /\ owner' = [owner EXCEPT ![j] = NoWorker]
    /\ live' = [live EXCEPT ![j] = FALSE]
    /\ Touch(j)
    /\ UNCHANGED <<tick, attempts, seen, intentVars, artVars, pc, rd, localVars>>

\* A human decides a pending approval.
Decide(j) ==
    /\ \E v \in 1..MaxToken : /\ approval[j][v] = "pending"
                              /\ approval' = [approval EXCEPT ![j][v] = "decided"]
    /\ UNCHANGED <<rowVars, intentVars, effects, workVars>>

SettledStates(j) == IF j \in RenderJobs THEN {"DORMANT", "STOPPED"}
                    ELSE IF j \in RecurringJobs THEN {"SCHEDULED"} ELSE {"DORMANT"}

\* settle_waiting_approval looks up the approval the last tick recorded;
\* resume() of a render job wants a decision, and a rejection stops the job.
SettleApproval(j) ==
    /\ state[j] = "WAITING_APPROVAL"
    /\ LET status == approval[j][receipt[j][tick[j]]] IN
       \/ j \in RenderJobs /\ status = "decided"
       \/ j \notin RenderJobs /\ status \in {"decided", "stale"}
    /\ \E to \in SettledStates(j) : state' = [state EXCEPT ![j] = to]
    /\ Touch(j)
    /\ UNCHANGED <<token, owner, live, tick, attempts, seen, intentVars, artVars, pc, rd, localVars>>

-----------------------------------------------------------------------------

MoveStep(w) == \/ MoveRead(w) \/ MoveRefused(w) \/ MoveLost(w) \/ MoveWrite(w)
               \/ ReleaseWrite(w) \/ FailWrite(w) \/ FinalWrite(w)

JournalStep(w) == \/ ReserveIntent(w) \/ ReserveRefused(w) \/ ReadIntent(w)
                  \/ MarkUnconfirmed(w) \/ SettleFailed(w) \/ CommitIntent(w)
                  \/ JournalRefused(w)

HandlerStep(w) == \/ Precheck(w) \/ ProbeAdopt(w) \/ ProbeNoEffect(w)
                  \/ ProbeUnknown(w) \/ DispatchEffect(w) \/ DispatchNoEffect(w)
                  \/ Observe(w) \/ Verify(w) \/ OnCommit(w)

\* The steps of a tick that a running process keeps taking.
TickStep(w) == ClaimCAS(w) \/ ClaimLost(w) \/ MoveStep(w) \/ JournalStep(w) \/ HandlerStep(w)

WorkerNext(w) == \/ TickStep(w) \/ Crash(w) \/ RenewLease(w)
                 \/ \E j \in Jobs : ClaimRead(w, j)

JobNext(j) == LeaseExpires(j) \/ OperatorMove(j) \/ CancelStop(j) \/ Decide(j) \/ SettleApproval(j)

Next == (\E w \in Workers : WorkerNext(w)) \/ (\E j \in Jobs : JobNext(j))

Spec == Init /\ [][Next]_vars

\* A process that is running keeps running, time passes, and someone keeps
\* invoking run_tick for every job (the render driver run by a supervisor).
Fairness ==
    /\ \A w \in Workers : WF_vars(TickStep(w))
    /\ \A j \in Jobs : /\ WF_vars(LeaseExpires(j))
                       /\ SF_vars(\E w \in Workers : ClaimRead(w, j))

FairSpec == Spec /\ Fairness

-----------------------------------------------------------------------------
(* Properties. *)

Active(w) == pc[w] \notin {"idle", "claiming"}

\* Every worker in a tick carries a token of its own, never a newer one than
\* the row's: the compare-and-set of claim_due_job gives one lease to one
\* worker however the candidate reads interleave.
FenceExclusive ==
    \A w \in Workers : Active(w) =>
        /\ wtok[w] <= token[wjob[w]]
        /\ \A x \in Workers \ {w} :
              Active(x) /\ wjob[x] = wjob[w] => wtok[x] # wtok[w]

\* The states the row can be in at each point of run_tick.
ExpectedAt(p) == {s \in InFlight :
    \/ p = "toPrecheck" /\ s \in {"LEASED", "RECONCILING"}
    \/ p \in {"precheck", "toReady", "toBlocked"} /\ s = "PRECHECK"
    \/ p \in {"reserve", "reserveFresh", "toReconciling", "toRunning"} /\ s = "READY"
    \/ p \in {"reconcile", "toReadyFresh", "probe", "toReadyRedo", "unconfirmed",
              "settleFailed", "toAdopted", "toDeadLetter"} /\ s = "RECONCILING"
    \/ p \in {"dispatch", "lostAck", "toUnknown", "toObserving", "toBlocked", "fail"} /\ s = "RUNNING"
    \/ p \in {"observe", "toVerifying", "toInconclusive"} /\ s = "OBSERVING"
    \/ p \in {"verify", "toCommitting", "toInconclusive", "fail"} /\ s = "VERIFYING"
    \/ p \in {"commit", "onCommit", "toFinal"} /\ s = "COMMITTING"}

\* Worker w is in a tick and no later lease or stop has revoked its token.
Current(w) == Active(w) /\ wtok[w] = token[wjob[w]]

\* The worker whose token is current knows the row it acts on: nobody else
\* (operator, approval, another worker) has moved the job, and the tick it
\* works on is the next one.  The one exception is the INCONCLUSIVE window
\* between two moves, where the operator may step in.
HolderKnowsRow ==
    \A w \in Workers : Current(w) =>
        /\ wtick[w] = tick[wjob[w]] + 1
        /\ pc[w] = "toRescheduled" \/ state[wjob[w]] \in ExpectedAt(pc[w])

\* The journal rows the intent of the tick can be in at each point.
JournalAt(p) == {st \in IntentStatus :
    /\ p \in {"toReadyFresh", "reserveFresh"} => st = "none"
    /\ p \in {"toReconciling"} => st # "none"
    /\ p \in {"probe", "toReadyRedo", "unconfirmed", "settleFailed", "toRunning", "dispatch",
              "lostAck", "toUnknown", "toObserving", "observe"} => st \in Unsettled
    /\ p \in {"toAdopted", "toVerifying", "verify", "toCommitting", "commit"}
          => st \in Unsettled \cup {"COMMITTED"}
    /\ p \in {"onCommit", "toFinal"} => st = "COMMITTED"}

\* The same worker also knows the journal: what it read of the intent stays
\* true until it writes it, and on_commit runs only over a COMMITTED intent.
HolderKnowsJournal ==
    \A w \in Workers : Current(w) => intent[wjob[w]][wtick[w]] \in JournalAt(pc[w])

\* The tick counter of a job never runs ahead of its journal: every tick it
\* counts has a COMMITTED intent, through every crash, retry and adoption.
CountedTicksCommitted ==
    \A j \in Jobs : \A t \in Ticks : t <= tick[j] => intent[j][t] = "COMMITTED"

\* Write-ahead: no version of the artifact was rendered for a tick whose
\* intent had not been written, not even by a worker that lost its lease.
EffectsFollowIntent ==
    \A j \in Jobs : \A v \in DOMAIN effects[j] : intent[j][effects[j][v]] # "none"

\* A committed receipt names a version that exists and is no older than the
\* pre-image of its tick, and the receipts of a job never go back to an older
\* version, whatever late workers add to the artifact.
ReceiptsAdvance ==
    \A j \in Jobs : \A t \in Ticks : intent[j][t] = "COMMITTED" =>
        /\ receipt[j][t] \in DOMAIN effects[j]
        /\ receipt[j][t] >= pre[j][t]
        /\ \A s \in 1..(t-1) : receipt[j][s] <= receipt[j][t]

\* A governed render never waits in vain: while it is WAITING_APPROVAL, the
\* candidate its last receipt names has an approval that is pending or was
\* decided, and none that a later on_commit has made stale.
AwaitedApprovalExists ==
    \A j \in RenderJobs : state[j] = "WAITING_APPROVAL" =>
        \E v \in 1..MaxToken : v = receipt[j][tick[j]] /\ approval[j][v] \in {"pending", "decided"}

\* ticks.py: "a crash after dispatch adopts the persisted effect instead of
\* repeating it".  No tick of a render job leaves two candidates, whatever
\* crashes, expires or is retried.
RenderedOnce ==
    \A j \in RenderJobs : \A u, v \in DOMAIN effects[j] :
        effects[j][u] = effects[j][v] => u = v

\* A retry that waits is within the budget, and every failure charged to the
\* tick was a new one: an identical failure under an unchanged environment
\* is never retried (negative knowledge).
RetriesAreNew ==
    \A j \in Jobs : state[j] = "RETRY_PENDING" =>
        attempts[j] < RetryCap /\ attempts[j] <= Cardinality(seen[j])

\* A stopped job is final: whatever its late workers, the operator and the
\* approvals still do, neither the row nor its journal changes any more.
StopIsFinal ==
    [][\A j \in Jobs : state[j] = "STOPPED" =>
          /\ state'[j] = "STOPPED" /\ tick'[j] = tick[j] /\ token'[j] = token[j]
          /\ attempts'[j] = attempts[j]
          /\ intent'[j] = intent[j] /\ receipt'[j] = receipt[j]]_vars

\* rendering/service.py: "A late render may finish locally but its old fence
\* cannot register an artifact".  Nothing is accepted for a stopped render job.
StoppedRenderAcceptsNothing ==
    [][\A j \in RenderJobs : state[j] = "STOPPED" =>
          /\ effects'[j] = effects[j]
          /\ \A v \in 1..MaxToken : approval'[j][v] = "pending" => approval[j][v] = "pending"]_vars

\* An expired lease is never resurrected: a job is under a live lease again
\* only under a new fencing token.
ExpiredLeaseIsDead ==
    [][\A j \in Jobs : ~live[j] /\ live'[j] => token'[j] = token[j] + 1]_vars

\* The runtime keeps its promise about every job (module RunLedger).
Ledger == INSTANCE RunLedger WITH
    committed <- [j \in Jobs |-> {t \in Ticks : intent[j][t] = "COMMITTED"}]

LedgerSpec == Ledger!LedgerSpec

\* An in-flight job is never stuck: whatever dies, it leaves the in-flight
\* states or is leased again (up to the bound on leases).
InterruptedTickMovesOn ==
    \A j \in Jobs : \A n \in 1..(MaxToken - 1) :
        (state[j] \in InFlight /\ token[j] = n)
            ~> (state[j] \notin InFlight \/ token[j] > n)

=============================================================================
