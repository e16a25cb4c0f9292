------------------------ MODULE DurableEffects_proofs ------------------------
(***************************************************************************)
(* Theorems about what a tick of DurableRuns leaves behind: the failures   *)
(* it is charged with, the candidates of a render job and the receipts.    *)
(* They rest on what DurableRuns_proofs shows of the holder of a lease.    *)
(***************************************************************************)
EXTENDS DurableRuns_proofs, FiniteSetTheorems

-----------------------------------------------------------------------------
(* How a step changes what is counted, rendered and journalled             *)

\* Only the end of a tick changes what a job is charged with.
LEMMA ChargeSteps ==
    ASSUME [Next]_vars
    PROVE  UNCHANGED <<attempts, seen>> \/ \E w \in Workers : FailWrite(w) \/ FinalWrite(w)
<1>1. ASSUME NEW w \in Workers, WorkerNext(w), ~FailWrite(w), ~FinalWrite(w) PROVE UNCHANGED <<attempts, seen>>
  BY <1>1 DEF WorkerNext, TickStep, MoveStep, HandlerStep, JournalStep, ClaimRead, ClaimCAS, ClaimLost, Crash,
     RenewLease, MoveRead, MoveRefused, MoveLost, MoveWrite, ReleaseWrite, Raise, Precheck, ProbeAdopt,
     ProbeNoEffect, ProbeUnknown, DispatchEffect, DispatchNoEffect, Observe, Verify, OnCommit, ReserveIntent,
     ReserveRefused, ReadIntent, MarkUnconfirmed, SettleFailed, CommitIntent, JournalRefused, storeVars, rowVars
<1>2. ASSUME NEW k \in Jobs, JobNext(k) PROVE UNCHANGED <<attempts, seen>>
  BY <1>2 DEF JobNext, LeaseExpires, OperatorMove, CancelStop, Decide, SettleApproval, rowVars
<1> QED BY <1>1, <1>2 DEF Next, vars, storeVars, rowVars

\* Only a dispatch adds an effect.
LEMMA EffectSteps ==
    ASSUME [Next]_vars
    PROVE  UNCHANGED effects \/ \E w \in Workers : DispatchEffect(w)
<1>1. ASSUME NEW w \in Workers, WorkerNext(w), ~DispatchEffect(w) PROVE UNCHANGED effects
  BY <1>1 DEF WorkerNext, TickStep, MoveStep, HandlerStep, JournalStep, ClaimRead, ClaimCAS, ClaimLost, Crash,
     RenewLease, MoveRead, MoveRefused, MoveLost, MoveWrite, ReleaseWrite, FailWrite, FinalWrite, Release, Raise,
     Precheck, ProbeAdopt, ProbeNoEffect, ProbeUnknown, DispatchNoEffect, Observe, Verify, OnCommit, ReserveIntent,
     ReserveRefused, ReadIntent, MarkUnconfirmed, SettleFailed, CommitIntent, JournalRefused, storeVars, artVars
<1>2. ASSUME NEW k \in Jobs, JobNext(k) PROVE UNCHANGED effects
  BY <1>2 DEF JobNext, LeaseExpires, OperatorMove, CancelStop, Decide, SettleApproval, artVars
<1> QED BY <1>1, <1>2 DEF Next, vars, storeVars, artVars

\* The effect of a dispatch is the last one of its job.
LEMMA Dispatched ==
    ASSUME Typed, NEW w \in Workers, DispatchEffect(w)
    PROVE  /\ wjob[w] \in Jobs /\ wtick[w] \in Ticks /\ Active(w)
           /\ effects'[wjob[w]] = Append(effects[wjob[w]], wtick[w])
           /\ \A k \in Jobs \ {wjob[w]} : effects'[k] = effects[k]
<1>1. wjob[w] \in Jobs /\ wtick[w] \in Ticks /\ Active(w)
  BY DEF DispatchEffect, Typed, LocalOK, Active
<1>2. effects' = [effects EXCEPT ![wjob[w]] = Append(effects[wjob[w]], wtick[w])]
  BY DEF DispatchEffect
<1> QED BY <1>1, <1>2 DEF Typed, TypeOK

\* No effect is taken away or replaced.
LEMMA EffectsGrow ==
    ASSUME Typed, [Next]_vars, NEW j \in Jobs
    PROVE  /\ HeadVersion(j) \in Nat /\ HeadVersion(j)' \in Nat /\ HeadVersion(j)' >= HeadVersion(j)
           /\ DOMAIN effects[j] = 1..HeadVersion(j) /\ DOMAIN effects'[j] = 1..HeadVersion(j)'
<1>1. effects[j] \in Seq(Ticks)
  BY DEF Typed, TypeOK
<1>2. CASE UNCHANGED effects
  BY <1>1, <1>2 DEF HeadVersion
<1>3. ASSUME NEW w \in Workers, DispatchEffect(w), effects'[j] # effects[j]
      PROVE  effects'[j] \in Seq(Ticks) /\ Len(effects'[j]) = Len(effects[j]) + 1
  <2>1. j = wjob[w] /\ wtick[w] \in Ticks /\ effects'[wjob[w]] = Append(effects[wjob[w]], wtick[w])
    BY <1>3, Dispatched
  <2> QED BY <1>1, <2>1
<1>4. CASE effects'[j] = effects[j]
  BY <1>1, <1>4 DEF HeadVersion
<1> QED BY <1>1, <1>2, <1>3, <1>4, EffectSteps DEF HeadVersion

\* Who writes the journal, and how: the holder of the lease reserves the tick
\* with the head it starts from, or settles it with the version it observed.
JournalChange(w) ==
    LET j == wjob[w]
        t == wtick[w]
    IN  /\ Current(w) /\ j \in Jobs /\ t \in Ticks
        /\ UNCHANGED <<tick, effects>>
        /\ \/ /\ intent[j][t] = "none" /\ SetIntent(w, "INTENT")
              /\ pre' = [pre EXCEPT ![j][t] = IF j \in RenderJobs THEN 0 ELSE HeadVersion(j)]
              /\ UNCHANGED receipt
           \/ /\ intent[j][t] \in Unsettled
              /\ \E st \in {"UNCONFIRMED", "FAILED"} : SetIntent(w, st)
              /\ UNCHANGED <<pre, receipt>>
           \/ /\ intent[j][t] \in Unsettled /\ pc[w] = "commit"
              /\ SetIntent(w, "COMMITTED")
              /\ receipt' = [receipt EXCEPT ![j][t] = obs[w]]
              /\ UNCHANGED pre

\* Nobody writes it in another way.
LEMMA JournalChanges ==
    ASSUME Typed, [Next]_vars
    PROVE  UNCHANGED <<intent, pre, receipt>> \/ \E w \in Workers : JournalChange(w)
<1> USE DEF Typed
<1>1. ASSUME NEW w \in Workers, JournalStep(w) PROVE UNCHANGED <<intent, pre, receipt>> \/ JournalChange(w)
  <2>1. Active(w) /\ wjob[w] \in Jobs /\ wtick[w] \in Ticks /\ UNCHANGED <<tick, effects>>
    BY <1>1
    DEF JournalStep, ReserveIntent, ReserveRefused, ReadIntent, MarkUnconfirmed, SettleFailed, CommitIntent,
        JournalRefused, Raise, storeVars, rowVars, artVars, LocalOK, Active
  <2>2. CASE ReserveIntent(w)
    BY <2>1, <2>2 DEF ReserveIntent, LiveFence, JournalChange, Current, intentVars
  <2>3. CASE MarkUnconfirmed(w) \/ SettleFailed(w)
    BY <2>1, <2>3 DEF MarkUnconfirmed, SettleFailed, ActiveFence, JournalChange, Current
  <2>4. CASE CommitIntent(w)
    BY <2>1, <2>4 DEF CommitIntent, ActiveFence, JournalChange, Current, intentVars
  <2>5. CASE ReserveRefused(w) \/ ReadIntent(w) \/ JournalRefused(w)
    BY <2>5 DEF ReserveRefused, ReadIntent, JournalRefused, Raise, storeVars, intentVars
  <2> QED BY <1>1, <2>2, <2>3, <2>4, <2>5 DEF JournalStep
<1>2. ASSUME NEW w \in Workers, WorkerNext(w), ~JournalStep(w) PROVE UNCHANGED <<intent, pre, receipt>>
  BY <1>2 DEF WorkerNext, TickStep, MoveStep, HandlerStep, ClaimRead, ClaimCAS, ClaimLost, Crash, RenewLease,
     MoveRead, MoveRefused, MoveLost, MoveWrite, ReleaseWrite, FailWrite, FinalWrite, Release, Raise, Precheck,
     ProbeAdopt, ProbeNoEffect, ProbeUnknown, DispatchEffect, DispatchNoEffect, Observe, Verify, OnCommit,
     storeVars, intentVars
<1>3. ASSUME NEW j \in Jobs, JobNext(j) PROVE UNCHANGED <<intent, pre, receipt>>
  BY <1>3 DEF JobNext, LeaseExpires, OperatorMove, CancelStop, Decide, SettleApproval, intentVars
<1> QED BY <1>1, <1>2, <1>3 DEF Next, vars, storeVars, intentVars

\* A worker that has the current token after a step of its tick had it before,
\* unless the step was its claim.
LEMMA OwnStepCurrent ==
    ASSUME IInv, NEW x \in Workers, TickStep(x), ~ClaimCAS(x), Current(x)'
    PROVE  /\ Current(x) /\ Knows(x) /\ wjob[x] \in Jobs /\ wtick[x] \in Ticks
           /\ wjob'[x] = wjob[x] /\ wtick'[x] = wtick[x]
<1>1. [Next]_vars
  BY DEF Next, WorkerNext
<1>2. Active(x) /\ wjob'[x] = wjob[x] /\ wtok'[x] = wtok[x] /\ wtick'[x] = wtick[x]
  BY <1>1, TicksPersist DEF IInv, Current
<1>3. UNCHANGED token
  BY DEF TickStep, MoveStep, JournalStep, HandlerStep, ClaimLost, MoveRead, MoveRefused,
     MoveLost, MoveWrite, ReleaseWrite, FailWrite, FinalWrite, Release, Raise, ReserveIntent, ReserveRefused,
     ReadIntent, MarkUnconfirmed, SettleFailed, CommitIntent, JournalRefused, Precheck, ProbeAdopt,
     ProbeNoEffect, ProbeUnknown, DispatchEffect, DispatchNoEffect, Observe, Verify, OnCommit, storeVars, rowVars
<1>4. Current(x)
  BY <1>2, <1>3 DEF Current
<1> QED BY <1>2, <1>4, HoldersKnow DEF IInv, Typed, LocalOK, Active

-----------------------------------------------------------------------------
(* Negative knowledge *)

\* A job that was charged with a failure remembers one.
Charged == \A j \in Jobs : IsFiniteSet(seen[j]) /\ (attempts[j] > 0 => seen[j] # {})

\* Only a failure leaves a job waiting for its retry.
LEMMA RetrySteps ==
    ASSUME Typed, [Next]_vars, NEW j \in Jobs, state'[j] = "RETRY_PENDING"
    PROVE  \/ state[j] = "RETRY_PENDING" /\ attempts'[j] = attempts[j] /\ seen'[j] = seen[j]
           \/ \E w \in Workers : FailWrite(w) /\ wjob[w] = j
<1> USE DEF Typed, TypeOK
<1>1. ASSUME NEW w \in Workers, FailWrite(w), wjob[w] # j
      PROVE  state'[j] = state[j] /\ attempts'[j] = attempts[j] /\ seen'[j] = seen[j]
  <2>1. /\ \E s : state' = [state EXCEPT ![wjob[w]] = s]
        /\ \E n : attempts' = [attempts EXCEPT ![wjob[w]] = n]
        /\ \E f : seen' = [seen EXCEPT ![wjob[w]] = f]
    BY <1>1 DEF FailWrite
  <2> QED BY <1>1, <2>1
<1>2. ASSUME NEW w \in Workers, FinalWrite(w)
      PROVE  state'[j] = state[j] /\ attempts'[j] = attempts[j] /\ seen'[j] = seen[j]
  BY <1>2 DEF FinalWrite, FinalState
<1>3. ASSUME NEW w \in Workers, MoveWrite(w) PROVE state'[j] = state[j]
  <2>1. PICK to \in Move[pc[w]].to : state' = [state EXCEPT ![wjob[w]] = to]
    BY <1>3 DEF MoveWrite
  <2>2. to # "RETRY_PENDING"
    BY <1>3, PlainMovesAre DEF MoveWrite, Move
  <2> QED BY <2>1, <2>2
<1>4. ASSUME NEW w \in Workers, ReleaseWrite(w) PROVE state'[j] = state[j]
  <2>1. PICK to \in Targets(w) : state' = [state EXCEPT ![wjob[w]] = to]
    BY <1>4 DEF ReleaseWrite
  <2>2. to # "RETRY_PENDING"
    BY <1>4, PlainMovesAre DEF ReleaseWrite, Targets, Blocked
  <2> QED BY <2>1, <2>2
<1>5. ASSUME NEW w \in Workers, ClaimCAS(w) PROVE state'[j] = state[j]
  BY <1>5 DEF ClaimCAS
<1>6. ASSUME NEW w \in Workers, WorkerNext(w), ~FailWrite(w), ~FinalWrite(w), ~MoveWrite(w), ~ReleaseWrite(w), ~ClaimCAS(w)
      PROVE  UNCHANGED state
  BY <1>6 DEF WorkerNext, TickStep, MoveStep, HandlerStep, JournalStep, ClaimRead, ClaimLost, Crash,
     RenewLease, MoveRead, MoveRefused, MoveLost, Raise, Precheck, ProbeAdopt,
     ProbeNoEffect, ProbeUnknown, DispatchEffect, DispatchNoEffect, Observe, Verify, OnCommit, ReserveIntent,
     ReserveRefused, ReadIntent, MarkUnconfirmed, SettleFailed, CommitIntent, JournalRefused, storeVars, rowVars
<1>7. ASSUME NEW k \in Jobs, JobNext(k) PROVE state'[j] = state[j]
  BY <1>7 DEF JobNext, LeaseExpires, OperatorMove, OperatorTargets, CancelStop, Decide, SettleApproval, SettledStates, rowVars
<1>8. state'[j] = state[j] \/ \E w \in Workers : FailWrite(w) /\ wjob[w] = j
  BY <1>1, <1>2, <1>3, <1>4, <1>5, <1>6, <1>7 DEF Next, vars, storeVars, rowVars
<1>9. \/ attempts'[j] = attempts[j] /\ seen'[j] = seen[j]
      \/ \E w \in Workers : FailWrite(w) /\ wjob[w] = j
  BY <1>1, <1>2, ChargeSteps
<1> QED BY <1>8, <1>9

\* What a failure charges to its job.
LEMMA FailureCharged ==
    ASSUME Typed, NEW w \in Workers, FailWrite(w)
    PROVE  /\ wjob[w] \in Jobs /\ attempts'[wjob[w]] = attempts[wjob[w]] + 1
           /\ \E f \in Fingerprints :
                 /\ seen'[wjob[w]] = seen[wjob[w]] \cup {f}
                 /\ state'[wjob[w]] = "RETRY_PENDING" => attempts[wjob[w]] + 1 < RetryCap /\ f \notin seen[wjob[w]]
           /\ \A k \in Jobs \ {wjob[w]} : attempts'[k] = attempts[k] /\ seen'[k] = seen[k]
<1> USE DEF Typed, TypeOK
<1> DEFINE j == wjob[w]
           code == IF state[j] = "RUNNING" THEN "RENDER_FAILED" ELSE "VERIFICATION_FAILED"
<1>1. j \in Jobs
  BY DEF FailWrite, LocalOK
<1>2. attempts' = [attempts EXCEPT ![j] = @ + 1]
  BY DEF FailWrite
<1>3. PICK e \in Envs : /\ seen' = [seen EXCEPT ![j] = @ \cup {<<code, e>>}]
                        /\ state' = [state EXCEPT ![j] =
                              IF attempts[j] + 1 < RetryCap /\ <<code, e>> \notin seen[j]
                                THEN "RETRY_PENDING" ELSE "DEAD_LETTER"]
  BY DEF FailWrite
<1>4. <<code, e>> \in Fingerprints
  BY DEF Fingerprints
<1>5. seen'[j] = seen[j] \cup {<<code, e>>}
  BY <1>1, <1>3
<1>6. state'[j] = "RETRY_PENDING" => attempts[j] + 1 < RetryCap /\ <<code, e>> \notin seen[j]
  BY <1>1, <1>3
<1> QED BY <1>1, <1>2, <1>3, <1>4, <1>5, <1>6

LEMMA NextCharged == Typed /\ Charged /\ [Next]_vars => Charged'
<1> SUFFICES ASSUME Typed, Charged, [Next]_vars, NEW j \in Jobs
             PROVE  IsFiniteSet(seen'[j]) /\ (attempts'[j] > 0 => seen'[j] # {})
  BY DEF Charged
<1>1. CASE attempts'[j] = attempts[j] /\ seen'[j] = seen[j]
  BY <1>1 DEF Charged
<1>2. ASSUME NEW w \in Workers, FailWrite(w), wjob[w] = j
      PROVE  IsFiniteSet(seen'[j]) /\ seen'[j] # {}
  <2>1. PICK f \in Fingerprints : seen'[j] = seen[j] \cup {f}
    BY <1>2, FailureCharged
  <2> QED BY <2>1, FS_AddElement DEF Charged
<1>3. ASSUME NEW w \in Workers, FinalWrite(w)
      PROVE  seen'[j] = seen[j] /\ (attempts'[j] = attempts[j] \/ attempts'[j] = 0)
  BY <1>3 DEF FinalWrite, Typed, TypeOK
<1> QED BY <1>1, <1>2, <1>3, ChargeSteps, FailureCharged DEF Charged

LEMMA NextNew == Typed /\ Charged /\ RetriesAreNew /\ [Next]_vars => RetriesAreNew'
<1> SUFFICES ASSUME Typed, Charged, RetriesAreNew, [Next]_vars, NEW j \in Jobs, state'[j] = "RETRY_PENDING"
             PROVE  attempts'[j] < RetryCap' /\ attempts'[j] <= Cardinality(seen'[j])
  BY DEF RetriesAreNew
<1>0. RetryCap' = RetryCap /\ RetryCap \in Nat /\ RetryCap <= 3 /\ attempts[j] \in Nat /\ IsFiniteSet(seen[j])
  BY BoundAssumption DEF RetryCap, MaxRetries, Typed, TypeOK, Charged
<1>1. CASE state[j] = "RETRY_PENDING" /\ attempts'[j] = attempts[j] /\ seen'[j] = seen[j]
  BY <1>0, <1>1 DEF RetriesAreNew
<1>2. ASSUME NEW w \in Workers, FailWrite(w), wjob[w] = j
      PROVE  attempts'[j] < RetryCap /\ attempts'[j] <= Cardinality(seen'[j])
  <2>1. PICK f : /\ seen'[j] = seen[j] \cup {f} /\ f \notin seen[j]
                 /\ attempts'[j] = attempts[j] + 1 /\ attempts[j] + 1 < RetryCap
    BY <1>2, FailureCharged
  <2>2. Cardinality(seen'[j]) = Cardinality(seen[j]) + 1 /\ Cardinality(seen[j]) \in Nat
    BY <1>0, <2>1, FS_AddElement, FS_CardinalityType
  <2>3. attempts[j] > 0 => Cardinality(seen[j]) # 0
    BY <1>0, FS_EmptySet DEF Charged
  <2> QED BY <1>0, <2>1, <2>2, <2>3
<1> QED BY <1>0, <1>1, <1>2, RetrySteps

\* RetriesAreNew: whatever crashes, an identical failure under an unchanged
\* environment is never retried, and no retry exceeds the budget.
THEOREM RetryCorrect == Spec => []RetriesAreNew
<1>1. Init => Charged /\ RetriesAreNew
  BY FS_EmptySet DEF Init, Charged, RetriesAreNew
<1> QED BY <1>1, InitTyped, NextTyped, NextCharged, NextNew, PTL DEF Spec

-----------------------------------------------------------------------------
(* The candidates of a render job *)

\* No candidate of the job was rendered for the tick.
NoneRendered(j, t) == \A v \in DOMAIN effects[j] : effects[j][v] # t

\* The holder of the lease of a render job, past its probe and not yet past
\* its dispatch.
AboutToRender(w) ==
    Current(w) /\ wjob[w] \in RenderJobs /\ pc[w] \in {"toReadyRedo", "toRunning", "dispatch"}

\* A render job's pre-image has no version, so a probe that finds no effect
\* finds no candidate at all; whoever then holds the lease and goes on to
\* render does so for a tick without one.
RenderInv ==
    /\ \A j \in RenderJobs : \A t \in Ticks : pre[j][t] = 0
    /\ \A w \in Workers : AboutToRender(w) => NoneRendered(wjob[w], wtick[w])
    /\ RenderedOnce

\* Only the holder of the lease adds a candidate.
LEMMA OthersKeepCandidates ==
    ASSUME IInv, [Next]_vars, NEW x \in Workers, Current(x), wjob[x] \in RenderJobs, ~TickStep(x)
    PROVE  effects'[wjob[x]] = effects[wjob[x]]
<1>1. ASSUME NEW w \in Workers, DispatchEffect(w) PROVE effects'[wjob[x]] = effects[wjob[x]]
  <2>1. w # x
    BY <1>1 DEF TickStep, HandlerStep
  <2>2. CASE wjob[w] = wjob[x]
    <3>1. Active(w) /\ wtok[w] = token[wjob[w]]
      BY <1>1, <2>2, Dispatched DEF DispatchEffect, HandlerFence, ActiveFence, IInv
    <3> QED BY <2>1, <2>2, <3>1, FencedApart DEF IInv
  <2>3. CASE wjob[w] # wjob[x]
    BY <1>1, <2>3, KindAssumption, Dispatched DEF IInv
  <2> QED BY <2>2, <2>3
<1> QED BY <1>1, EffectSteps

\* A step of the holder brings it to the render only from a probe that found
\* nothing or from the reservation of a new intent.
LEMMA ArrivesToRender ==
    ASSUME IInv, NEW x \in Workers, TickStep(x), ~ClaimCAS(x), AboutToRender(x)'
    PROVE  /\ UNCHANGED effects
           /\ \/ AboutToRender(x)
              \/ HeadVersion(wjob[x]) <= pre[wjob[x]][wtick[x]]
              \/ intent[wjob[x]][wtick[x]] = "none"
<1> DEFINE Late == {"toReadyRedo", "toRunning", "dispatch"}
<1>0. /\ Current(x) /\ Knows(x) /\ wjob[x] \in Jobs /\ wtick[x] \in Ticks /\ wjob[x] \in RenderJobs
      /\ pc'[x] \in Late /\ Typed
  BY OwnStepCurrent DEF AboutToRender, IInv
<1>1. CASE MoveStep(x)
  <2>1. UNCHANGED effects
    BY <1>1 DEF MoveStep, MoveRead, MoveRefused, MoveLost, MoveWrite, ReleaseWrite, FailWrite, FinalWrite, Release,
       Raise, storeVars, artVars
  <2>2. CASE MoveWrite(x)
    <3>1. pc[x] \in PlainMoves /\ (pc'[x] = "idle" \/ pc'[x] = Move[pc[x]].then)
      BY <1>0, <2>2 DEF MoveWrite, Forget, Typed, TypeOK
    <3>2. pc[x] \in Late
      <4>1. ASSUME pc[x] \in PlainMoves \ {"toReadyRedo", "toRunning"} PROVE Move[pc[x]].then \notin Late
        BY <4>1, PlainMovesAre DEF Move
      <4> QED BY <1>0, <3>1, <4>1
    <3> QED BY <1>0, <2>1, <3>2 DEF AboutToRender
  <2>3. CASE ~MoveWrite(x)
    <3>1. pc'[x] = pc[x]
      BY <1>0, <1>1, <2>3 DEF MoveStep, MoveRead, MoveRefused, MoveLost, ReleaseWrite, FailWrite, FinalWrite,
         Release, Raise, Forget, Typed, TypeOK
    <3> QED BY <1>0, <2>1, <3>1 DEF AboutToRender
  <2> QED BY <2>2, <2>3
<1>2. CASE JournalStep(x)
  <2>1. ReserveIntent(x)
    BY <1>0, <1>2 DEF JournalStep, ReserveIntent, ReserveRefused, ReadIntent, MarkUnconfirmed, SettleFailed,
       CommitIntent, JournalRefused, Raise, Forget, Goto, Typed, TypeOK
  <2>2. UNCHANGED effects
    BY <2>1 DEF ReserveIntent, artVars
  <2>3. intent[wjob[x]][wtick[x]] = "none"
    <3>1. CASE pc[x] = "reserveFresh"
      BY <1>0, <3>1 DEF Knows, JournalAt
    <3>2. CASE pc[x] # "reserveFresh"
      BY <1>0, <2>1, <3>2 DEF ReserveIntent, Goto, Typed, TypeOK
    <3> QED BY <3>1, <3>2
  <2> QED BY <2>2, <2>3
<1>3. CASE HandlerStep(x)
  <2>1. ProbeNoEffect(x)
    BY <1>0, <1>3 DEF HandlerStep, Precheck, ProbeAdopt, ProbeNoEffect, ProbeUnknown, DispatchEffect,
       DispatchNoEffect, Observe, Verify, OnCommit, Goto, Typed, TypeOK
  <2> QED BY <2>1 DEF ProbeNoEffect, storeVars, artVars
<1>4. CASE ClaimLost(x)
  BY <1>0, <1>4 DEF ClaimLost, Raise, Forget, Typed, TypeOK
<1> QED BY <1>1, <1>2, <1>3, <1>4 DEF TickStep

LEMMA NextRenders == IInv /\ EffectsFollowIntent /\ RenderInv /\ [Next]_vars => RenderInv'
<1> SUFFICES ASSUME IInv, EffectsFollowIntent, RenderInv, [Next]_vars PROVE RenderInv'
  OBVIOUS
<1>0. Typed /\ RenderJobs \subseteq Jobs
  BY KindAssumption DEF IInv
<1>1. ASSUME NEW j \in RenderJobs, NEW t \in Ticks PROVE pre'[j][t] = 0
  <2>1. j \in Jobs /\ pre[j][t] = 0
    BY <1>0, <1>1 DEF RenderInv
  <2>2. ASSUME NEW w \in Workers, JournalChange(w) PROVE pre'[j][t] = 0
    <3>1. wjob[w] \in Jobs /\ wtick[w] \in Ticks /\ pre[wjob[w]] \in [Ticks -> Nat]
      BY <1>0, <2>2 DEF JournalChange, Typed, TypeOK
    <3>2. UNCHANGED pre \/ pre' = [pre EXCEPT ![wjob[w]][wtick[w]] = IF wjob[w] \in RenderJobs THEN 0 ELSE HeadVersion(wjob[w])]
      BY <2>2 DEF JournalChange
    <3>3. pre \in [Jobs -> [Ticks -> Nat]]
      BY <1>0 DEF Typed, TypeOK
    <3>4. CASE wjob[w] = j
      BY <2>1, <3>1, <3>2, <3>3, <3>4
    <3>5. CASE wjob[w] # j
      BY <2>1, <3>1, <3>2, <3>3, <3>5
    <3> QED BY <3>4, <3>5
  <2> QED BY <1>0, <2>1, <2>2, JournalChanges
<1>2. ASSUME NEW x \in Workers, AboutToRender(x)' PROVE NoneRendered(wjob[x], wtick[x])'
  <2>1. CASE ~TickStep(x)
    <3>1. Current(x) /\ pc'[x] = pc[x] /\ wjob'[x] = wjob[x] /\ wtick'[x] = wtick[x]
      BY <1>2, <2>1, OthersKeepRow DEF IInv, AboutToRender
    <3>2. AboutToRender(x)
      BY <1>2, <3>1 DEF AboutToRender
    <3>3. effects'[wjob[x]] = effects[wjob[x]]
      BY <2>1, <3>2, OthersKeepCandidates DEF AboutToRender
    <3> QED BY <3>1, <3>2, <3>3 DEF RenderInv, NoneRendered
  <2>2. CASE TickStep(x)
    <3>1. ~ClaimCAS(x)
      BY <1>0, <1>2 DEF AboutToRender, ClaimCAS, Typed, TypeOK
    <3>2. /\ wjob'[x] = wjob[x] /\ wtick'[x] = wtick[x] /\ wjob[x] \in RenderJobs
          /\ wjob[x] \in Jobs /\ wtick[x] \in Ticks
      BY <1>2, <2>2, <3>1, OwnStepCurrent DEF AboutToRender
    <3>3. UNCHANGED effects
      BY <1>2, <2>2, <3>1, ArrivesToRender
    <3>4. NoneRendered(wjob[x], wtick[x])
      <4>1. CASE AboutToRender(x)
        BY <4>1 DEF RenderInv
      <4>2. CASE HeadVersion(wjob[x]) <= pre[wjob[x]][wtick[x]]
        <5>1. pre[wjob[x]][wtick[x]] = 0 /\ effects[wjob[x]] \in Seq(Ticks)
          BY <1>0, <3>2 DEF RenderInv, Typed, TypeOK
        <5>2. DOMAIN effects[wjob[x]] = {}
          BY <4>2, <5>1 DEF HeadVersion
        <5> QED BY <5>2 DEF NoneRendered
      <4>3. CASE intent[wjob[x]][wtick[x]] = "none"
        BY <3>2, <4>3 DEF EffectsFollowIntent, NoneRendered
      <4> QED BY <1>2, <2>2, <3>1, <4>1, <4>2, <4>3, ArrivesToRender
    <3> QED BY <3>2, <3>3, <3>4 DEF NoneRendered
  <2> QED BY <2>1, <2>2
<1>3. ASSUME NEW j \in RenderJobs, NEW u \in DOMAIN effects'[j], NEW v \in DOMAIN effects'[j], effects'[j][u] = effects'[j][v]
      PROVE  u = v
  <2>0. j \in Jobs /\ effects[j] \in Seq(Ticks) /\ \A m, n \in DOMAIN effects[j] : effects[j][m] = effects[j][n] => m = n
    BY <1>0, <1>3 DEF RenderInv, RenderedOnce, Typed, TypeOK
  <2>1. CASE effects'[j] = effects[j]
    BY <1>3, <2>0, <2>1
  <2>2. ASSUME NEW w \in Workers, DispatchEffect(w), wjob[w] = j PROVE u = v
    <3>1. effects'[j] = Append(effects[j], wtick[w]) /\ wtick[w] \in Ticks /\ Active(w)
      BY <1>0, <2>2, Dispatched
    <3>2. AboutToRender(w)
      BY <1>3, <2>2, <3>1 DEF AboutToRender, DispatchEffect, HandlerFence, ActiveFence, Current
    <3>3. \A m \in DOMAIN effects[j] : effects[j][m] # wtick[w]
      BY <2>2, <3>2 DEF RenderInv, NoneRendered
    <3>4. /\ DOMAIN effects'[j] = 1..(Len(effects[j]) + 1) /\ Len(effects[j]) \in Nat
          /\ \A m \in DOMAIN effects[j] : effects'[j][m] = effects[j][m]
          /\ effects'[j][Len(effects[j]) + 1] = wtick[w]
          /\ DOMAIN effects[j] = 1..Len(effects[j])
      BY <2>0, <3>1
    <3>5. \A m \in DOMAIN effects'[j] : m \in DOMAIN effects[j] \/ m = Len(effects[j]) + 1
      BY <3>4
    <3> QED BY <1>3, <2>0, <3>3, <3>4, <3>5
  <2>3. \/ effects'[j] = effects[j]
        \/ \E w \in Workers : DispatchEffect(w) /\ wjob[w] = j
    BY <1>0, <2>0, EffectSteps, Dispatched
  <2> QED BY <2>1, <2>2, <2>3
<1> QED BY <1>1, <1>2, <1>3 DEF RenderInv, RenderedOnce

\* RenderedOnce: no tick of a render job leaves two candidates.
THEOREM RenderedCorrect == Spec => []RenderedOnce
<1>1. Init => Reserved /\ EffectsFollowIntent /\ RenderInv
  BY KindAssumption DEF Init, Reserved, EffectsFollowIntent, RenderInv, AboutToRender, Current, Active, NoneRendered, RenderedOnce
<1>2. RenderInv => RenderedOnce
  BY DEF RenderInv
<1>3. IInv => Typed
  BY DEF IInv
<1> QED BY <1>1, <1>2, <1>3, InitIInv, NextIInv, NextReserved, NextRenders, PTL DEF Spec

-----------------------------------------------------------------------------
(* The receipts *)

\* Version v of the artifact can be the receipt of tick t: it exists, it is no
\* older than the tick's pre-image and no older than an earlier receipt.
Fits(j, t, v) ==
    /\ v \in DOMAIN effects[j] /\ v >= pre[j][t]
    /\ \A s \in 1..(t-1) : receipt[j][s] <= v

\* Versions on record exist, and the journal is at most one tick ahead.
Recorded ==
    \A j \in Jobs : \A t \in Ticks :
        /\ pre[j][t] <= HeadVersion(j) /\ receipt[j][t] <= HeadVersion(j)
        /\ intent[j][t] # "none" => t <= tick[j] + 1

\* Where run_tick holds an observation it is going to commit.
Observed == {"toAdopted", "toVerifying", "verify", "toCommitting", "commit"}

\* The holder of the lease observes an artifact that has a version, and what
\* it observed can be its receipt.
Fitting(x) ==
    /\ pc[x] \in {"toObserving", "observe"} => HeadVersion(wjob[x]) > 0
    /\ pc[x] \in Observed => Fits(wjob[x], wtick[x], obs[x])

ReceiptInv == Recorded /\ (\A x \in Workers : Current(x) => Fitting(x)) /\ ReceiptsAdvance

\* One step of the journal, seen from one entry.
LEMMA EntryStep ==
    ASSUME Typed, [Next]_vars, NEW j \in Jobs, NEW t \in Ticks
    PROVE  /\ pre[j][t] \in Nat /\ receipt[j][t] \in Nat /\ tick[j] \in Nat
           /\ \/ pre'[j][t] = pre[j][t] /\ receipt'[j][t] = receipt[j][t] /\ intent'[j][t] = intent[j][t]
              \/ \E w \in Workers : /\ JournalChange(w) /\ wjob[w] = j /\ wtick[w] = t
                                    /\ \/ /\ intent[j][t] = "none" /\ receipt'[j][t] = receipt[j][t]
                                          /\ pre'[j][t] \in {0, HeadVersion(j)} /\ intent'[j][t] = "INTENT"
                                       \/ /\ intent[j][t] \in Unsettled /\ pre'[j][t] = pre[j][t]
                                          /\ receipt'[j][t] = receipt[j][t] /\ intent'[j][t] # "COMMITTED"
                                       \/ /\ intent[j][t] \in Unsettled /\ pre'[j][t] = pre[j][t]
                                          /\ receipt'[j][t] = obs[w] /\ pc[w] = "commit"
<1>0. /\ pre \in [Jobs -> [Ticks -> Nat]] /\ receipt \in [Jobs -> [Ticks -> Nat]] /\ tick \in [Jobs -> Nat]
      /\ intent \in [Jobs -> [Ticks -> IntentStatus]]
  BY DEF Typed, TypeOK
<1>1. pre[j][t] \in Nat /\ receipt[j][t] \in Nat /\ tick[j] \in Nat
  BY <1>0
<1>2. CASE UNCHANGED <<intent, pre, receipt>>
  BY <1>1, <1>2
<1>3. ASSUME NEW w \in Workers, JournalChange(w), ~(wjob[w] = j /\ wtick[w] = t)
      PROVE  pre'[j][t] = pre[j][t] /\ receipt'[j][t] = receipt[j][t] /\ intent'[j][t] = intent[j][t]
  <2>1. /\ \E st : intent' = [intent EXCEPT ![wjob[w]][wtick[w]] = st]
        /\ pre' = pre \/ \E v : pre' = [pre EXCEPT ![wjob[w]][wtick[w]] = v]
        /\ receipt' = receipt \/ \E v : receipt' = [receipt EXCEPT ![wjob[w]][wtick[w]] = v]
    BY <1>3 DEF JournalChange, SetIntent
  <2>2. intent'[j][t] = intent[j][t]
    BY <1>0, <1>3, <2>1
  <2>3. pre'[j][t] = pre[j][t]
    <3>1. ASSUME NEW v, pre' = [pre EXCEPT ![wjob[w]][wtick[w]] = v] PROVE pre'[j][t] = pre[j][t]
      BY <1>0, <1>3, <3>1
    <3> QED BY <2>1, <3>1
  <2>4. receipt'[j][t] = receipt[j][t]
    <3>1. ASSUME NEW v, receipt' = [receipt EXCEPT ![wjob[w]][wtick[w]] = v] PROVE receipt'[j][t] = receipt[j][t]
      BY <1>0, <1>3, <3>1
    <3> QED BY <2>1, <3>1
  <2> QED BY <2>2, <2>3, <2>4
<1>4. ASSUME NEW w \in Workers, JournalChange(w), wjob[w] = j, wtick[w] = t
      PROVE  \/ /\ intent[j][t] = "none" /\ receipt'[j][t] = receipt[j][t]
                /\ pre'[j][t] \in {0, HeadVersion(j)} /\ intent'[j][t] = "INTENT"
             \/ /\ intent[j][t] \in Unsettled /\ pre'[j][t] = pre[j][t]
                /\ receipt'[j][t] = receipt[j][t] /\ intent'[j][t] # "COMMITTED"
             \/ /\ intent[j][t] \in Unsettled /\ pre'[j][t] = pre[j][t]
                /\ receipt'[j][t] = obs[w] /\ pc[w] = "commit"
  BY <1>0, <1>4 DEF JournalChange, SetIntent
<1> QED BY <1>1, <1>2, <1>3, <1>4, JournalChanges

\* The tick of a job goes on by one, at most.
LEMMA TickStays ==
    ASSUME IInv, [Next]_vars, NEW j \in Jobs
    PROVE  tick[j] \in Nat /\ tick'[j] \in Nat /\ tick'[j] >= tick[j]
<1>1. tick \in [Jobs -> Nat]
  BY DEF IInv, Typed, TypeOK
<1>2. ASSUME NEW k \in Jobs, RowWrite(k) PROVE tick'[j] = tick[j] \/ tick'[j] = tick[j] + 1
  BY <1>1, <1>2 DEF RowWrite
<1> QED BY <1>1, <1>2, RowWrites

\* What fits goes on to fit while the tick is the next one.
LEMMA FitsStay ==
    ASSUME IInv, CountedTicksCommitted, [Next]_vars, NEW j \in Jobs, NEW t \in Ticks, NEW v \in Nat,
           t <= tick[j] + 1, intent[j][t] # "none", Fits(j, t, v)
    PROVE  Fits(j, t, v)'
<1>1. Typed /\ tick[j] \in Nat
  BY TickStays DEF IInv
<1>2. v \in DOMAIN effects'[j]
  BY <1>1, EffectsGrow DEF Fits
<1>3. pre'[j][t] = pre[j][t]
  BY <1>1, EntryStep
<1>4. ASSUME NEW s \in 1..(t-1) PROVE receipt'[j][s] = receipt[j][s]
  <2>1. s \in Ticks /\ s <= tick[j]
    BY <1>1, BoundAssumption DEF Ticks
  <2>2. intent[j][s] = "COMMITTED"
    BY <2>1 DEF CountedTicksCommitted
  <2> QED BY <1>1, <2>1, <2>2, EntryStep DEF Unsettled
<1> QED BY <1>2, <1>3, <1>4 DEF Fits

LEMMA NextRecorded == IInv /\ ReceiptInv /\ [Next]_vars => Recorded'
<1> SUFFICES ASSUME IInv, ReceiptInv, [Next]_vars, NEW j \in Jobs, NEW t \in Ticks
             PROVE  /\ pre'[j][t] <= HeadVersion(j)' /\ receipt'[j][t] <= HeadVersion(j)'
                    /\ intent'[j][t] # "none" => t <= tick'[j] + 1
  BY DEF Recorded
<1>0. /\ Typed /\ t \in Nat /\ HeadVersion(j) \in Nat /\ HeadVersion(j)' \in Nat /\ HeadVersion(j)' >= HeadVersion(j)
      /\ DOMAIN effects[j] = 1..HeadVersion(j) /\ pre[j][t] \in Nat /\ receipt[j][t] \in Nat
      /\ tick[j] \in Nat /\ tick'[j] \in Nat /\ tick'[j] >= tick[j]
  BY EffectsGrow, EntryStep, TickStays, BoundAssumption DEF IInv, Ticks
<1>1. /\ pre[j][t] <= HeadVersion(j) /\ receipt[j][t] <= HeadVersion(j)
      /\ intent[j][t] # "none" => t <= tick[j] + 1
  BY DEF ReceiptInv, Recorded
<1>2. CASE pre'[j][t] = pre[j][t] /\ receipt'[j][t] = receipt[j][t] /\ intent'[j][t] = intent[j][t]
  BY <1>0, <1>1, <1>2
<1>3. ASSUME NEW w \in Workers, JournalChange(w), wjob[w] = j, wtick[w] = t
      PROVE  t <= tick[j] + 1 /\ (pc[w] = "commit" => obs[w] <= HeadVersion(j) /\ obs[w] \in Nat)
  <2>1. Current(w) /\ Knows(w) /\ Fitting(w)
    BY <1>3, HoldersKnow DEF JournalChange, IInv, ReceiptInv
  <2>2. t <= tick[j] + 1
    BY <1>0, <1>3, <2>1 DEF Knows
  <2>3. ASSUME pc[w] = "commit" PROVE obs[w] \in 1..HeadVersion(j)
    BY <1>0, <1>3, <2>1, <2>3 DEF Fitting, Observed, Fits
  <2> QED BY <1>0, <2>2, <2>3
<1>4. \/ pre'[j][t] = pre[j][t] /\ receipt'[j][t] = receipt[j][t] /\ intent'[j][t] = intent[j][t]
      \/ /\ t <= tick[j] + 1
         /\ pre'[j][t] = pre[j][t] \/ pre'[j][t] \in {0, HeadVersion(j)}
         /\ receipt'[j][t] = receipt[j][t] \/ (receipt'[j][t] \in Nat /\ receipt'[j][t] <= HeadVersion(j))
  BY <1>0, <1>3, EntryStep
<1> QED BY SMTT(30), <1>0, <1>1, <1>2, <1>4

\* A receipt that is written fits, and so does every one written before.
LEMMA NextReceipts == IInv /\ CountedTicksCommitted /\ ReceiptInv /\ [Next]_vars => ReceiptsAdvance'
<1> SUFFICES ASSUME IInv, CountedTicksCommitted, ReceiptInv, [Next]_vars,
                    NEW j \in Jobs, NEW t \in Ticks, intent'[j][t] = "COMMITTED"
             PROVE  Fits(j, t, receipt[j][t])'
  BY DEF ReceiptsAdvance, Fits
<1>0. Typed /\ pre[j][t] \in Nat /\ receipt[j][t] \in Nat /\ tick[j] \in Nat /\ t \in Nat
  BY EntryStep, BoundAssumption DEF IInv, Ticks
<1>1. CASE intent[j][t] = "COMMITTED"
  <2>1. Fits(j, t, receipt[j][t]) /\ t <= tick[j] + 1
    BY <1>1 DEF ReceiptInv, ReceiptsAdvance, Recorded, Fits
  <2>2. \A v \in Nat : v = receipt[j][t] => Fits(j, t, v)'
    BY <1>0, <1>1, <2>1, FitsStay
  <2>3. receipt'[j][t] = receipt[j][t]
    BY <1>0, <1>1, EntryStep DEF Unsettled
  <2> QED BY <1>0, <2>2, <2>3 DEF Fits
<1>2. CASE intent[j][t] # "COMMITTED"
  <2>1. PICK w \in Workers : /\ JournalChange(w) /\ wjob[w] = j /\ wtick[w] = t
                             /\ intent[j][t] \in Unsettled /\ receipt'[j][t] = obs[w] /\ pc[w] = "commit"
    BY <1>0, <1>2, EntryStep
  <2>2. Current(w) /\ Knows(w) /\ Fitting(w) /\ obs[w] \in Nat
    BY <1>0, <2>1, HoldersKnow DEF JournalChange, IInv, ReceiptInv, Typed, TypeOK
  <2>3. Fits(j, t, obs[w]) /\ t <= tick[j] + 1
    BY <1>0, <2>1, <2>2 DEF Fitting, Observed, Knows
  <2>4. \A v \in Nat : v = obs[w] => Fits(j, t, v)'
    BY <2>1, <2>2, <2>3, FitsStay DEF Unsettled
  <2> QED BY <2>1, <2>2, <2>4 DEF Fits
<1> QED BY <1>1, <1>2

\* Nobody else touches what a worker in a tick has observed.
LEMMA ObservationStays ==
    ASSUME Typed, [Next]_vars, NEW x \in Workers, Active(x)', ~TickStep(x)
    PROVE  obs'[x] = obs[x]
<1> USE DEF Typed, TypeOK
<1>1. ASSUME NEW w \in Workers, MoveStep(w), w # x PROVE obs'[x] = obs[x]
  BY <1>1 DEF MoveStep, MoveRead, MoveRefused, MoveLost, MoveWrite, ReleaseWrite, FailWrite, FinalWrite, Release,
     Raise, Forget, localVars
<1>2. ASSUME NEW w \in Workers, JournalStep(w), w # x PROVE obs'[x] = obs[x]
  BY <1>2 DEF JournalStep, ReserveIntent, ReserveRefused, ReadIntent, MarkUnconfirmed, SettleFailed,
     CommitIntent, JournalRefused, Raise, Forget, Goto, localVars
<1>3. ASSUME NEW w \in Workers, HandlerStep(w), w # x PROVE obs'[x] = obs[x]
  BY <1>3 DEF HandlerStep, Precheck, ProbeAdopt, ProbeNoEffect, ProbeUnknown, DispatchEffect,
     DispatchNoEffect, Observe, Verify, OnCommit, Goto, localVars
<1>4. ASSUME NEW w \in Workers, ClaimCAS(w) \/ ClaimLost(w), w # x PROVE obs'[x] = obs[x]
  BY <1>4 DEF ClaimCAS, ClaimLost, Raise, Forget
<1>5. ASSUME NEW w \in Workers, Crash(w) PROVE obs'[x] = obs[x]
  BY <1>5 DEF Crash, Raise, Forget, Active
<1>6. ASSUME NEW w \in Workers, RenewLease(w) \/ \E j \in Jobs : ClaimRead(w, j) PROVE obs'[x] = obs[x]
  BY <1>6 DEF RenewLease, ClaimRead, localVars
<1>7. ASSUME NEW j \in Jobs, JobNext(j) PROVE obs'[x] = obs[x]
  BY <1>7 DEF JobNext, LeaseExpires, OperatorMove, CancelStop, Decide, SettleApproval, workVars, localVars
<1>8. ASSUME NEW w \in Workers, TickStep(w) PROVE obs'[x] = obs[x]
  BY <1>1, <1>2, <1>3, <1>4, <1>8 DEF TickStep
<1> QED BY <1>5, <1>6, <1>7, <1>8 DEF Next, WorkerNext, vars, workVars, localVars

\* The points where a worker knows something of the artifact.
Seeing == Observed \cup {"toObserving", "observe"}

\* A step of the holder that takes it to one of them, or on to the next one.
LEMMA ArrivesSeeing ==
    ASSUME IInv, ReceiptInv, NEW x \in Workers, TickStep(x), ~ClaimCAS(x), Current(x)', pc'[x] \in Seeing
    PROVE  \/ /\ pc[x] \in Seeing /\ obs'[x] = obs[x]
              /\ pc'[x] \in Observed <=> pc[x] \in Observed
           \/ pc'[x] = "toObserving" /\ HeadVersion(wjob[x])' > 0
           \/ pc'[x] \in Observed /\ Fits(wjob[x], wtick[x], obs'[x]) /\ UNCHANGED storeVars
<1>0. /\ Current(x) /\ Knows(x) /\ wjob[x] \in Jobs /\ wtick[x] \in Ticks /\ Typed
      /\ pc \in [Workers -> PCs] /\ obs \in [Workers -> Nat]
  BY OwnStepCurrent DEF IInv, Typed, TypeOK
<1>1. /\ HeadVersion(wjob[x]) \in Nat /\ DOMAIN effects[wjob[x]] = 1..HeadVersion(wjob[x])
      /\ pre[wjob[x]][wtick[x]] \in Nat /\ pre[wjob[x]][wtick[x]] <= HeadVersion(wjob[x])
      /\ \A s \in 1..(wtick[x]-1) : s \in Ticks /\ receipt[wjob[x]][s] <= HeadVersion(wjob[x])
  <2>1. effects[wjob[x]] \in Seq(Ticks) /\ pre[wjob[x]][wtick[x]] \in Nat
    BY <1>0 DEF Typed, TypeOK
  <2>2. \A s \in 1..(wtick[x]-1) : s \in Ticks
    BY <1>0, BoundAssumption DEF Ticks
  <2> QED BY <1>0, <2>1, <2>2 DEF ReceiptInv, Recorded, HeadVersion
<1>2. HeadVersion(wjob[x]) > 0 => Fits(wjob[x], wtick[x], HeadVersion(wjob[x]))
  BY <1>1 DEF Fits
<1>3. CASE MoveStep(x)
  <2>1. CASE MoveWrite(x)
    <3>1. /\ pc[x] \in PlainMoves
          /\ pc'[x] = "idle" \/ (pc'[x] = Move[pc[x]].then /\ obs'[x] = obs[x])
      BY <1>0, <2>1 DEF MoveWrite, Forget, localVars
    <3>2. ASSUME pc[x] \in PlainMoves \ {"toAdopted", "toVerifying", "toCommitting", "toObserving"}
          PROVE  Move[pc[x]].then \notin Seeing
      BY <3>2, PlainMovesAre DEF Move, Seeing, Observed
    <3>3. CASE pc[x] = "toObserving"
      <4>1. Move[pc[x]].then = "observe"
        BY <3>3 DEF Move
      <4> QED BY <3>1, <3>3, <4>1 DEF Seeing, Observed
    <3>4. CASE pc[x] \in {"toAdopted", "toVerifying", "toCommitting"}
      <4>1. Move[pc[x]].then \in Observed
        BY <3>4 DEF Move, Observed
      <4> QED BY <3>1, <3>4, <4>1 DEF Seeing, Observed
    <3> QED BY <3>1, <3>2, <3>3, <3>4 DEF Seeing, Observed
  <2>2. CASE ~MoveWrite(x)
    <3>1. pc'[x] = pc[x] /\ obs'[x] = obs[x]
      BY <1>0, <1>3, <2>2 DEF MoveStep, MoveRead, MoveRefused, MoveLost, ReleaseWrite, FailWrite, FinalWrite,
         Release, Raise, Forget, Seeing, Observed, localVars
    <3> QED BY <3>1
  <2> QED BY <2>1, <2>2
<1>4. CASE JournalStep(x)
  <2>1. ReadIntent(x) /\ pc'[x] = "toAdopted"
    BY <1>0, <1>4 DEF JournalStep, ReserveIntent, ReserveRefused, ReadIntent, MarkUnconfirmed, SettleFailed,
       CommitIntent, JournalRefused, Raise, Forget, Goto, Seeing, Observed
  <2>2. intent[wjob[x]][wtick[x]] = "COMMITTED" /\ obs'[x] = receipt[wjob[x]][wtick[x]]
    BY <1>0, <2>1 DEF ReadIntent, Goto
  <2>3. UNCHANGED storeVars
    BY <2>1 DEF ReadIntent
  <2>4. Fits(wjob[x], wtick[x], obs'[x])
    BY <1>0, <2>2 DEF ReceiptInv, ReceiptsAdvance, Fits
  <2> QED BY <2>1, <2>3, <2>4 DEF Observed
<1>5. CASE HandlerStep(x)
  <2>1. CASE ProbeAdopt(x)
    <3>1. HeadVersion(wjob[x]) > pre[wjob[x]][wtick[x]] /\ UNCHANGED storeVars
      BY <2>1 DEF ProbeAdopt
    <3>2. pc'[x] = "toAdopted" /\ obs'[x] = HeadVersion(wjob[x])
      BY <1>0, <2>1 DEF ProbeAdopt
    <3> QED BY <1>1, <1>2, <3>1, <3>2 DEF Observed
  <2>2. CASE DispatchEffect(x)
    <3>1. effects'[wjob[x]] = Append(effects[wjob[x]], wtick[x]) /\ effects[wjob[x]] \in Seq(Ticks)
      BY <1>0, <2>2, Dispatched DEF Typed, TypeOK
    <3>2. wjob'[x] = wjob[x] /\ pc'[x] \in {"toObserving", "lostAck"}
      BY <1>0, <2>2 DEF DispatchEffect, Goto, localVars
    <3> QED BY <1>0, <3>1, <3>2 DEF HeadVersion, Seeing, Observed
  <2>3. CASE DispatchNoEffect(x)
    BY <1>0, <2>3 DEF DispatchNoEffect, Goto, HeadVersion, Seeing, Observed, storeVars, artVars, localVars
  <2>4. CASE Observe(x)
    <3>1. HeadVersion(wjob[x]) > 0
      BY <1>0, <2>4 DEF Observe, ReceiptInv, Fitting
    <3>2. pc'[x] = "toVerifying" /\ obs'[x] = HeadVersion(wjob[x])
      BY <1>0, <2>4 DEF Observe, Goto, Seeing, Observed
    <3>3. UNCHANGED storeVars
      BY <2>4 DEF Observe
    <3> QED BY <1>1, <1>2, <3>1, <3>2, <3>3 DEF Observed
  <2>5. CASE Verify(x)
    BY <1>0, <2>5 DEF Verify, Goto, Seeing, Observed, localVars
  <2>6. CASE Precheck(x) \/ ProbeNoEffect(x) \/ ProbeUnknown(x) \/ OnCommit(x)
    BY <1>0, <2>6 DEF Precheck, ProbeNoEffect, ProbeUnknown, OnCommit, Goto, Seeing, Observed
  <2> QED BY <1>5, <2>1, <2>2, <2>3, <2>4, <2>5, <2>6 DEF HandlerStep
<1>6. CASE ClaimLost(x)
  BY <1>0, <1>6 DEF ClaimLost, Raise, Forget, Seeing, Observed
<1> QED BY <1>3, <1>4, <1>5, <1>6 DEF TickStep

\* What the holder of the lease knows of the artifact stays true.
LEMMA NextFitting ==
    ASSUME IInv, CountedTicksCommitted, ReceiptInv, [Next]_vars, NEW x \in Workers, Current(x)'
    PROVE  Fitting(x)'
<1>0. Typed /\ obs \in [Workers -> Nat]
  BY DEF IInv, Typed, TypeOK
<1>1. ASSUME Current(x), wjob'[x] = wjob[x], wtick'[x] = wtick[x], obs'[x] = obs[x],
             pc[x] \in Observed, pc'[x] \in Observed
      PROVE  Fitting(x)'
  <2>1. Knows(x) /\ wjob[x] \in Jobs /\ wtick[x] \in Ticks /\ Fits(wjob[x], wtick[x], obs[x])
    BY <1>1, HoldersKnow DEF IInv, Typed, LocalOK, Current, Active, ReceiptInv, Fitting
  <2>2. wtick[x] <= tick[wjob[x]] + 1 /\ intent[wjob[x]][wtick[x]] # "none"
    BY <1>1, <2>1, TickStays DEF Knows, JournalAt, Observed, Unsettled
  <2>3. \A j \in Jobs, t \in Ticks, v \in Nat :
           j = wjob[x] /\ t = wtick[x] /\ v = obs[x] => Fits(j, t, v)'
    BY <2>1, <2>2, FitsStay
  <2>4. Fits(wjob[x], wtick[x], obs[x])'
    BY <1>0, <1>1, <2>1, <2>3 DEF Fits
  <2> QED BY <1>1, <2>4 DEF Fitting, Observed
<1>2. ASSUME Current(x), wjob[x] \in Jobs, wjob'[x] = wjob[x], pc[x] \in {"toObserving", "observe"}, pc'[x] \notin Observed
      PROVE  Fitting(x)'
  <2>1. HeadVersion(wjob[x]) > 0
    BY <1>2 DEF ReceiptInv, Fitting
  <2>2. \A j \in Jobs : j = wjob[x] => HeadVersion(j)' > 0
    BY <1>0, <2>1, EffectsGrow
  <2> QED BY <1>2, <2>2 DEF Fitting, HeadVersion
<1>3. CASE pc'[x] \notin Seeing
  BY <1>3 DEF Fitting, Seeing, Observed
<1>4. CASE pc'[x] \in Seeing /\ ~TickStep(x)
  <2>1. /\ Current(x) /\ pc'[x] = pc[x] /\ wjob'[x] = wjob[x] /\ wtick'[x] = wtick[x] /\ wjob[x] \in Jobs
    BY <1>4, OthersKeepRow DEF IInv, Current, Active, Typed, LocalOK
  <2>2. obs'[x] = obs[x]
    BY <1>0, <1>4, ObservationStays DEF Current
  <2> QED BY <1>1, <1>2, <1>4, <2>1, <2>2 DEF Seeing, Observed
<1>5. CASE pc'[x] \in Seeing /\ TickStep(x)
  <2>1. ~ClaimCAS(x)
    BY <1>0, <1>5 DEF ClaimCAS, Typed, TypeOK, Seeing, Observed
  <2>2. /\ Current(x) /\ wjob[x] \in Jobs /\ wtick[x] \in Ticks
        /\ wjob'[x] = wjob[x] /\ wtick'[x] = wtick[x]
    BY <1>5, <2>1, OwnStepCurrent
  <2>3. CASE pc[x] \in Seeing /\ obs'[x] = obs[x] /\ (pc'[x] \in Observed <=> pc[x] \in Observed)
    BY <1>1, <1>2, <2>2, <2>3 DEF Seeing
  <2>4. CASE pc'[x] = "toObserving" /\ HeadVersion(wjob[x])' > 0
    BY <2>2, <2>4 DEF Fitting, Observed, HeadVersion
  <2>5. CASE pc'[x] \in Observed /\ Fits(wjob[x], wtick[x], obs'[x]) /\ UNCHANGED storeVars
    BY <2>2, <2>5 DEF Fitting, Fits, Observed, storeVars, intentVars, artVars
  <2> QED BY <1>5, <2>1, <2>3, <2>4, <2>5, ArrivesSeeing
<1> QED BY <1>3, <1>4, <1>5

LEMMA InitReceipts == Init => CountedTicksCommitted /\ ReceiptInv
<1> SUFFICES ASSUME Init PROVE CountedTicksCommitted /\ ReceiptInv
  OBVIOUS
<1>1. \A j \in Jobs : \A t \in Ticks : /\ tick[j] = 0 /\ intent[j][t] = "none" /\ pre[j][t] = 0 /\ receipt[j][t] = 0
                                       /\ effects[j] = <<>> /\ t \in Nat /\ t > 0
  BY BoundAssumption DEF Init, Ticks
<1>2. \A x \in Workers : ~Current(x)
  BY DEF Init, Current, Active
<1> QED BY <1>1, <1>2 DEF CountedTicksCommitted, ReceiptInv, Recorded, ReceiptsAdvance, HeadVersion

\* What is known of the receipts, of every reachable state.
LEMMA ReceiptInvHolds == Spec => [](CountedTicksCommitted /\ ReceiptInv)
<1>1. IInv /\ CountedTicksCommitted /\ ReceiptInv /\ [Next]_vars => ReceiptInv'
  BY NextRecorded, NextReceipts, NextFitting DEF ReceiptInv
<1> QED BY <1>1, InitReceipts, InitIInv, NextIInv, NextCounted, PTL DEF Spec

\* ReceiptsAdvance: what is committed exists, is no older than the head the
\* tick started from and never goes back.
THEOREM ReceiptCorrect == Spec => []ReceiptsAdvance
<1>1. ReceiptInv => ReceiptsAdvance
  BY DEF ReceiptInv
<1> QED BY <1>1, ReceiptInvHolds, PTL

\* The journal has no gap and is never more than one tick ahead: every counted
\* tick is committed, and nothing is written for a tick beyond the next one.
JournalOneAhead ==
    \A j \in Jobs, t \in Ticks : /\ t <= tick[j] => intent[j][t] = "COMMITTED"
                                 /\ t > tick[j] + 1 => intent[j][t] = "none"

\* JournalOneAhead: the write-ahead entry of a tick waits for the tick before.
THEOREM OneAheadCorrect == Spec => []JournalOneAhead
<1>1. IInv /\ CountedTicksCommitted /\ ReceiptInv => JournalOneAhead
  <2> SUFFICES ASSUME IInv, CountedTicksCommitted, ReceiptInv, NEW j \in Jobs, NEW t \in Ticks
               PROVE  /\ t <= tick[j] => intent[j][t] = "COMMITTED"
                      /\ t > tick[j] + 1 => intent[j][t] = "none"
    BY DEF JournalOneAhead
  <2>1. t \in Nat /\ tick[j] \in Nat
    BY BoundAssumption DEF IInv, Typed, TypeOK, Ticks
  <2> QED BY <2>1 DEF CountedTicksCommitted, ReceiptInv, Recorded
<1> QED BY <1>1, IInvHolds, ReceiptInvHolds, PTL

-----------------------------------------------------------------------------
(* The approvals of a render job *)

\* Where run_tick holds the observation it commits or has committed.
Ending == Observed \cup {"onCommit", "toFinal"}

\* Over a committed intent, what the holder of the lease observed is what the
\* receipt says.
Confirmed ==
    \A x \in Workers :
        Current(x) /\ pc[x] \in Ending /\ intent[wjob[x]][wtick[x]] = "COMMITTED"
            => obs[x] = receipt[wjob[x]][wtick[x]]

\* A step of the holder that takes it to one of those points: it knew before
\* what it observed, or it reads the receipt, or it writes it, or the intent
\* is still open.
LEMMA ArrivesEnding ==
    ASSUME IInv, Confirmed, NEW x \in Workers, TickStep(x), ~ClaimCAS(x), Current(x)', pc'[x] \in Ending,
           intent'[wjob[x]][wtick[x]] = "COMMITTED"
    PROVE  obs'[x] = receipt'[wjob[x]][wtick[x]]
<1>0. /\ Current(x) /\ Knows(x) /\ wjob[x] \in Jobs /\ wtick[x] \in Ticks /\ Typed
      /\ pc \in [Workers -> PCs] /\ obs \in [Workers -> Nat]
  BY OwnStepCurrent DEF IInv, Typed, TypeOK
<1>1. CASE MoveStep(x)
  <2>0. UNCHANGED <<intent, receipt>>
    BY <1>1 DEF MoveStep, MoveRead, MoveRefused, MoveLost, MoveWrite, ReleaseWrite, FailWrite, FinalWrite,
       Release, Raise, storeVars, intentVars
  <2>1. CASE MoveWrite(x)
    <3>1. /\ pc[x] \in PlainMoves
          /\ pc'[x] = "idle" \/ (pc'[x] = Move[pc[x]].then /\ obs'[x] = obs[x])
      BY <1>0, <2>1 DEF MoveWrite, Forget, localVars
    <3>2. ASSUME pc[x] \in PlainMoves \ {"toAdopted", "toVerifying", "toCommitting"}
          PROVE  Move[pc[x]].then \notin Ending
      BY <3>2, PlainMovesAre DEF Move, Ending, Observed
    <3>3. pc[x] \in Ending /\ obs'[x] = obs[x]
      BY <3>1, <3>2 DEF Ending, Observed
    <3> QED BY <1>0, <2>0, <3>3 DEF Confirmed
  <2>2. CASE ~MoveWrite(x)
    <3>1. pc'[x] = pc[x] /\ obs'[x] = obs[x]
      BY <1>0, <1>1, <2>2 DEF MoveStep, MoveRead, MoveRefused, MoveLost, ReleaseWrite, FailWrite, FinalWrite,
         Release, Raise, Forget, Ending, Observed, localVars
    <3> QED BY <1>0, <2>0, <3>1 DEF Confirmed
  <2> QED BY <2>1, <2>2
<1>2. CASE JournalStep(x)
  <2>1. CASE ReadIntent(x)
    <3>1. UNCHANGED <<intent, receipt>> /\ pc[x] = "reconcile"
      BY <2>1 DEF ReadIntent, storeVars, intentVars
    <3>2. obs'[x] = receipt[wjob[x]][wtick[x]]
      BY <1>0, <2>1, <3>1 DEF ReadIntent, Goto, Ending, Observed, Unsettled
    <3> QED BY <3>1, <3>2
  <2>2. CASE CommitIntent(x)
    <3>1. pc[x] \in Ending /\ obs'[x] = obs[x]
      BY <1>0, <2>2 DEF CommitIntent, Goto, localVars, Ending, Observed
    <3>2. CASE intent[wjob[x]][wtick[x]] \in Unsettled
      BY <1>0, <2>2, <3>1, <3>2 DEF CommitIntent, Typed, TypeOK
    <3>3. CASE intent[wjob[x]][wtick[x]] \notin Unsettled
      BY <1>0, <2>2, <3>1, <3>3 DEF CommitIntent, Confirmed, intentVars
    <3> QED BY <3>2, <3>3
  <2>3. CASE ~ReadIntent(x) /\ ~CommitIntent(x)
    BY <1>0, <1>2, <2>3 DEF JournalStep, ReserveIntent, ReserveRefused, MarkUnconfirmed, SettleFailed,
       JournalRefused, Raise, Forget, Goto, Ending, Observed
  <2> QED BY <2>1, <2>2, <2>3
<1>3. CASE HandlerStep(x)
  <2>0. UNCHANGED <<intent, receipt>>
    BY <1>3 DEF HandlerStep, Precheck, ProbeAdopt, ProbeNoEffect, ProbeUnknown, DispatchEffect,
       DispatchNoEffect, Observe, Verify, OnCommit, storeVars, intentVars
  <2>1. CASE pc[x] \in {"probe", "observe"}
    BY <1>0, <2>0, <2>1 DEF Knows, JournalAt, Unsettled
  <2>2. CASE pc[x] \notin {"probe", "observe"}
    <3>1. pc[x] \in Ending /\ obs'[x] = obs[x]
      BY <1>0, <1>3, <2>2 DEF HandlerStep, Precheck, ProbeAdopt, ProbeNoEffect, ProbeUnknown, DispatchEffect,
         DispatchNoEffect, Observe, Verify, OnCommit, Goto, Ending, Observed, localVars
    <3> QED BY <1>0, <2>0, <3>1 DEF Confirmed
  <2> QED BY <2>1, <2>2
<1>4. CASE ClaimLost(x)
  BY <1>0, <1>4 DEF ClaimLost, Raise, Forget, Ending, Observed
<1> QED BY <1>1, <1>2, <1>3, <1>4 DEF TickStep

LEMMA NextConfirmed == IInv /\ Confirmed /\ [Next]_vars => Confirmed'
<1> SUFFICES ASSUME IInv, Confirmed, [Next]_vars, NEW x \in Workers, Current(x)', pc'[x] \in Ending,
                    intent'[wjob'[x]][wtick'[x]] = "COMMITTED"
             PROVE  obs'[x] = receipt'[wjob'[x]][wtick'[x]]
  BY DEF Confirmed
<1>0. Typed
  BY DEF IInv
<1>1. CASE TickStep(x)
  <2>1. ~ClaimCAS(x)
    BY <1>0 DEF ClaimCAS, Typed, TypeOK, Ending, Observed
  <2>2. wjob'[x] = wjob[x] /\ wtick'[x] = wtick[x]
    BY <1>1, <2>1, OwnStepCurrent
  <2> QED BY <1>1, <2>1, <2>2, ArrivesEnding
<1>2. CASE ~TickStep(x)
  <2>1. /\ Current(x) /\ pc'[x] = pc[x] /\ wjob'[x] = wjob[x] /\ wtick'[x] = wtick[x]
        /\ wjob[x] \in Jobs /\ wtick[x] \in Ticks /\ intent'[wjob[x]] = intent[wjob[x]]
    BY <1>2, OthersKeepRow DEF IInv, Current, Active, Typed, LocalOK
  <2>2. obs'[x] = obs[x]
    BY <1>0, <1>2, ObservationStays DEF Current
  <2>3. receipt'[wjob[x]][wtick[x]] = receipt[wjob[x]][wtick[x]]
    BY <1>0, <2>1, EntryStep DEF Unsettled
  <2> QED BY <2>1, <2>2, <2>3 DEF Confirmed
<1> QED BY <1>1, <1>2

\* A settled entry of the journal is never written again.
LEMMA SettledEntriesStay ==
    ASSUME Typed, [Next]_vars, NEW j \in Jobs, NEW t \in Ticks, intent[j][t] \in {"COMMITTED", "FAILED"}
    PROVE  intent'[j][t] = intent[j][t] /\ pre'[j][t] = pre[j][t] /\ receipt'[j][t] = receipt[j][t]
  BY EntryStep DEF Unsettled

\* A settled entry of the journal is final: neither a committed receipt nor a
\* definite failure is ever written over, by a late worker, a retry or a
\* recovery (commit_intent, settle_intent_failed, mark_intent_unconfirmed).
SettledIntentsFinal ==
    [][\A j \in Jobs, t \in Ticks : intent[j][t] \in {"COMMITTED", "FAILED"} =>
          intent'[j][t] = intent[j][t] /\ pre'[j][t] = pre[j][t] /\ receipt'[j][t] = receipt[j][t]]_vars

\* SettledIntentsFinal, of every behaviour.
THEOREM SettledCorrect == Spec => SettledIntentsFinal
<1>1. Typed /\ [Next]_vars =>
        [\A j \in Jobs, t \in Ticks : intent[j][t] \in {"COMMITTED", "FAILED"} =>
           intent'[j][t] = intent[j][t] /\ pre'[j][t] = pre[j][t] /\ receipt'[j][t] = receipt[j][t]]_vars
  BY SettledEntriesStay
<1> QED BY <1>1, InitTyped, NextTyped, PTL DEF Spec, SettledIntentsFinal

\* Who changes the approvals of a render job, and how: on_commit, behind the
\* fence, and a human.
LEMMA ApprovalSteps ==
    ASSUME IInv, [Next]_vars, NEW j \in RenderJobs, approval'[j] # approval[j]
    PROVE  \/ \E w \in Workers :
                 /\ pc[w] = "onCommit" /\ wjob[w] = j /\ Current(w) /\ state[j] \in InFlight
                 /\ approval'[j] = [v \in 1..MaxToken |->
                        IF v = obs[w] THEN "pending"
                        ELSE IF approval[j][v] = "pending" THEN "stale" ELSE approval[j][v]]
                 /\ pc' = [pc EXCEPT ![w] = "toFinal"] /\ UNCHANGED <<rowVars, intentVars, effects, localVars>>
           \/ /\ \E v \in 1..MaxToken : /\ approval[j][v] = "pending"
                                        /\ approval'[j] = [approval[j] EXCEPT ![v] = "decided"]
              /\ UNCHANGED <<rowVars, intentVars, effects, workVars>>
<1>0. Typed /\ j \in Jobs /\ j \in ApprovalJobs /\ approval \in [Jobs -> [1..MaxToken -> {"none", "pending", "decided", "stale"}]]
  BY KindAssumption DEF IInv, Typed, TypeOK
<1>1. ASSUME NEW w \in Workers, OnCommit(w)
      PROVE  /\ pc[w] = "onCommit" /\ wjob[w] = j /\ Current(w) /\ state[j] \in InFlight
             /\ approval'[j] = [v \in 1..MaxToken |->
                    IF v = obs[w] THEN "pending"
                    ELSE IF approval[j][v] = "pending" THEN "stale" ELSE approval[j][v]]
             /\ pc' = [pc EXCEPT ![w] = "toFinal"] /\ UNCHANGED <<rowVars, intentVars, effects, localVars>>
  <2>1. /\ pc[w] = "onCommit" /\ HandlerFence(w) /\ UNCHANGED <<rowVars, intentVars, effects>>
        /\ Goto(w, "toFinal")
        /\ approval' = approval \/ approval' = [approval EXCEPT ![wjob[w]] = [v \in 1..MaxToken |->
                 IF v = obs[w] THEN "pending"
                 ELSE IF @[v] = "pending" THEN "stale" ELSE @[v]]]
    BY <1>1 DEF OnCommit
  <2>2. wjob[w] = j
    BY <1>0, <2>1
  <2>3. Current(w) /\ state[j] \in InFlight
    BY <2>1, <2>2 DEF HandlerFence, ActiveFence, Current, Active
  <2> QED BY <1>0, <2>1, <2>2, <2>3 DEF Goto
<1>2. ASSUME NEW k \in Jobs, Decide(k)
      PROVE  /\ \E v \in 1..MaxToken : /\ approval[j][v] = "pending"
                                       /\ approval'[j] = [approval[j] EXCEPT ![v] = "decided"]
             /\ UNCHANGED <<rowVars, intentVars, effects, workVars>>
  <2>1. PICK v \in 1..MaxToken : approval[k][v] = "pending" /\ approval' = [approval EXCEPT ![k][v] = "decided"]
    BY <1>2 DEF Decide
  <2>2. k = j
    BY <1>0, <2>1
  <2> QED BY <1>0, <1>2, <2>1, <2>2 DEF Decide
<1>3. ASSUME NEW w \in Workers, WorkerNext(w), ~OnCommit(w) PROVE UNCHANGED approval
  BY <1>3 DEF WorkerNext, TickStep, MoveStep, HandlerStep, JournalStep, ClaimRead, ClaimCAS, ClaimLost, Crash,
     RenewLease, MoveRead, MoveRefused, MoveLost, MoveWrite, ReleaseWrite, FailWrite, FinalWrite, Release, Raise,
     Precheck, ProbeAdopt, ProbeNoEffect, ProbeUnknown, DispatchEffect, DispatchNoEffect, Observe, Verify,
     ReserveIntent, ReserveRefused, ReadIntent, MarkUnconfirmed, SettleFailed, CommitIntent, JournalRefused,
     storeVars, artVars
<1>4. ASSUME NEW k \in Jobs, JobNext(k), ~Decide(k) PROVE UNCHANGED approval
  BY <1>4 DEF JobNext, LeaseExpires, OperatorMove, CancelStop, SettleApproval, artVars
<1> QED BY <1>1, <1>2, <1>3, <1>4 DEF Next, vars, storeVars, artVars

\* Every approval of a render job is bound to a candidate that was committed.
ApprovalsOfReceipts ==
    \A j \in RenderJobs : \A v \in 1..MaxToken : approval[j][v] # "none" =>
        \E t \in Ticks : intent[j][t] = "COMMITTED" /\ receipt[j][t] = v

LEMMA NextApproved == IInv /\ Confirmed /\ ApprovalsOfReceipts /\ [Next]_vars => ApprovalsOfReceipts'
<1> SUFFICES ASSUME IInv, Confirmed, ApprovalsOfReceipts, [Next]_vars,
                    NEW j \in RenderJobs, NEW v \in 1..MaxToken, approval'[j][v] # "none"
             PROVE  \E t \in Ticks : intent'[j][t] = "COMMITTED" /\ receipt'[j][t] = v
  BY DEF ApprovalsOfReceipts
<1>0. Typed /\ j \in Jobs /\ approval[j] \in [1..MaxToken -> {"none", "pending", "decided", "stale"}]
  BY KindAssumption DEF IInv, Typed, TypeOK
<1>1. ASSUME NEW t \in Ticks, intent[j][t] = "COMMITTED", receipt[j][t] = v
      PROVE  \E s \in Ticks : intent'[j][s] = "COMMITTED" /\ receipt'[j][s] = v
  BY <1>0, <1>1, SettledEntriesStay
<1>2. ASSUME NEW w \in Workers, pc[w] = "onCommit", wjob[w] = j, Current(w), obs[w] = v
      PROVE  \E t \in Ticks : intent[j][t] = "COMMITTED" /\ receipt[j][t] = v
  <2>1. Knows(w) /\ wtick[w] \in Ticks
    BY <1>0, <1>2, HoldersKnow DEF IInv, Current, Active, Typed, LocalOK
  <2>2. intent[j][wtick[w]] = "COMMITTED"
    BY <1>2, <2>1 DEF Knows, JournalAt
  <2> QED BY <1>2, <2>1, <2>2 DEF Confirmed, Ending
<1>3. approval[j][v] # "none" \/ \E w \in Workers : pc[w] = "onCommit" /\ wjob[w] = j /\ Current(w) /\ obs[w] = v
  <2>1. CASE approval'[j] = approval[j]
    BY <2>1
  <2>2. ASSUME NEW w \in Workers, pc[w] = "onCommit", wjob[w] = j, Current(w),
               approval'[j] = [u \in 1..MaxToken |->
                        IF u = obs[w] THEN "pending"
                        ELSE IF approval[j][u] = "pending" THEN "stale" ELSE approval[j][u]]
        PROVE  approval[j][v] # "none" \/ obs[w] = v
    BY <2>2
  <2>3. ASSUME NEW u \in 1..MaxToken, approval[j][u] = "pending", approval'[j] = [approval[j] EXCEPT ![u] = "decided"]
        PROVE  approval[j][v] # "none"
    BY <1>0, <2>3
  <2> QED BY <2>1, <2>2, <2>3, ApprovalSteps
<1>4. ASSUME approval[j][v] # "none" PROVE \E t \in Ticks : intent[j][t] = "COMMITTED" /\ receipt[j][t] = v
  BY <1>4 DEF ApprovalsOfReceipts
<1> QED BY <1>1, <1>2, <1>3, <1>4

\* rendering/service.py binds an approval to the candidate it registers: no
\* approval of a render job, pending, decided or stale, names a candidate that
\* no tick of the job has committed.
THEOREM ApprovalCorrect == Spec => []ApprovalsOfReceipts
<1>1. Init => Confirmed /\ ApprovalsOfReceipts
  <2> SUFFICES ASSUME Init PROVE Confirmed /\ ApprovalsOfReceipts
    OBVIOUS
  <2>1. \A x \in Workers : ~Current(x)
    BY DEF Init, Current, Active
  <2>2. \A j \in RenderJobs : \A v \in 1..MaxToken : approval[j][v] = "none"
    BY KindAssumption DEF Init
  <2> QED BY <2>1, <2>2 DEF Confirmed, ApprovalsOfReceipts
<1> QED BY <1>1, InitIInv, NextIInv, NextConfirmed, NextApproved, PTL DEF Spec

\* From the claim to the render.
BeforeRender == {"toPrecheck", "precheck", "toReady", "reserve", "toReconciling", "reconcile", "probe",
                 "toReadyFresh", "reserveFresh", "toReadyRedo", "toRunning", "dispatch"}

\* Every candidate took a lease of its own: the holder that has not rendered
\* yet still has room for its candidate.
RoomToRender ==
    /\ \A x \in Workers : pc[x] = "claiming" /\ fresh[x] => token[wjob[x]] < MaxToken
    /\ \A j \in RenderJobs : /\ HeadVersion(j) <= token[j]
                             /\ state[j] # "STOPPED" => token[j] <= MaxToken
    /\ \A x \in Workers : Current(x) /\ wjob[x] \in RenderJobs /\ pc[x] \in BeforeRender =>
           HeadVersion(wjob[x]) < token[wjob[x]]

\* Nobody goes back: a step of the holder that leaves it before the render
\* finds it there, and renders nothing.
LEMMA StaysBeforeRender ==
    ASSUME IInv, NEW x \in Workers, TickStep(x), ~ClaimCAS(x), Current(x)', pc'[x] \in BeforeRender
    PROVE  pc[x] \in BeforeRender /\ UNCHANGED effects
<1>0. /\ Current(x) /\ Knows(x) /\ wjob[x] \in Jobs /\ wtick[x] \in Ticks /\ Typed
      /\ pc \in [Workers -> PCs]
  BY OwnStepCurrent DEF IInv, Typed, TypeOK
<1>1. CASE MoveStep(x)
  <2>0. UNCHANGED effects
    BY <1>1 DEF MoveStep, MoveRead, MoveRefused, MoveLost, MoveWrite, ReleaseWrite, FailWrite, FinalWrite,
       Release, Raise, storeVars, artVars
  <2>1. CASE MoveWrite(x)
    <3>1. pc[x] \in PlainMoves /\ (pc'[x] = "idle" \/ pc'[x] = Move[pc[x]].then)
      BY <1>0, <2>1 DEF MoveWrite, Forget
    <3>2. ASSUME pc[x] \in PlainMoves \ BeforeRender PROVE Move[pc[x]].then \notin BeforeRender
      BY <3>2, PlainMovesAre DEF Move, BeforeRender
    <3> QED BY <2>0, <3>1, <3>2 DEF BeforeRender
  <2>2. CASE ~MoveWrite(x)
    <3>1. pc'[x] = pc[x]
      BY <1>0, <1>1, <2>2 DEF MoveStep, MoveRead, MoveRefused, MoveLost, ReleaseWrite, FailWrite, FinalWrite,
         Release, Raise, Forget, BeforeRender
    <3> QED BY <2>0, <3>1
  <2> QED BY <2>1, <2>2
<1>2. CASE JournalStep(x)
  <2>0. UNCHANGED effects
    BY <1>2 DEF JournalStep, ReserveIntent, ReserveRefused, ReadIntent, MarkUnconfirmed, SettleFailed,
       CommitIntent, JournalRefused, Raise, storeVars, artVars
  <2> QED
    BY <1>0, <1>2, <2>0 DEF JournalStep, ReserveIntent, ReserveRefused, ReadIntent, MarkUnconfirmed, SettleFailed,
       CommitIntent, JournalRefused, Raise, Forget, Goto, BeforeRender
<1>3. CASE HandlerStep(x)
  <2>1. Precheck(x) \/ ProbeNoEffect(x)
    BY <1>0, <1>3 DEF HandlerStep, Precheck, ProbeAdopt, ProbeNoEffect, ProbeUnknown, DispatchEffect,
       DispatchNoEffect, Observe, Verify, OnCommit, Goto, BeforeRender
  <2> QED BY <2>1 DEF Precheck, ProbeNoEffect, BeforeRender, storeVars, artVars
<1>4. CASE ClaimLost(x)
  BY <1>0, <1>4 DEF ClaimLost, Raise, Forget, BeforeRender
<1> QED BY <1>1, <1>2, <1>3, <1>4 DEF TickStep

\* Where a handler step takes its worker, which stays with its job.
LEMMA HandlerGoes ==
    ASSUME pc \in [Workers -> PCs], NEW w \in Workers, HandlerStep(w)
    PROVE  /\ UNCHANGED <<token, wjob, fresh>> /\ pc'[w] # "claiming"
           /\ \A y \in Workers \ {w} : pc'[y] = pc[y]
<1> USE DEF storeVars, rowVars, localVars
<1>1. CASE Precheck(w)
  BY <1>1 DEF Precheck, Goto
<1>2. CASE ProbeAdopt(w)
  BY <1>2 DEF ProbeAdopt, Goto
<1>3. CASE ProbeNoEffect(w)
  BY <1>3 DEF ProbeNoEffect, Goto
<1>4. CASE ProbeUnknown(w)
  BY <1>4 DEF ProbeUnknown, Goto
<1>5. CASE DispatchEffect(w)
  BY <1>5 DEF DispatchEffect, Goto
<1>6. CASE DispatchNoEffect(w)
  BY <1>6 DEF DispatchNoEffect, Goto
<1>7. CASE Observe(w)
  BY <1>7 DEF Observe, Goto
<1>8. CASE Verify(w)
  BY <1>8 DEF Verify, Goto
<1>9. CASE OnCommit(w)
  BY <1>9 DEF OnCommit, Goto
<1> QED BY <1>1, <1>2, <1>3, <1>4, <1>5, <1>6, <1>7, <1>8, <1>9 DEF HandlerStep

\* A claim that can still win has seen every lease of its job.
LEMMA FreshClaims ==
    ASSUME Typed, [Next]_vars, NEW x \in Workers, pc'[x] = "claiming", fresh'[x]
    PROVE  /\ wjob'[x] \in Jobs
           /\ \/ pc[x] = "claiming" /\ fresh[x] /\ wjob'[x] = wjob[x] /\ token'[wjob[x]] = token[wjob[x]]
              \/ UNCHANGED token /\ token[wjob'[x]] < MaxToken
<1> USE DEF Typed, TypeOK
<1>1. ASSUME NEW w \in Workers, NEW k \in Jobs, ClaimRead(w, k)
      PROVE  /\ wjob'[x] \in Jobs
             /\ \/ pc[x] = "claiming" /\ fresh[x] /\ wjob'[x] = wjob[x] /\ token'[wjob[x]] = token[wjob[x]]
                \/ UNCHANGED token /\ token[wjob'[x]] < MaxToken
  BY <1>1 DEF ClaimRead, LocalOK, storeVars, rowVars
<1> DEFINE Kept == /\ pc[x] = "claiming" /\ fresh[x] /\ wjob[x] \in Jobs
                   /\ wjob'[x] = wjob[x] /\ token'[wjob[x]] = token[wjob[x]]
<1>2. ASSUME NEW w \in Workers, ClaimCAS(w) PROVE Kept
  BY <1>2 DEF ClaimCAS, Touch, LocalOK
<1>3. ASSUME NEW k \in Jobs, CancelStop(k) PROVE Kept
  BY <1>3 DEF CancelStop, Touch, LocalOK, localVars
<1>4. ASSUME NEW k \in Jobs, JobNext(k), ~CancelStop(k) PROVE Kept
  <2>1. UNCHANGED <<token, pc, wjob>> /\ (UNCHANGED fresh \/ Touch(k))
    BY <1>4 DEF JobNext, LeaseExpires, OperatorMove, Decide, SettleApproval, rowVars, workVars, localVars
  <2> QED BY <2>1 DEF Touch, LocalOK
<1>5. ASSUME NEW w \in Workers, ClaimLost(w) \/ Crash(w) PROVE Kept
  BY <1>5 DEF ClaimLost, Crash, Raise, Forget, LocalOK, storeVars, rowVars
<1>6. ASSUME NEW w \in Workers, RenewLease(w) PROVE Kept
  BY <1>6 DEF RenewLease, Touch, LocalOK, localVars
<1>7. ASSUME NEW w \in Workers, MoveStep(w) PROVE Kept
  <2>1. CASE MoveWrite(w)
    <3>1. UNCHANGED token /\ Touch(wjob[w]) /\ pc[w] \in PlainMoves
      BY <2>1 DEF MoveWrite
    <3>2. w # x
      <4>1. pc[w] \in PlainMoves => Move[pc[w]].then # "claiming"
        BY PlainMovesAre DEF Move
      <4> QED BY <2>1, <4>1 DEF MoveWrite, Forget
    <3>3. pc'[x] = pc[x] /\ wjob'[x] = wjob[x]
      BY <2>1, <3>2 DEF MoveWrite, Forget, localVars
    <3> QED BY <3>1, <3>3 DEF Touch, LocalOK
  <2>2. CASE ~MoveWrite(w)
    BY <1>7, <2>2 DEF MoveStep, MoveRead, MoveRefused, MoveLost, ReleaseWrite, FailWrite, FinalWrite, Release,
       Raise, Forget, Touch, LocalOK, storeVars, rowVars, localVars, Releases
  <2> QED BY <2>1, <2>2
<1>8. ASSUME NEW w \in Workers, JournalStep(w) PROVE Kept
  BY <1>8 DEF JournalStep, ReserveIntent, ReserveRefused, ReadIntent, MarkUnconfirmed, SettleFailed,
     CommitIntent, JournalRefused, Raise, Forget, Goto, LocalOK, storeVars, rowVars, localVars
<1>9. ASSUME NEW w \in Workers, HandlerStep(w) PROVE Kept
  <2>1. /\ UNCHANGED <<token, wjob, fresh>> /\ pc'[w] # "claiming"
        /\ \A y \in Workers \ {w} : pc'[y] = pc[y]
    BY <1>9, HandlerGoes
  <2> QED BY <2>1 DEF LocalOK
<1>10. CASE UNCHANGED vars
  BY <1>10 DEF vars, storeVars, rowVars, workVars, localVars, LocalOK
<1> QED BY <1>1, <1>2, <1>3, <1>4, <1>5, <1>6, <1>7, <1>8, <1>9, <1>10 DEF Next, WorkerNext, TickStep

\* Tokens only grow, and which step gives a job a new one.
LEMMA TokensGrow ==
    ASSUME Typed, [Next]_vars, NEW j \in Jobs
    PROVE  /\ token[j] \in Nat /\ token'[j] \in Nat /\ token'[j] >= token[j]
           /\ \/ token'[j] = token[j]
              \/ \E w \in Workers : ClaimCAS(w) /\ wjob[w] = j /\ token'[j] = token[j] + 1
              \/ CancelStop(j) /\ state'[j] = "STOPPED"
<1>0. token \in [Jobs -> Nat] /\ state \in [Jobs -> RunState]
  BY DEF Typed, TypeOK
<1>1. ASSUME NEW w \in Workers, ClaimCAS(w)
      PROVE  token'[j] = token[j] \/ (wjob[w] = j /\ token'[j] = token[j] + 1)
  BY <1>0, <1>1 DEF ClaimCAS
<1>2. ASSUME NEW k \in Jobs, CancelStop(k)
      PROVE  token'[j] = token[j] \/ (k = j /\ token'[j] = token[j] + 1 /\ state'[j] = "STOPPED")
  BY <1>0, <1>2 DEF CancelStop
<1> QED BY <1>0, <1>1, <1>2, TokensPersist

\* No step takes a job out of STOPPED.
LEMMA StoppedStays ==
    ASSUME IInv, [Next]_vars, NEW j \in Jobs, state[j] = "STOPPED"
    PROVE  state'[j] = "STOPPED"
<1>0. state \in [Jobs -> RunState] /\ Edges(state[j]) = {}
  BY DEF IInv, Typed, TypeOK, Edges, DeclaredEdges, InFlight, Blocked
<1>1. ASSUME NEW k \in Jobs, RowWrite(k) PROVE state'[j] = state[j]
  <2>1. k # j
    BY <1>0, <1>1 DEF RowWrite
  <2>2. \E s : state' = [state EXCEPT ![k] = s]
    BY <1>1 DEF RowWrite
  <2> QED BY <1>0, <2>1, <2>2
<1> QED BY <1>1, RowWrites

LEMMA NextRoom == IInv /\ RoomToRender /\ [Next]_vars => RoomToRender'
<1> SUFFICES ASSUME IInv, RoomToRender, [Next]_vars PROVE RoomToRender'
  OBVIOUS
<1>0. Typed /\ RenderJobs \subseteq Jobs /\ MaxToken \in Nat
  BY KindAssumption, BoundAssumption DEF IInv
<1>1. ASSUME NEW x \in Workers, pc'[x] = "claiming", fresh'[x] PROVE token'[wjob'[x]] < MaxToken
  BY <1>0, <1>1, FreshClaims DEF RoomToRender
<1>2. ASSUME NEW j \in RenderJobs PROVE HeadVersion(j)' <= token'[j]
  <2>0. j \in Jobs /\ token[j] \in Nat /\ token'[j] \in Nat /\ token'[j] >= token[j] /\ HeadVersion(j) <= token[j]
        /\ effects[j] \in Seq(Ticks)
    BY <1>0, TokensGrow DEF RoomToRender, Typed, TypeOK
  <2>1. CASE effects'[j] = effects[j]
    BY <2>0, <2>1 DEF HeadVersion
  <2>2. ASSUME NEW w \in Workers, DispatchEffect(w), wjob[w] = j PROVE HeadVersion(j)' <= token'[j]
    <3>1. effects'[j] = Append(effects[j], wtick[w]) /\ wtick[w] \in Ticks /\ Active(w)
      BY <1>0, <2>2, Dispatched
    <3>2. Current(w) /\ pc[w] \in BeforeRender
      BY <2>2, <3>1 DEF DispatchEffect, HandlerFence, ActiveFence, Current, BeforeRender
    <3>3. HeadVersion(j) < token[j]
      BY <2>2, <3>2 DEF RoomToRender
    <3>4. HeadVersion(j)' = HeadVersion(j) + 1 /\ HeadVersion(j) \in Nat
      BY <2>0, <3>1 DEF HeadVersion
    <3> QED BY <2>0, <3>3, <3>4
  <2>3. effects'[j] = effects[j] \/ \E w \in Workers : DispatchEffect(w) /\ wjob[w] = j
    BY <1>0, <2>0, EffectSteps, Dispatched
  <2> QED BY <2>1, <2>2, <2>3
<1>3. ASSUME NEW j \in RenderJobs, state'[j] # "STOPPED" PROVE token'[j] <= MaxToken
  <2>1. j \in Jobs /\ state[j] # "STOPPED"
    BY <1>0, <1>3, StoppedStays
  <2>2. token[j] <= MaxToken
    BY <1>3, <2>1 DEF RoomToRender
  <2>3. ASSUME NEW w \in Workers, ClaimCAS(w), wjob[w] = j PROVE token[j] < MaxToken
    BY <2>3 DEF RoomToRender, ClaimCAS
  <2> QED BY <1>0, <1>3, <2>1, <2>2, <2>3, TokensGrow
<1>4. ASSUME NEW x \in Workers, Current(x)', wjob'[x] \in RenderJobs, pc'[x] \in BeforeRender
      PROVE  (HeadVersion(wjob[x]) < token[wjob[x]])'
  <2>0. \A j \in RenderJobs : /\ token[j] \in Nat /\ token'[j] \in Nat /\ token'[j] >= token[j]
                              /\ HeadVersion(j) \in Nat /\ HeadVersion(j) <= token[j]
    BY <1>0, TokensGrow, EffectsGrow DEF RoomToRender
  <2>1. CASE ClaimCAS(x)
    <3>1. wjob'[x] = wjob[x] /\ UNCHANGED effects
      BY <2>1 DEF ClaimCAS, artVars
    <3>2. token'[wjob[x]] = token[wjob[x]] + 1
      BY <1>0, <1>4, <2>1, <3>1 DEF ClaimCAS, Typed, TypeOK
    <3> QED BY <1>4, <2>0, <3>1, <3>2 DEF HeadVersion
  <2>2. CASE TickStep(x) /\ ~ClaimCAS(x)
    <3>1. Current(x) /\ wjob'[x] = wjob[x]
      BY <1>4, <2>2, OwnStepCurrent
    <3>2. pc[x] \in BeforeRender /\ UNCHANGED effects
      BY <1>4, <2>2, StaysBeforeRender
    <3>3. HeadVersion(wjob[x]) < token[wjob[x]]
      BY <1>4, <3>1, <3>2 DEF RoomToRender
    <3> QED BY <1>4, <2>0, <3>1, <3>2, <3>3 DEF HeadVersion
  <2>3. CASE ~TickStep(x)
    <3>1. Current(x) /\ pc'[x] = pc[x] /\ wjob'[x] = wjob[x]
      BY <1>4, <2>3, OthersKeepRow DEF IInv
    <3>2. effects'[wjob[x]] = effects[wjob[x]]
      BY <1>4, <2>3, <3>1, OthersKeepCandidates
    <3>3. HeadVersion(wjob[x]) < token[wjob[x]]
      BY <1>4, <3>1 DEF RoomToRender
    <3> QED BY <1>4, <2>0, <3>1, <3>2, <3>3 DEF HeadVersion
  <2> QED BY <2>1, <2>2, <2>3 DEF TickStep
<1> QED BY <1>1, <1>2, <1>3, <1>4 DEF RoomToRender

\* An approval of version v was asked for and is not stale.
Opened(j, v) == v \in 1..MaxToken /\ approval[j][v] \in {"pending", "decided"}

\* The holder of the lease of a render job ends its tick on an approval of
\* what it committed, and the job waits for that one.
Asked ==
    /\ \A x \in Workers :
          Current(x) /\ wjob[x] \in RenderJobs /\ pc[x] = "toFinal" => Opened(wjob[x], obs[x])
    /\ \A j \in RenderJobs : state[j] = "WAITING_APPROVAL" =>
          tick[j] \in Ticks /\ Opened(j, receipt[j][tick[j]])

\* What the holder committed can be asked an approval for.
LEMMA CommittedInRange ==
    ASSUME IInv, ReceiptsAdvance, Confirmed, RoomToRender, NEW x \in Workers,
           Current(x), wjob[x] \in RenderJobs, pc[x] = "onCommit"
    PROVE  obs[x] \in 1..MaxToken
<1>1. /\ wjob[x] \in Jobs /\ wtick[x] \in Ticks /\ Knows(x)
      /\ effects[wjob[x]] \in Seq(Ticks) /\ token[wjob[x]] \in Nat
  BY HoldersKnow, KindAssumption DEF IInv, Typed, TypeOK, LocalOK, Current, Active
<1>2. intent[wjob[x]][wtick[x]] = "COMMITTED" /\ state[wjob[x]] # "STOPPED"
  BY <1>1 DEF Knows, JournalAt, ExpectedAt, InFlight
<1>3. obs[x] \in DOMAIN effects[wjob[x]]
  BY <1>1, <1>2 DEF Confirmed, Ending, ReceiptsAdvance
<1>4. HeadVersion(wjob[x]) <= token[wjob[x]] /\ token[wjob[x]] <= MaxToken
  BY <1>2 DEF RoomToRender
<1> QED BY <1>1, <1>3, <1>4, BoundAssumption DEF HeadVersion

\* An open approval is made stale by the holder of the lease only, in on_commit.
LEMMA OpenedStays ==
    ASSUME IInv, [Next]_vars, NEW j \in RenderJobs, NEW v, Opened(j, v)
    PROVE  \/ v \in 1..MaxToken /\ approval'[j][v] \in {"pending", "decided"}
           \/ \E w \in Workers : pc[w] = "onCommit" /\ wjob[w] = j /\ Current(w) /\ state[j] \in InFlight
<1>0. approval[j] \in [1..MaxToken -> {"none", "pending", "decided", "stale"}] /\ v \in 1..MaxToken
  BY KindAssumption DEF IInv, Typed, TypeOK, Opened
<1>1. ASSUME NEW u \in 1..MaxToken, approval'[j] = [approval[j] EXCEPT ![u] = "decided"]
      PROVE  approval'[j][v] \in {"pending", "decided"}
  BY <1>0, <1>1 DEF Opened
<1> QED BY <1>0, <1>1, ApprovalSteps DEF Opened

\* Only the end of a committed tick leaves a job waiting for its approval.
LEMMA WaitingSteps ==
    ASSUME IInv, [Next]_vars, NEW j \in Jobs, state'[j] = "WAITING_APPROVAL"
    PROVE  \/ state[j] = "WAITING_APPROVAL" /\ tick'[j] = tick[j]
           \/ \E w \in Workers : FinalWrite(w) /\ wjob[w] = j
<1>0. Typed /\ state \in [Jobs -> RunState] /\ tick \in [Jobs -> Nat]
  BY DEF IInv, Typed, TypeOK
<1>1. ASSUME NEW w \in Workers, FinalWrite(w), wjob[w] # j
      PROVE  state'[j] = state[j] /\ tick'[j] = tick[j]
  <2>1. /\ state' = [state EXCEPT ![wjob[w]] = FinalState(wjob[w])]
        /\ tick' = [tick EXCEPT ![wjob[w]] = wtick[w]]
    BY <1>1 DEF FinalWrite
  <2> QED BY <1>0, <1>1, <2>1
<1>2. ASSUME NEW w \in Workers, MoveWrite(w) PROVE state'[j] = state[j]
  <2>1. PICK to \in Move[pc[w]].to : state' = [state EXCEPT ![wjob[w]] = to]
    BY <1>2 DEF MoveWrite
  <2>2. to # "WAITING_APPROVAL"
    BY <1>2, PlainMovesAre DEF MoveWrite, Move
  <2> QED BY <1>0, <2>1, <2>2
<1>3. ASSUME NEW w \in Workers, ReleaseWrite(w) PROVE state'[j] = state[j]
  <2>1. PICK to \in Targets(w) : state' = [state EXCEPT ![wjob[w]] = to]
    BY <1>3 DEF ReleaseWrite
  <2>2. to # "WAITING_APPROVAL"
    BY <1>3, <2>1, PlainMovesAre DEF ReleaseWrite, Targets, Blocked
  <2> QED BY <1>0, <2>1, <2>2
<1>4. ASSUME NEW w \in Workers, FailWrite(w) PROVE state'[j] = state[j]
  <2>1. \E to \in {"RETRY_PENDING", "DEAD_LETTER"} : state' = [state EXCEPT ![wjob[w]] = to]
    BY <1>4 DEF FailWrite
  <2> QED BY <1>0, <2>1
<1>5. ASSUME NEW w \in Workers, ClaimCAS(w) PROVE state'[j] = state[j]
  <2>1. \E to \in {"LEASED", "RECONCILING"} : state' = [state EXCEPT ![wjob[w]] = to]
    BY <1>5 DEF ClaimCAS
  <2> QED BY <1>0, <2>1
<1>6. ASSUME NEW k \in Jobs, JobNext(k) PROVE state'[j] = state[j]
  <2>1. state' = state \/ \E to \in {"PAUSED", "SCHEDULED", "STOPPED", "DORMANT"} : state' = [state EXCEPT ![k] = to]
    BY <1>6 DEF JobNext, LeaseExpires, OperatorMove, OperatorTargets, CancelStop, Decide, SettleApproval,
       SettledStates, rowVars
  <2> QED BY <1>0, <2>1
<1>7. ASSUME NEW w \in Workers, WorkerNext(w), ~FailWrite(w), ~FinalWrite(w), ~MoveWrite(w), ~ReleaseWrite(w), ~ClaimCAS(w)
      PROVE  UNCHANGED state
  BY <1>7 DEF WorkerNext, TickStep, MoveStep, HandlerStep, JournalStep, ClaimRead, ClaimLost, Crash,
     RenewLease, MoveRead, MoveRefused, MoveLost, Raise, Precheck, ProbeAdopt,
     ProbeNoEffect, ProbeUnknown, DispatchEffect, DispatchNoEffect, Observe, Verify, OnCommit, ReserveIntent,
     ReserveRefused, ReadIntent, MarkUnconfirmed, SettleFailed, CommitIntent, JournalRefused, storeVars, rowVars
<1>8. state'[j] = state[j] \/ \E w \in Workers : FinalWrite(w) /\ wjob[w] = j
  BY <1>1, <1>2, <1>3, <1>4, <1>5, <1>6, <1>7 DEF Next, vars, storeVars, rowVars
<1>9. ASSUME state[j] = "WAITING_APPROVAL" PROVE tick'[j] = tick[j]
  <2>1. ASSUME NEW k \in Jobs, RowWrite(k) PROVE tick'[j] = tick[j]
    BY <1>0, <1>9, <2>1 DEF RowWrite
  <2> QED BY <2>1, RowWrites
<1> QED BY <1>8, <1>9

LEMMA NextAsked ==
    IInv /\ CountedTicksCommitted /\ ReceiptsAdvance /\ Confirmed /\ RoomToRender /\ Asked /\ [Next]_vars => Asked'
<1> SUFFICES ASSUME IInv, CountedTicksCommitted, ReceiptsAdvance, Confirmed, RoomToRender, Asked, [Next]_vars
             PROVE  Asked'
  OBVIOUS
<1>0. Typed /\ RenderJobs \subseteq Jobs
  BY KindAssumption DEF IInv
<1>1. ASSUME NEW x \in Workers, Current(x)', wjob'[x] \in RenderJobs, pc'[x] = "toFinal"
      PROVE  obs'[x] \in 1..MaxToken /\ approval'[wjob'[x]][obs'[x]] \in {"pending", "decided"}
  <2>1. CASE ~TickStep(x)
    <3>1. Current(x) /\ pc[x] = "toFinal" /\ wjob'[x] = wjob[x]
      BY <1>1, <2>1, OthersKeepRow DEF IInv
    <3>2. obs'[x] = obs[x]
      BY <1>0, <1>1, <2>1, ObservationStays DEF Current
    <3>3. ~\E w \in Workers : pc[w] = "onCommit" /\ wjob[w] = wjob[x] /\ Current(w)
      BY <3>1, FencedApart DEF Current, IInv
    <3>4. \A j \in RenderJobs, v \in 1..MaxToken :
             j = wjob[x] /\ v = obs[x] => approval'[j][v] \in {"pending", "decided"}
      BY <1>1, <3>1, <3>3, OpenedStays DEF Asked
    <3> QED BY <1>1, <3>1, <3>2, <3>4 DEF Asked, Opened
  <2>2. CASE TickStep(x)
    <3>1. ~ClaimCAS(x)
      BY <1>0, <1>1 DEF ClaimCAS, Typed, TypeOK
    <3>2. Current(x) /\ wjob'[x] = wjob[x] /\ wjob[x] \in Jobs
      BY <1>1, <2>2, <3>1, OwnStepCurrent
    <3>3. OnCommit(x) \/ MoveRead(x)
      <4>1. pc[x] \in PlainMoves => Move[pc[x]].then # "toFinal"
        BY PlainMovesAre DEF Move
      <4>0. pc \in [Workers -> PCs] /\ pc'[x] = "toFinal"
        BY <1>0, <1>1 DEF Typed, TypeOK
      <4>2. CASE MoveStep(x) /\ ~MoveRead(x)
        BY <4>0, <4>1, <4>2 DEF MoveStep, MoveRefused, MoveLost, MoveWrite, ReleaseWrite, FailWrite, FinalWrite, Release,
           Raise, Forget
      <4>3. CASE JournalStep(x)
        BY <4>0, <4>3 DEF JournalStep, ReserveIntent, ReserveRefused, ReadIntent, MarkUnconfirmed, SettleFailed,
           CommitIntent, JournalRefused, Raise, Forget, Goto
      <4>4. CASE HandlerStep(x) /\ ~OnCommit(x)
        BY <4>0, <4>4 DEF HandlerStep, Precheck, ProbeAdopt, ProbeNoEffect, ProbeUnknown, DispatchEffect,
           DispatchNoEffect, Observe, Verify, Goto
      <4>5. CASE ClaimLost(x)
        BY <4>0, <4>5 DEF ClaimLost, Raise, Forget
      <4> QED BY <2>2, <3>1, <4>2, <4>3, <4>4, <4>5 DEF TickStep
    <3>4. CASE MoveRead(x)
      <4>1. pc[x] = "toFinal" /\ obs'[x] = obs[x] /\ UNCHANGED approval
        BY <1>1, <3>4 DEF MoveRead, localVars, storeVars, artVars
      <4> QED BY <1>1, <3>2, <4>1 DEF Asked, Opened
    <3>5. CASE OnCommit(x)
      <4>1. pc[x] = "onCommit" /\ obs'[x] = obs[x] /\ wjob[x] \in ApprovalJobs
        BY <1>1, <3>2, <3>5, KindAssumption DEF OnCommit, Goto, localVars
      <4>2. obs[x] \in 1..MaxToken
        BY <1>1, <3>2, <4>1, CommittedInRange
      <4>3. approval'[wjob[x]][obs[x]] = "pending"
        BY <1>0, <3>2, <3>5, <4>1, <4>2 DEF OnCommit, Typed, TypeOK
      <4> QED BY <3>2, <4>1, <4>2, <4>3
    <3> QED BY <3>3, <3>4, <3>5
  <2> QED BY <2>1, <2>2
<1>2. ASSUME NEW j \in RenderJobs, state'[j] = "WAITING_APPROVAL"
      PROVE  tick'[j] \in Ticks /\ receipt'[j][tick'[j]] \in 1..MaxToken
             /\ approval'[j][receipt'[j][tick'[j]]] \in {"pending", "decided"}
  <2>1. CASE state[j] = "WAITING_APPROVAL" /\ tick'[j] = tick[j]
    <3>1. tick[j] \in Ticks /\ Opened(j, receipt[j][tick[j]]) /\ j \in Jobs /\ tick[j] \in Nat
      BY <1>0, <2>1 DEF Asked, Typed, TypeOK
    <3>2. intent[j][tick[j]] = "COMMITTED"
      BY <3>1 DEF CountedTicksCommitted
    <3>3. receipt'[j][tick[j]] = receipt[j][tick[j]]
      BY <1>0, <3>1, <3>2, SettledEntriesStay
    <3>4. state[j] \notin InFlight
      BY <2>1 DEF InFlight
    <3>5. \A v : v = receipt[j][tick[j]] => v \in 1..MaxToken /\ approval'[j][v] \in {"pending", "decided"}
      BY <3>1, <3>4, OpenedStays
    <3> QED BY <2>1, <3>1, <3>3, <3>5
  <2>2. ASSUME NEW w \in Workers, FinalWrite(w), wjob[w] = j
        PROVE  tick'[j] \in Ticks /\ receipt'[j][tick'[j]] \in 1..MaxToken
               /\ approval'[j][receipt'[j][tick'[j]]] \in {"pending", "decided"}
    <3>1. pc[w] = "toFinal" /\ FenceHolds(w) /\ UNCHANGED <<receipt, approval>>
      BY <2>2 DEF FinalWrite, Release, intentVars, artVars
    <3>2. Current(w) /\ j \in Jobs /\ wtick[w] \in Ticks /\ Knows(w)
      BY <1>0, <2>2, <3>1, MoveIsLegal, HoldersKnow DEF Releases, IInv, Typed, LocalOK, Current, Active
    <3>3. tick'[j] = wtick[w]
      BY <1>0, <2>2, <3>2 DEF FinalWrite, Typed, TypeOK
    <3>4. intent[j][wtick[w]] = "COMMITTED"
      BY <2>2, <3>1, <3>2 DEF Knows, JournalAt
    <3>5. obs[w] = receipt[j][wtick[w]]
      BY <2>2, <3>1, <3>2, <3>4 DEF Confirmed, Ending
    <3>6. Opened(j, obs[w])
      BY <2>2, <3>1, <3>2 DEF Asked
    <3> QED BY <3>1, <3>2, <3>3, <3>5, <3>6 DEF Opened
  <2> QED BY <1>0, <1>2, <2>1, <2>2, WaitingSteps
<1> QED BY <1>1, <1>2 DEF Asked, Opened

\* AwaitedApprovalExists: whoever crashed, expired or took over, a render job
\* that waits for a decision waits for one that can still be taken.
THEOREM AwaitedCorrect == Spec => []AwaitedApprovalExists
<1>1. Init => Confirmed /\ RoomToRender /\ Asked
  <2> SUFFICES ASSUME Init PROVE Confirmed /\ RoomToRender /\ Asked
    OBVIOUS
  <2>1. \A x \in Workers : ~Current(x) /\ pc[x] = "idle"
    BY DEF Init, Current, Active
  <2>2. \A j \in RenderJobs : HeadVersion(j) = 0 /\ token[j] = 0 /\ state[j] = "SCHEDULED"
    BY KindAssumption DEF Init, HeadVersion
  <2> QED BY <2>1, <2>2, BoundAssumption DEF Confirmed, RoomToRender, Asked
<1>2. ReceiptInv => ReceiptsAdvance
  BY DEF ReceiptInv
<1>3. Asked => AwaitedApprovalExists
  BY DEF Asked, AwaitedApprovalExists, Opened
<1> QED BY <1>1, <1>2, <1>3, IInvHolds, ReceiptInvHolds, NextConfirmed, NextRoom, NextAsked, PTL DEF Spec

=============================================================================
