------------------------- MODULE DurableRuns_proofs -------------------------
(***************************************************************************)
(* Theorems about DurableRuns, for every set of jobs and workers and every *)
(* value of the bounds.                                                    *)
(***************************************************************************)
EXTENDS DurableRuns, TLAPS

\* The points of a move, spelled out.
LEMMA PlainMovesAre ==
    PlainMoves = {"toPrecheck", "toReady", "toReconciling", "toReadyFresh", "toReadyRedo",
                  "toRunning", "toUnknown", "toObserving", "toAdopted", "toInconclusive",
                  "toVerifying", "toCommitting"}
  BY DEF PlainMoves, Move

\* Every entry of the move table names a run state and a point of run_tick.
LEMMA MoveType ==
    ASSUME NEW p \in PlainMoves
    PROVE  Move[p].to \subseteq RunState /\ Move[p].then \in PCs \ {"claiming"}
  BY PlainMovesAre DEF Move, PCs, HandlerPoints, StorePoints, Releases, RunState, InFlight, Claimable

\* The other points, spelled out.
LEMMA PointsAre ==
    {"idle", "claiming", "precheck", "probe", "dispatch", "observe", "verify", "onCommit",
     "reserve", "reserveFresh", "reconcile", "unconfirmed", "settleFailed", "lostAck", "commit",
     "toBlocked", "toDeadLetter", "toRescheduled", "fail", "toFinal"} \cup PlainMoves = PCs
  BY DEF PCs, HandlerPoints, StorePoints, Releases

\* What the typing of a tick's local state adds to TypeOK: a worker that left
\* idle has a job, one that won its claim has a tick within the bound, and a
\* claim whose version is still current read a job below the bound.
LocalOK ==
    \A w \in Workers :
        /\ pc[w] # "idle" => wjob[w] \in Jobs
        /\ Active(w) => wtick[w] \in Ticks
        /\ pc[w] = "claiming" /\ fresh[w] => tick[wjob[w]] < MaxTick

Typed == TypeOK /\ LocalOK

\* What a step inside a tick does to the local state, whatever it does to the store.
LEMMA GotoTyped ==
    ASSUME Typed, NEW w \in Workers, Active(w), NEW p \in PCs \ {"claiming"},
           pc' = [pc EXCEPT ![w] = p], UNCHANGED <<rd, fresh, wjob, wtok, wtick, tick>>
    PROVE  pc' \in [Workers -> PCs] /\ LocalOK'
  BY DEF Typed, TypeOK, LocalOK, Active

\* The same for the steps that end the tick.
LEMMA ForgetTyped ==
    ASSUME Typed, NEW w \in Workers, Active(w), Forget(w), NEW j \in Jobs,
           Touch(j) \/ UNCHANGED fresh, \A k \in Jobs : k # j => tick'[k] = tick[k],
           ~Touch(j) => UNCHANGED tick
    PROVE  /\ pc' \in [Workers -> PCs] /\ LocalOK'
           /\ wjob' \in [Workers -> Jobs \cup {NoJob}] /\ wtok' \in [Workers -> Nat]
           /\ wtick' \in [Workers -> Nat] /\ obs' \in [Workers -> Nat]
           /\ rd' \in [Workers -> RunState \cup {"unread"}] /\ fresh' \in [Workers -> BOOLEAN]
  BY PointsAre DEF Typed, TypeOK, LocalOK, Active, Forget, Touch

\* The journal write of one entry.
LEMMA SetIntentTyped ==
    ASSUME Typed, NEW w \in Workers, Active(w), NEW st \in {"INTENT", "UNCONFIRMED", "COMMITTED", "FAILED"},
           SetIntent(w, st)
    PROVE  intent' \in [Jobs -> [Ticks -> IntentStatus]]
<1> DEFINE j == wjob[w]
<1>1. j \in Jobs /\ intent \in [Jobs -> [Ticks -> IntentStatus]] /\ st \in IntentStatus
  BY DEF Typed, TypeOK, LocalOK, Active, IntentStatus, Unsettled
<1>2. [intent[j] EXCEPT ![wtick[w]] = st] \in [Ticks -> IntentStatus]
  BY <1>1
<1> QED
  BY <1>1, <1>2 DEF SetIntent

\* The initial state is typed.
LEMMA InitTyped == Init => Typed
  BY NoneAssumption, BoundAssumption
  DEF Init, Typed, TypeOK, LocalOK, Active, RunState, Claimable, PCs, Ticks, IntentStatus

\* Every step, of a worker or of anybody else, keeps the typing.
LEMMA NextTyped == Typed /\ [Next]_vars => Typed'
<1> SUFFICES ASSUME Typed, [Next]_vars PROVE Typed'
  OBVIOUS
<1> USE NoneAssumption, BoundAssumption DEF Typed
<1>1. ASSUME NEW w \in Workers, NEW j \in Jobs, ClaimRead(w, j) PROVE Typed'
  BY <1>1 DEF ClaimRead, TypeOK, LocalOK, Active, PCs, StorePoints, storeVars, rowVars, intentVars, artVars
<1>2. ASSUME NEW w \in Workers, ClaimCAS(w) PROVE Typed'
  <2>2. pc' \in [Workers -> PCs]
    BY <1>2, PointsAre, PlainMovesAre DEF ClaimCAS, TypeOK
  <2>3. wjob[w] \in Jobs /\ tick[wjob[w]] \in Nat /\ token[wjob[w]] \in Nat /\ tick[wjob[w]] + 1 \in Ticks
    BY SMTT(30), <1>2 DEF ClaimCAS, TypeOK, LocalOK, Ticks
  <2>4. state' \in [Jobs -> RunState]
    BY <1>2 DEF ClaimCAS, TypeOK, RunState, InFlight
  <2>5. TypeOK'
    <3>1. token' \in [Jobs -> Nat] /\ wtok' \in [Workers -> Nat] /\ wtick' \in [Workers -> Nat]
      <4>1. /\ token' = [token EXCEPT ![wjob[w]] = token[wjob[w]] + 1]
            /\ wtok' = [wtok EXCEPT ![w] = token[wjob[w]] + 1]
            /\ wtick' = [wtick EXCEPT ![w] = tick[wjob[w]] + 1]
        BY <1>2 DEF ClaimCAS
      <4>2. token[wjob[w]] + 1 \in Nat /\ tick[wjob[w]] + 1 \in Nat
        BY <2>3
      <4> QED BY <4>1, <4>2 DEF TypeOK
    <3>2. owner' \in [Jobs -> Workers \cup {NoWorker}] /\ live' \in [Jobs -> BOOLEAN] /\ fresh' \in [Workers -> BOOLEAN]
      BY <1>2 DEF ClaimCAS, Touch, TypeOK
    <3> QED
      BY <1>2, <2>2, <2>4, <3>1, <3>2 DEF ClaimCAS, TypeOK, intentVars, artVars
  <2>6. LocalOK'
    BY <1>2, <2>3, PlainMovesAre DEF ClaimCAS, Touch, LocalOK, Active, TypeOK
  <2> QED BY <2>5, <2>6
<1>3. ASSUME NEW w \in Workers, Raise(w) PROVE Typed'
  BY <1>3 DEF Raise, Forget, TypeOK, LocalOK, Active, PCs, storeVars, rowVars, intentVars, artVars
<1>4. ASSUME NEW w \in Workers, MoveRead(w) PROVE Typed'
  BY <1>4 DEF MoveRead, TypeOK, LocalOK, Active, storeVars, rowVars, intentVars, artVars, localVars, Releases, PlainMoves, Move
<1>5. ASSUME NEW w \in Workers, MoveWrite(w) PROVE Typed'
  <2> DEFINE p == pc[w]
  <2>0. p \in PlainMoves /\ Move[p].to \subseteq RunState /\ Move[p].then \in PCs \ {"claiming"}
    BY <1>5, MoveType DEF MoveWrite
  <2>a. p \notin {"idle", "claiming"}
    BY <2>0, PlainMovesAre
  <2>1. state' \in [Jobs -> RunState]
    BY <1>5, <2>0 DEF MoveWrite, TypeOK
  <2>2. CASE Move[p].then = "idle"
    <3>1. Active(w) /\ wjob[w] \in Jobs /\ Forget(w) /\ Touch(wjob[w]) /\ UNCHANGED tick
      BY <1>5, <2>a, <2>2 DEF MoveWrite, Active, LocalOK
    <3> QED
      BY <1>5, <2>1, <3>1, ForgetTyped DEF MoveWrite, TypeOK, intentVars, artVars
  <2>3. CASE Move[p].then # "idle"
    BY ZenonT(40), <1>5, <2>0, <2>a, <2>1, <2>3 DEF MoveWrite, Touch, TypeOK, LocalOK, Active, rowVars, intentVars, artVars, localVars
  <2> QED BY <2>2, <2>3
<1>6. ASSUME NEW w \in Workers, ReleaseWrite(w) PROVE Typed'
  <2>1. state' \in [Jobs -> RunState]
    BY <1>6 DEF ReleaseWrite, Targets, PlainMoves, Move, TypeOK, RunState, Claimable
  <2> QED
    BY <1>6, <2>1 DEF ReleaseWrite, Release, Forget, Touch, TypeOK, LocalOK, Active, PCs, intentVars, artVars
<1>7. ASSUME NEW w \in Workers, FailWrite(w) PROVE Typed'
  BY SMTT(30), <1>7 DEF FailWrite, Release, Forget, Touch, TypeOK, LocalOK, Active, PCs, intentVars, artVars, RunState, Claimable, Fingerprints
<1>8. ASSUME NEW w \in Workers, FinalWrite(w) PROVE Typed'
  BY <1>8 DEF FinalWrite, FinalState, Release, Forget, Touch, TypeOK, LocalOK, Active, PCs, intentVars, artVars, RunState, Claimable
<1>9. ASSUME NEW w \in Workers, Precheck(w) PROVE Typed'
  <2>1. pc[w] = "precheck" /\ UNCHANGED storeVars
    BY <1>9 DEF Precheck
  <2>2. PICK p \in {"toReady", "toBlocked"} : Goto(w, p)
    BY <1>9 DEF Precheck
  <2> QED
    BY <2>1, <2>2, PlainMovesAre DEF Goto, TypeOK, LocalOK, Active, PCs, Releases, storeVars, rowVars, intentVars, artVars, localVars
<1>10. ASSUME NEW w \in Workers, ReserveIntent(w) PROVE Typed'
  <2>1. intentVars' = intentVars \/ (/\ SetIntent(w, "INTENT") /\ UNCHANGED receipt
                                    /\ \E v \in {0, HeadVersion(wjob[w])} :
                                          pre' = [pre EXCEPT ![wjob[w]][wtick[w]] = v])
    BY <1>10 DEF ReserveIntent
  <2>2. HeadVersion(wjob[w]) \in Nat
    BY <1>10 DEF ReserveIntent, HeadVersion, TypeOK, LocalOK
  <2>3. /\ intent' \in [Jobs -> [Ticks -> IntentStatus]]
        /\ pre' \in [Jobs -> [Ticks -> Nat]]
        /\ receipt' \in [Jobs -> [Ticks -> Nat]]
    <3>1. Active(w) /\ wjob[w] \in Jobs
      BY <1>10 DEF ReserveIntent, Active, LocalOK
    <3>2. CASE intentVars' = intentVars
      BY <3>2 DEF intentVars, TypeOK
    <3>3. CASE /\ SetIntent(w, "INTENT") /\ UNCHANGED receipt
               /\ \E v \in {0, HeadVersion(wjob[w])} : pre' = [pre EXCEPT ![wjob[w]][wtick[w]] = v]
      <4>1. PICK v \in {0, HeadVersion(wjob[w])} : pre' = [pre EXCEPT ![wjob[w]][wtick[w]] = v]
        BY <3>3
      <4>2. v \in Nat /\ pre[wjob[w]] \in [Ticks -> Nat]
        BY <2>2, <3>1, <4>1 DEF TypeOK
      <4> QED
        BY <3>1, <3>3, <4>1, <4>2, SetIntentTyped DEF TypeOK
    <3> QED BY <2>1, <3>2, <3>3
  <2> QED
    BY <1>10, <2>3, PlainMovesAre, PointsAre, GotoTyped DEF ReserveIntent, Goto, TypeOK, Active, rowVars, artVars, localVars
<1>11. ASSUME NEW w \in Workers, ReadIntent(w) PROVE Typed'
  <2>1. /\ Active(w) /\ wjob[w] \in Jobs /\ wtick[w] \in Ticks
        /\ UNCHANGED <<storeVars, rd, fresh, wjob, wtok, wtick>>
    BY <1>11 DEF ReadIntent, Goto, Active, LocalOK, localVars
  <2>2. \E p \in PCs \ {"claiming"} : pc' = [pc EXCEPT ![w] = p]
    BY <1>11, PlainMovesAre, PointsAre DEF ReadIntent, Goto
  <2>3. obs' \in [Workers -> Nat]
    <3>1. obs' = obs \/ obs' = [obs EXCEPT ![w] = receipt[wjob[w]][wtick[w]]]
      BY <1>11 DEF ReadIntent, Goto, localVars
    <3>2. receipt[wjob[w]][wtick[w]] \in Nat
      BY <2>1 DEF TypeOK
    <3> QED BY <3>1, <3>2 DEF TypeOK
  <2> QED
    BY <2>1, <2>2, <2>3, GotoTyped DEF TypeOK, storeVars, rowVars, intentVars, artVars
<1>12. ASSUME NEW w \in Workers, ProbeAdopt(w) PROVE Typed'
  <2>1. /\ Active(w) /\ wjob[w] \in Jobs
        /\ UNCHANGED <<storeVars, rd, fresh, wjob, wtok, wtick>>
    BY <1>12 DEF ProbeAdopt, Goto, Active, LocalOK, localVars
  <2>2. \E p \in PCs \ {"claiming"} : pc' = [pc EXCEPT ![w] = p]
    BY <1>12, PlainMovesAre, PointsAre DEF ProbeAdopt, Goto
  <2>3. obs' \in [Workers -> Nat]
    BY <1>12, <2>1 DEF ProbeAdopt, Goto, HeadVersion, localVars, TypeOK
  <2> QED
    BY <2>1, <2>2, <2>3, GotoTyped DEF TypeOK, storeVars, rowVars, intentVars, artVars
<1>13. ASSUME NEW w \in Workers, ProbeNoEffect(w) \/ ProbeUnknown(w) PROVE Typed'
  <2>1. \E p \in PCs \ {"claiming"} : Goto(w, p)
    BY <1>13, PlainMovesAre, PointsAre DEF ProbeNoEffect, ProbeUnknown
  <2>2. Active(w) /\ UNCHANGED storeVars
    BY <1>13 DEF ProbeNoEffect, ProbeUnknown, Active
  <2> QED
    BY <2>1, <2>2, GotoTyped DEF Goto, TypeOK, storeVars, rowVars, intentVars, artVars, localVars
<1>14. ASSUME NEW w \in Workers, MarkUnconfirmed(w) PROVE Typed'
  <2>1. Active(w) /\ wjob[w] \in Jobs /\ SetIntent(w, "UNCONFIRMED") /\ UNCHANGED <<rowVars, pre, receipt, artVars>>
    BY <1>14 DEF MarkUnconfirmed, Active, LocalOK
  <2>2. intent' \in [Jobs -> [Ticks -> IntentStatus]]
    BY <2>1, SetIntentTyped
  <2>3. CASE Forget(w) /\ UNCHANGED fresh
    <3>1. \A k \in Jobs : tick'[k] = tick[k]
      BY <2>1 DEF rowVars
    <3> QED
      BY <2>1, <2>2, <2>3, <3>1, ForgetTyped DEF TypeOK, rowVars, artVars
  <2>4. CASE Goto(w, "toUnknown")
    BY <2>1, <2>2, <2>4, PlainMovesAre, PointsAre, GotoTyped DEF Goto, TypeOK, rowVars, artVars, localVars
  <2> QED BY <1>14, <2>3, <2>4 DEF MarkUnconfirmed
<1>15. ASSUME NEW w \in Workers, SettleFailed(w) PROVE Typed'
  <2>1. Active(w) /\ SetIntent(w, "FAILED") /\ Goto(w, "toDeadLetter") /\ UNCHANGED <<rowVars, pre, receipt, artVars>>
    BY <1>15 DEF SettleFailed, Active
  <2> QED
    BY <2>1, SetIntentTyped, PointsAre, GotoTyped DEF Goto, TypeOK, rowVars, artVars, localVars
<1>16. ASSUME NEW w \in Workers, DispatchEffect(w) PROVE Typed'
  <2>1. effects' \in [Jobs -> Seq(Ticks)]
    BY <1>16 DEF DispatchEffect, TypeOK, LocalOK, Active
  <2> QED
    BY <1>16, <2>1, PlainMovesAre, PointsAre, GotoTyped DEF DispatchEffect, Goto, TypeOK, Active, rowVars, intentVars, localVars
<1>17. ASSUME NEW w \in Workers, DispatchNoEffect(w) \/ Verify(w) PROVE Typed'
  <2>1. \E p \in PCs \ {"claiming"} : Goto(w, p)
    BY <1>17, PlainMovesAre, PointsAre DEF DispatchNoEffect, Verify
  <2>2. Active(w) /\ UNCHANGED storeVars
    BY <1>17 DEF DispatchNoEffect, Verify, Active
  <2> QED
    BY <2>1, <2>2, GotoTyped DEF Goto, TypeOK, storeVars, rowVars, intentVars, artVars, localVars
<1>18. ASSUME NEW w \in Workers, Observe(w) PROVE Typed'
  <2>1. /\ Active(w) /\ wjob[w] \in Jobs
        /\ UNCHANGED <<storeVars, rd, fresh, wjob, wtok, wtick>>
    BY <1>18 DEF Observe, Goto, Active, LocalOK, localVars
  <2>2. \E p \in PCs \ {"claiming"} : pc' = [pc EXCEPT ![w] = p]
    BY <1>18, PlainMovesAre, PointsAre DEF Observe, Goto
  <2>3. obs' \in [Workers -> Nat]
    <3>1. obs' = obs \/ obs' = [obs EXCEPT ![w] = HeadVersion(wjob[w])]
      BY <1>18 DEF Observe, Goto, localVars
    <3>2. HeadVersion(wjob[w]) \in Nat
      BY <2>1 DEF HeadVersion, TypeOK
    <3> QED BY <3>1, <3>2 DEF TypeOK
  <2> QED
    BY <2>1, <2>2, <2>3, GotoTyped DEF TypeOK, storeVars, rowVars, intentVars, artVars
<1>19. ASSUME NEW w \in Workers, CommitIntent(w) PROVE Typed'
  <2>1. /\ intent' \in [Jobs -> [Ticks -> IntentStatus]]
        /\ pre' \in [Jobs -> [Ticks -> Nat]]
        /\ receipt' \in [Jobs -> [Ticks -> Nat]]
    <3>1. Active(w) /\ wjob[w] \in Jobs /\ obs[w] \in Nat
      BY <1>19 DEF CommitIntent, Active, LocalOK, TypeOK
    <3>2. CASE UNCHANGED intentVars
      BY <3>2 DEF TypeOK, intentVars
    <3>3. CASE SetIntent(w, "COMMITTED") /\ UNCHANGED pre /\ receipt' = [receipt EXCEPT ![wjob[w]][wtick[w]] = obs[w]]
      <4>1. [receipt[wjob[w]] EXCEPT ![wtick[w]] = obs[w]] \in [Ticks -> Nat]
        BY <3>1 DEF TypeOK
      <4> QED
        BY <3>1, <3>3, <4>1, SetIntentTyped DEF TypeOK
    <3> QED BY <1>19, <3>2, <3>3 DEF CommitIntent
  <2> QED
    BY <1>19, <2>1 DEF CommitIntent, Goto, TypeOK, LocalOK, Active, PCs, HandlerPoints, rowVars, artVars, localVars
<1>20. ASSUME NEW w \in Workers, OnCommit(w) PROVE Typed'
  <2>1. approval' \in [Jobs -> [1..MaxToken -> {"none", "pending", "decided", "stale"}]]
    BY <1>20 DEF OnCommit, TypeOK, LocalOK
  <2> QED
    BY <1>20, <2>1 DEF OnCommit, Goto, TypeOK, LocalOK, Active, PCs, Releases, rowVars, intentVars, localVars
<1>21. ASSUME NEW w \in Workers, RenewLease(w) PROVE Typed'
  BY <1>21 DEF RenewLease, Touch, TypeOK, LocalOK, Active, intentVars, artVars, localVars
<1>22. ASSUME NEW j \in Jobs, LeaseExpires(j) PROVE Typed'
  BY <1>22 DEF LeaseExpires, TypeOK, LocalOK, Active, workVars, intentVars, artVars, localVars
<1>23. ASSUME NEW j \in Jobs, OperatorMove(j) PROVE Typed'
  BY <1>23 DEF OperatorMove, OperatorTargets, Touch, TypeOK, LocalOK, Active, RunState, Claimable, intentVars, artVars, localVars
<1>24. ASSUME NEW j \in Jobs, CancelStop(j) PROVE Typed'
  <2>1. /\ UNCHANGED <<tick, attempts, seen, intentVars, artVars, pc, rd, localVars>>
        /\ fresh' = [w \in Workers |-> fresh[w] /\ wjob[w] # j]
    BY <1>24 DEF CancelStop, Touch
  <2>2. /\ state' = [state EXCEPT ![j] = "STOPPED"] /\ "STOPPED" \in RunState
        /\ token' = [token EXCEPT ![j] = @ + 1]
        /\ owner' = [owner EXCEPT ![j] = NoWorker]
        /\ live' = [live EXCEPT ![j] = FALSE]
    BY <1>24 DEF CancelStop, RunState
  <2> QED BY <2>1, <2>2 DEF TypeOK, LocalOK, Active, intentVars, artVars, localVars
<1>25. ASSUME NEW j \in Jobs, Decide(j) PROVE Typed'
  BY SMTT(30), <1>25 DEF Decide, TypeOK, LocalOK, Active, workVars, rowVars, intentVars, localVars
<1>26. ASSUME NEW j \in Jobs, SettleApproval(j) PROVE Typed'
  BY <1>26 DEF SettleApproval, SettledStates, Touch, TypeOK, LocalOK, Active, RunState, Claimable, intentVars, artVars, localVars
<1>27. CASE UNCHANGED vars
  BY <1>27 DEF vars, storeVars, workVars, TypeOK, LocalOK, Active, rowVars, intentVars, artVars, localVars
<1> QED
  BY <1>1, <1>2, <1>3, <1>4, <1>5, <1>6, <1>7, <1>8, <1>9, <1>10, <1>11, <1>12, <1>13, <1>14,
     <1>15, <1>16, <1>17, <1>18, <1>19, <1>20, <1>21, <1>22, <1>23, <1>24, <1>25, <1>26, <1>27
  DEF Next, WorkerNext, TickStep, MoveStep, JournalStep, HandlerStep, JobNext, ClaimLost, MoveRefused,
      MoveLost, ReserveRefused, JournalRefused, Crash

\* TypeOK: every row, journal entry and local variable keeps its type.
THEOREM TypeCorrect == Spec => []TypeOK
<1>1. Spec => []Typed
  BY InitTyped, NextTyped, PTL DEF Spec
<1> QED
  BY <1>1, PTL DEF Typed

-----------------------------------------------------------------------------
(* Fencing. *)

\* A claim that can still win read a job that is claimable, and a move that
\* passed its read is legal from the state it read.
ReadsLegal ==
    \A w \in Workers :
        /\ pc[w] = "claiming" /\ fresh[w] => state[wjob[w]] \in Claimable \cup InFlight
        /\ rd[w] # "unread" => /\ pc[w] \in PlainMoves \cup Releases
                               /\ Targets(w) \subseteq Edges(rd[w])

\* Steps that neither claim nor stop hand out no token: a worker in a tick
\* after the step was in the same tick, with the same token, before it.
LEMMA TicksPersist ==
    ASSUME Typed, [Next]_vars, NEW x \in Workers, Active(x)', ~ClaimCAS(x)
    PROVE  Active(x) /\ wjob'[x] = wjob[x] /\ wtok'[x] = wtok[x] /\ wtick'[x] = wtick[x]
<1> USE DEF Typed, TypeOK, Active
<1>1. ASSUME NEW w \in Workers, NEW j \in Jobs, ClaimRead(w, j) PROVE Active(x) /\ wjob'[x] = wjob[x] /\ wtok'[x] = wtok[x] /\ wtick'[x] = wtick[x]
  BY <1>1 DEF ClaimRead
<1>2. ASSUME NEW w \in Workers, ClaimCAS(w) PROVE Active(x) /\ wjob'[x] = wjob[x] /\ wtok'[x] = wtok[x] /\ wtick'[x] = wtick[x]
  BY <1>2 DEF ClaimCAS
<1>3. ASSUME NEW w \in Workers, Forget(w) PROVE Active(x) /\ wjob'[x] = wjob[x] /\ wtok'[x] = wtok[x] /\ wtick'[x] = wtick[x]
  BY <1>3 DEF Forget
<1>4. ASSUME NEW w \in Workers, NEW p \in STRING, Active(w), pc' = [pc EXCEPT ![w] = p], UNCHANGED <<wjob, wtok, wtick>>
      PROVE Active(x) /\ wjob'[x] = wjob[x] /\ wtok'[x] = wtok[x] /\ wtick'[x] = wtick[x]
  BY <1>4
<1>5. CASE UNCHANGED <<pc, wjob, wtok, wtick>>
  BY <1>5
<1>6. ASSUME NEW w \in Workers, MoveWrite(w) PROVE Active(x) /\ wjob'[x] = wjob[x] /\ wtok'[x] = wtok[x] /\ wtick'[x] = wtick[x]
  <2>1. Active(w)
    BY <1>6, PlainMovesAre DEF MoveWrite
  <2>2. Forget(w) \/ (pc' = [pc EXCEPT ![w] = Move[pc[w]].then] /\ UNCHANGED localVars)
    BY <1>6 DEF MoveWrite
  <2> QED BY <1>3, <2>1, <2>2 DEF localVars
<1>7. ASSUME NEW w \in Workers, HandlerStep(w) PROVE Active(x) /\ wjob'[x] = wjob[x] /\ wtok'[x] = wtok[x] /\ wtick'[x] = wtick[x]
  BY <1>7 DEF HandlerStep, Precheck, ProbeAdopt, ProbeNoEffect, ProbeUnknown, DispatchEffect,
              DispatchNoEffect, Observe, Verify, OnCommit, Goto, localVars
<1>8. ASSUME NEW w \in Workers, JournalStep(w) PROVE Active(x) /\ wjob'[x] = wjob[x] /\ wtok'[x] = wtok[x] /\ wtick'[x] = wtick[x]
  <2>1. CASE ReserveIntent(w) \/ ReadIntent(w) \/ SettleFailed(w) \/ CommitIntent(w)
    BY <2>1 DEF ReserveIntent, ReadIntent, SettleFailed, CommitIntent, Goto, localVars
  <2>2. CASE MarkUnconfirmed(w)
    BY <2>2, <1>3 DEF MarkUnconfirmed, Goto, localVars
  <2>3. CASE ReserveRefused(w) \/ JournalRefused(w)
    BY <2>3, <1>3 DEF ReserveRefused, JournalRefused, Raise
  <2> QED BY <1>8, <2>1, <2>2, <2>3 DEF JournalStep
<1>9. ASSUME NEW w \in Workers, MoveStep(w) PROVE Active(x) /\ wjob'[x] = wjob[x] /\ wtok'[x] = wtok[x] /\ wtick'[x] = wtick[x]
  <2>1. CASE MoveRead(w)
    BY <2>1, <1>5 DEF MoveRead, localVars
  <2>2. CASE MoveRefused(w) \/ MoveLost(w)
    BY <2>2, <1>3 DEF MoveRefused, MoveLost, Raise
  <2>3. CASE ReleaseWrite(w) \/ FailWrite(w) \/ FinalWrite(w)
    BY <2>3, <1>3 DEF ReleaseWrite, FailWrite, FinalWrite, Release
  <2> QED BY <1>6, <1>9, <2>1, <2>2, <2>3 DEF MoveStep
<1>10. ASSUME NEW w \in Workers, ClaimLost(w) \/ Crash(w) PROVE Active(x) /\ wjob'[x] = wjob[x] /\ wtok'[x] = wtok[x] /\ wtick'[x] = wtick[x]
  BY <1>3, <1>10 DEF ClaimLost, Crash, Raise
<1>11. ASSUME NEW w \in Workers, RenewLease(w) PROVE Active(x) /\ wjob'[x] = wjob[x] /\ wtok'[x] = wtok[x] /\ wtick'[x] = wtick[x]
  BY <1>5, <1>11 DEF RenewLease, localVars
<1>12. ASSUME NEW j \in Jobs, JobNext(j) PROVE Active(x) /\ wjob'[x] = wjob[x] /\ wtok'[x] = wtok[x] /\ wtick'[x] = wtick[x]
  BY <1>5, <1>12 DEF JobNext, LeaseExpires, OperatorMove, CancelStop, Decide, SettleApproval, workVars, localVars
<1>13. CASE UNCHANGED vars
  BY <1>5, <1>13 DEF vars, workVars, localVars
<1> QED
  BY <1>1, <1>2, <1>7, <1>8, <1>9, <1>10, <1>11, <1>12, <1>13 DEF Next, WorkerNext, TickStep

\* Only a claim and a stop change a token.
LEMMA TokensPersist ==
    ASSUME Typed, [Next]_vars
    PROVE  \/ UNCHANGED token
           \/ \E w \in Workers : ClaimCAS(w)
           \/ \E j \in Jobs : CancelStop(j)
<1>1. ASSUME NEW w \in Workers, MoveStep(w) PROVE UNCHANGED token
  BY <1>1 DEF MoveStep, MoveRead, MoveRefused, MoveLost, MoveWrite, ReleaseWrite, FailWrite, FinalWrite,
              Release, Raise, storeVars, rowVars
<1>2. ASSUME NEW w \in Workers, JournalStep(w) PROVE UNCHANGED token
  BY <1>2 DEF JournalStep, ReserveIntent, ReserveRefused, ReadIntent, MarkUnconfirmed, SettleFailed,
              CommitIntent, JournalRefused, Raise, storeVars, rowVars
<1>3. ASSUME NEW w \in Workers, HandlerStep(w) PROVE UNCHANGED token
  BY <1>3 DEF HandlerStep, Precheck, ProbeAdopt, ProbeNoEffect, ProbeUnknown, DispatchEffect,
              DispatchNoEffect, Observe, Verify, OnCommit, storeVars, rowVars
<1>4. ASSUME NEW w \in Workers, WorkerNext(w), ~ClaimCAS(w) PROVE UNCHANGED token
  BY <1>1, <1>2, <1>3, <1>4 DEF WorkerNext, TickStep, ClaimRead, ClaimLost, Crash, RenewLease, Raise,
                                storeVars, rowVars
<1>5. ASSUME NEW j \in Jobs, JobNext(j), ~CancelStop(j) PROVE UNCHANGED token
  BY <1>5 DEF JobNext, LeaseExpires, OperatorMove, Decide, SettleApproval, rowVars
<1> QED
  BY <1>4, <1>5 DEF Next, vars, storeVars, rowVars

\* Every step keeps the tokens apart: a claim hands out a token newer than all.
LEMMA NextFence == Typed /\ FenceExclusive /\ [Next]_vars => FenceExclusive'
<1> SUFFICES ASSUME Typed, FenceExclusive, [Next]_vars, NEW w \in Workers, Active(w)'
             PROVE  /\ wtok'[w] <= token'[wjob'[w]]
                    /\ \A x \in Workers \ {w} : Active(x)' /\ wjob'[x] = wjob'[w] => wtok'[x] # wtok'[w]
  BY DEF FenceExclusive
<1> USE DEF Typed, TypeOK
<1>1. ASSUME NEW c \in Workers, ClaimCAS(c) PROVE FenceExclusive'
  <2>1. wjob[c] \in Jobs
    BY <1>1 DEF ClaimCAS, LocalOK
  <2>2. /\ wtok' = [wtok EXCEPT ![c] = token[wjob[c]] + 1] /\ wjob' = wjob
        /\ token' = [token EXCEPT ![wjob[c]] = @ + 1]
        /\ \A x \in Workers \ {c} : Active(x)' => Active(x)
    BY <1>1 DEF ClaimCAS, Active
  <2>3. \A x \in Workers \ {c} : Active(x)' => wjob[x] \in Jobs
    BY <2>2 DEF LocalOK, Active
  <2>4. wtok'[c] = token[wjob[c]] + 1 /\ wjob'[c] = wjob[c] /\ token'[wjob[c]] = token[wjob[c]] + 1
    BY <2>1, <2>2
  <2>5. ASSUME NEW x \in Workers \ {c}, Active(x)'
        PROVE  /\ wtok'[x] = wtok[x] /\ wjob'[x] = wjob[x] /\ Active(x) /\ wtok[x] \in Nat
               /\ wtok[x] <= token[wjob[x]] /\ token'[wjob[x]] >= token[wjob[x]]
    BY SMTT(30), <2>1, <2>2, <2>3, <2>5 DEF FenceExclusive
  <2>6. ASSUME NEW x \in Workers \ {c}, Active(x)', wjob[x] = wjob[c]
        PROVE  wtok'[x] # wtok'[c]
    <3>1. wtok'[x] < wtok'[c] /\ wtok'[x] \in Nat /\ wtok'[c] \in Nat
      BY <2>1, <2>4, <2>5, <2>6
    <3> QED BY <3>1
  <2>7. ASSUME NEW x \in Workers, Active(x)' PROVE wtok'[x] <= token'[wjob'[x]]
    BY SMTT(30), <2>1, <2>2, <2>3, <2>4, <2>5, <2>7
  <2>8. ASSUME NEW x \in Workers, Active(x)', NEW y \in Workers \ {x}, Active(y)', wjob'[y] = wjob'[x]
        PROVE  wtok'[y] # wtok'[x]
    <3> HIDE DEF Typed, TypeOK
    <3>1. CASE x = c
      BY <2>4, <2>5, <2>6, <2>8, <3>1
    <3>2. CASE y = c
      BY <2>4, <2>5, <2>6, <2>8, <3>2
    <3>3. CASE x # c /\ y # c
      BY <2>5, <2>8, <3>3 DEF FenceExclusive
    <3> QED BY <3>1, <3>2, <3>3
  <2> QED BY <2>7, <2>8 DEF FenceExclusive
<1>2. ASSUME NEW j \in Jobs, CancelStop(j) PROVE FenceExclusive'
  <2>1. /\ wtok' = wtok /\ wjob' = wjob /\ pc' = pc /\ token' = [token EXCEPT ![j] = @ + 1]
    BY <1>2 DEF CancelStop, localVars
  <2>2. \A x \in Workers : Active(x) => wjob[x] \in Jobs
    BY DEF LocalOK, Active
  <2> QED BY SMTT(30), <2>1, <2>2 DEF FenceExclusive, Active
<1>3. CASE UNCHANGED token /\ \A c \in Workers : ~ClaimCAS(c)
  BY <1>3, TicksPersist DEF FenceExclusive
<1> QED BY <1>1, <1>2, <1>3, TokensPersist DEF FenceExclusive

\* FenceExclusive: no two workers in a tick of a job hold the same token.
THEOREM FencingCorrect == Spec => []FenceExclusive
<1>1. Init => FenceExclusive
  BY DEF Init, FenceExclusive, Active
<1> QED
  BY <1>1, InitTyped, NextTyped, NextFence, PTL DEF Spec

-----------------------------------------------------------------------------
(* The reads a worker acts on later. *)

\* What one step does to the reads of a worker x: nothing, or it drops them,
\* or it makes the one the step is for.
ReadsKept(x) ==
    /\ \/ rd'[x] = "unread"
       \/ rd'[x] = rd[x] /\ pc'[x] = pc[x] /\ wjob'[x] = wjob[x]
       \/ MoveRead(x)
    /\ \/ pc'[x] # "claiming" \/ ~fresh'[x]
       \/ /\ pc'[x] = pc[x] /\ fresh'[x] = fresh[x] /\ wjob'[x] = wjob[x]
          /\ state'[wjob[x]] = state[wjob[x]]
       \/ \E j \in Jobs : ClaimRead(x, j)

\* Every step of the system does no more than that to the reads of x.
LEMMA NextReadsKept ==
    ASSUME Typed, ReadsLegal, [Next]_vars, NEW x \in Workers
    PROVE  ReadsKept(x)
<1> USE DEF Typed, TypeOK
<1>0. pc[x] \in PlainMoves \cup Releases => pc[x] \notin {"idle", "claiming"}
  BY PlainMovesAre DEF Releases
<1>1. ASSUME NEW w \in Workers, NEW j \in Jobs, ClaimRead(w, j) PROVE ReadsKept(x)
  <2>1. rd' = rd /\ \A y \in Workers \ {w} : pc'[y] = pc[y] /\ wjob'[y] = wjob[y] /\ fresh'[y] = fresh[y]
    BY <1>1 DEF ClaimRead
  <2>2. state' = state /\ rd[w] = "unread"
    BY <1>1, PlainMovesAre DEF ClaimRead, ReadsLegal, Releases, storeVars, rowVars
  <2> QED BY <1>1, <2>1, <2>2 DEF ReadsKept
<1>2. ASSUME NEW w \in Workers, ClaimCAS(w) PROVE ReadsKept(x)
  <2>1. rd[w] = "unread" /\ rd' = rd /\ wjob' = wjob /\ \A y \in Workers \ {w} : pc'[y] = pc[y]
    BY <1>2, PlainMovesAre DEF ClaimCAS, ReadsLegal, Releases
  <2>2. pc[x] = "claiming" /\ fresh'[x] => state'[wjob[x]] = state[wjob[x]]
    <3>1. wjob[w] \in Jobs /\ state' = [state EXCEPT ![wjob[w]] = state'[wjob[w]]]
      BY <1>2 DEF ClaimCAS, LocalOK
    <3>2. fresh' = [y \in Workers |-> fresh[y] /\ wjob[y] # wjob[w]]
      BY <1>2 DEF ClaimCAS, Touch
    <3>3. pc[x] = "claiming" => wjob[x] \in Jobs
      BY DEF LocalOK
    <3> QED BY <3>1, <3>2, <3>3
  <2>3. pc'[w] # "claiming"
    BY <1>2 DEF ClaimCAS
  <2>4. fresh'[x] => fresh[x]
    BY <1>2 DEF ClaimCAS, Touch
  <2> QED BY <2>1, <2>2, <2>3, <2>4 DEF ReadsKept
<1>3. ASSUME NEW w \in Workers, Raise(w) PROVE ReadsKept(x)
  BY <1>3 DEF Raise, Forget, ReadsKept, storeVars, rowVars
<1>4. ASSUME NEW w \in Workers, Active(w), rd[w] = "unread", UNCHANGED <<state, rd, fresh, wjob>>,
             NEW p \in PCs \ {"claiming"}, pc' = [pc EXCEPT ![w] = p]
      PROVE  ReadsKept(x)
  BY <1>4 DEF ReadsKept
<1>5. ASSUME UNCHANGED <<pc, rd, wjob>>, \A y \in Workers : pc[y] = "claiming" /\ fresh'[y] => fresh[y] /\ state'[wjob[y]] = state[wjob[y]]
      PROVE  ReadsKept(x)
  BY <1>5 DEF ReadsKept
<1>6. ASSUME NEW w \in Workers, Active(w), NEW j \in Jobs, wjob[w] = j, Touch(j) \/ UNCHANGED <<state, fresh>>,
             \A k \in Jobs \ {j} : state'[k] = state[k], Forget(w)
      PROVE  ReadsKept(x)
  <2>1. CASE x = w
    BY <1>6, <2>1 DEF Forget, ReadsKept
  <2>2. CASE x # w
    <3>1. rd'[x] = rd[x] /\ pc'[x] = pc[x] /\ wjob'[x] = wjob[x]
      BY <1>6, <2>2 DEF Forget
    <3>2. pc[x] = "claiming" /\ fresh'[x] => fresh[x] /\ state'[wjob[x]] = state[wjob[x]]
      BY <1>6 DEF Touch, LocalOK
    <3> QED BY <3>1, <3>2 DEF ReadsKept
  <2> QED BY <2>1, <2>2
<1>7. ASSUME NEW w \in Workers, MoveStep(w) PROVE ReadsKept(x)
  <2>0. Active(w) /\ wjob[w] \in Jobs
    BY <1>7, PlainMovesAre
    DEF MoveStep, MoveRead, MoveRefused, MoveLost, MoveWrite, ReleaseWrite, FailWrite, FinalWrite, Releases, Active, LocalOK
  <2>1. CASE MoveRead(w)
    BY <2>1 DEF MoveRead, ReadsKept, localVars, storeVars, rowVars
  <2>2. CASE MoveRefused(w) \/ MoveLost(w)
    BY <1>3, <2>2 DEF MoveRefused, MoveLost
  <2>3. CASE MoveWrite(w)
    <3>1. Touch(wjob[w]) /\ \A k \in Jobs \ {wjob[w]} : state'[k] = state[k]
      BY <2>3 DEF MoveWrite
    <3>2. CASE Forget(w)
      BY <1>6, <2>0, <3>1, <3>2
    <3>3. CASE /\ pc' = [pc EXCEPT ![w] = Move[pc[w]].then] /\ rd' = [rd EXCEPT ![w] = "unread"]
               /\ UNCHANGED localVars
      <4>1. Move[pc[w]].then # "claiming"
        BY <2>3, MoveType DEF MoveWrite
      <4>2. pc[x] = "claiming" /\ fresh'[x] => fresh[x] /\ state'[wjob[x]] = state[wjob[x]]
        BY <3>1 DEF Touch, LocalOK
      <4> QED BY <3>3, <4>1, <4>2 DEF ReadsKept, localVars
    <3> QED BY <2>3, <3>2, <3>3 DEF MoveWrite
  <2>4. CASE ReleaseWrite(w) \/ FailWrite(w) \/ FinalWrite(w)
    <3>1. Forget(w) /\ Touch(wjob[w])
      BY <2>4 DEF ReleaseWrite, FailWrite, FinalWrite, Release
    <3>2. \A k \in Jobs \ {wjob[w]} : state'[k] = state[k]
      BY <2>4 DEF ReleaseWrite, FailWrite, FinalWrite
    <3> QED BY <1>6, <2>0, <3>1, <3>2
  <2> QED BY <1>7, <2>1, <2>2, <2>3, <2>4 DEF MoveStep
<1>8. ASSUME NEW w \in Workers, JournalStep(w) PROVE ReadsKept(x)
  <2>0. rd[w] = "unread" /\ Active(w) /\ wjob[w] \in Jobs
    BY <1>8, PlainMovesAre
    DEF JournalStep, ReserveIntent, ReserveRefused, ReadIntent, MarkUnconfirmed, SettleFailed, CommitIntent,
        JournalRefused, ReadsLegal, Releases, Active, LocalOK
  <2>1. CASE ReserveIntent(w) \/ ReadIntent(w) \/ SettleFailed(w) \/ CommitIntent(w) \/ (MarkUnconfirmed(w) /\ ~Forget(w))
    BY <1>4, <2>0, <2>1, PointsAre, PlainMovesAre
    DEF ReserveIntent, ReadIntent, SettleFailed, CommitIntent, MarkUnconfirmed, Goto, storeVars, rowVars, localVars
  <2>2. CASE MarkUnconfirmed(w) /\ Forget(w)
    <3>1. UNCHANGED <<state, fresh>>
      BY <2>2 DEF MarkUnconfirmed, Goto, rowVars
    <3> QED BY <1>6, <2>0, <2>2, <3>1
  <2>3. CASE ReserveRefused(w) \/ JournalRefused(w)
    BY <1>3, <2>3 DEF ReserveRefused, JournalRefused
  <2> QED BY <1>8, <2>1, <2>2, <2>3 DEF JournalStep
<1>9. ASSUME NEW w \in Workers, HandlerStep(w) PROVE ReadsKept(x)
  <2>0. rd[w] = "unread" /\ Active(w)
    BY <1>9, PlainMovesAre
    DEF HandlerStep, Precheck, ProbeAdopt, ProbeNoEffect, ProbeUnknown, DispatchEffect, DispatchNoEffect,
        Observe, Verify, OnCommit, ReadsLegal, Releases, Active
  <2>1. UNCHANGED <<state, rd, fresh, wjob>>
    BY <1>9 DEF HandlerStep, Precheck, ProbeAdopt, ProbeNoEffect, ProbeUnknown, DispatchEffect, DispatchNoEffect,
        Observe, Verify, OnCommit, Goto, storeVars, rowVars, localVars
  <2>2. \E p \in PCs \ {"claiming"} : pc' = [pc EXCEPT ![w] = p]
    BY <1>9, PointsAre, PlainMovesAre
    DEF HandlerStep, Precheck, ProbeAdopt, ProbeNoEffect, ProbeUnknown, DispatchEffect, DispatchNoEffect,
        Observe, Verify, OnCommit, Goto
  <2> QED BY <1>4, <2>0, <2>1, <2>2
<1>10. ASSUME NEW w \in Workers, ClaimLost(w) \/ Crash(w) PROVE ReadsKept(x)
  BY <1>3, <1>10 DEF ClaimLost, Crash
<1>11. ASSUME NEW w \in Workers, RenewLease(w) PROVE ReadsKept(x)
  BY <1>5, <1>11 DEF RenewLease, Touch, localVars
<1>12. ASSUME NEW j \in Jobs, JobNext(j) PROVE ReadsKept(x)
  <2>1. UNCHANGED <<pc, rd, wjob>>
    BY <1>12 DEF JobNext, LeaseExpires, OperatorMove, CancelStop, Decide, SettleApproval, workVars, localVars
  <2>2. CASE UNCHANGED <<state, fresh>>
    BY <1>5, <2>1, <2>2
  <2>3. CASE Touch(j) /\ \A k \in Jobs \ {j} : state'[k] = state[k]
    BY <1>5, <2>1, <2>3 DEF Touch, LocalOK
  <2> QED
    BY <1>12, <2>2, <2>3
    DEF JobNext, LeaseExpires, OperatorMove, CancelStop, Decide, SettleApproval, workVars, rowVars
<1>13. CASE UNCHANGED vars
  BY <1>5, <1>13 DEF vars, storeVars, rowVars, workVars, localVars
<1> QED
  BY <1>1, <1>2, <1>7, <1>8, <1>9, <1>10, <1>11, <1>12, <1>13 DEF Next, WorkerNext, TickStep

\* ReadsLegal is inductive relative to the typing.
LEMMA NextReadsLegal == Typed /\ ReadsLegal /\ [Next]_vars => ReadsLegal'
<1> SUFFICES ASSUME Typed, ReadsLegal, [Next]_vars, NEW x \in Workers
             PROVE  /\ pc'[x] = "claiming" /\ fresh'[x] => state'[wjob'[x]] \in Claimable \cup InFlight
                    /\ rd'[x] # "unread" => /\ pc'[x] \in PlainMoves \cup Releases
                                           /\ Targets(x)' \subseteq Edges(rd'[x])
  BY DEF ReadsLegal, Edges, DeclaredEdges
<1>1. ReadsKept(x)
  BY NextReadsKept
<1>2. CASE \E j \in Jobs : ClaimRead(x, j)
  BY <1>2, PlainMovesAre DEF ClaimRead, ReadsLegal, Releases, Typed, TypeOK, storeVars, rowVars
<1>3. CASE MoveRead(x)
  BY <1>3, PlainMovesAre DEF MoveRead, MovePermitted, Targets, FinalState, Releases, Typed, TypeOK, localVars
<1>4. rd'[x] = rd[x] /\ pc'[x] = pc[x] /\ wjob'[x] = wjob[x] => Targets(x)' = Targets(x)
  BY DEF Targets, FinalState
<1> QED
  BY <1>1, <1>2, <1>3, <1>4 DEF ReadsKept, ReadsLegal

\* An in-flight job has an owner, until it is released or stopped.
InFlightOwned == \A j \in Jobs : state[j] \in InFlight => owner[j] # NoWorker

\* The moves that give the lease back leave the in-flight states, the others
\* start in one of them.
LEMMA MoveEnds ==
    ASSUME Typed, ReadsLegal, NEW w \in Workers, rd[w] # "unread"
    PROVE  /\ pc[w] \in PlainMoves => rd[w] \in InFlight
           /\ pc[w] \in Releases => Targets(w) \cap InFlight = {}
<1>1. CASE pc[w] \in PlainMoves
  <2>1. Move[pc[w]].to \subseteq Targets(w) /\ pc[w] \notin Releases
    BY <1>1, MoveType, PlainMovesAre DEF Targets, Releases
  <2>2. Move[pc[w]].to # {} /\ Move[pc[w]].to \subseteq {"PRECHECK", "READY", "RECONCILING", "RUNNING", "OBSERVING", "INCONCLUSIVE", "VERIFYING", "COMMITTING"}
    BY <1>1, PlainMovesAre DEF Move
  <2>3. Move[pc[w]].to \subseteq Edges(rd[w])
    BY <2>1 DEF ReadsLegal
  <2>4. \A s, t : t \in Edges(s) /\ t \in {"PRECHECK", "READY", "RECONCILING", "RUNNING", "OBSERVING", "INCONCLUSIVE", "VERIFYING", "COMMITTING"} => s \in InFlight
    BY DEF Edges, DeclaredEdges, Blocked, InFlight
  <2> QED BY <2>1, <2>2, <2>3, <2>4
<1>2. CASE pc[w] \in Releases
  BY <1>2, PlainMovesAre DEF Releases, Targets, FinalState, Blocked, InFlight
<1> QED BY <1>1, <1>2

\* InFlightOwned is inductive.
LEMMA NextOwned == Typed /\ ReadsLegal /\ InFlightOwned /\ [Next]_vars => InFlightOwned'
<1> SUFFICES ASSUME Typed, ReadsLegal, InFlightOwned, [Next]_vars PROVE InFlightOwned'
  OBVIOUS
<1> USE DEF Typed, TypeOK
<1>1. ASSUME UNCHANGED <<state, owner>> PROVE InFlightOwned'
  BY <1>1 DEF InFlightOwned
<1>2. ASSUME NEW w \in Workers, ClaimCAS(w) PROVE InFlightOwned'
  BY <1>2, NoneAssumption DEF ClaimCAS, InFlightOwned
<1>3. ASSUME NEW w \in Workers, MoveWrite(w) PROVE InFlightOwned'
  <2>1. state[wjob[w]] \in InFlight /\ wjob[w] \in Jobs
    BY <1>3, MoveEnds, PlainMovesAre DEF MoveWrite, FenceHolds, LocalOK
  <2>2. \A k \in Jobs \ {wjob[w]} : state'[k] = state[k]
    BY <1>3 DEF MoveWrite
  <2>3. UNCHANGED owner
    BY <1>3 DEF MoveWrite
  <2> QED BY <2>1, <2>2, <2>3 DEF InFlightOwned
<1>4. ASSUME NEW w \in Workers, ReleaseWrite(w) PROVE InFlightOwned'
  <2>1. Targets(w) \cap InFlight = {} /\ wjob[w] \in Jobs
    BY <1>4, MoveEnds DEF ReleaseWrite, Release, FenceHolds, Releases, LocalOK
  <2>2. \E to \in Targets(w) : state' = [state EXCEPT ![wjob[w]] = to]
    BY <1>4 DEF ReleaseWrite
  <2>3. owner' = [owner EXCEPT ![wjob[w]] = NoWorker]
    BY <1>4 DEF ReleaseWrite, Release
  <2> QED BY <2>1, <2>2, <2>3 DEF InFlightOwned
<1>5. ASSUME NEW w \in Workers, FailWrite(w) \/ FinalWrite(w) PROVE InFlightOwned'
  BY ZenonT(40), <1>5 DEF FailWrite, FinalWrite, Release, LocalOK, FinalState, InFlightOwned, InFlight
<1>6. ASSUME NEW j \in Jobs, OperatorMove(j) \/ CancelStop(j) \/ SettleApproval(j) PROVE InFlightOwned'
  BY <1>6 DEF OperatorMove, OperatorTargets, CancelStop, SettleApproval, SettledStates, InFlightOwned, InFlight
<1>7. ASSUME NEW j \in Jobs, LeaseExpires(j) \/ Decide(j) PROVE InFlightOwned'
  BY <1>1, <1>7 DEF LeaseExpires, Decide, rowVars
<1>8. ASSUME NEW w \in Workers, HandlerStep(w) \/ JournalStep(w) PROVE InFlightOwned'
  BY <1>1, <1>8
  DEF HandlerStep, Precheck, ProbeAdopt, ProbeNoEffect, ProbeUnknown, DispatchEffect, DispatchNoEffect,
      Observe, Verify, OnCommit, JournalStep, ReserveIntent, ReserveRefused, ReadIntent, MarkUnconfirmed,
      SettleFailed, CommitIntent, JournalRefused, Raise, storeVars, rowVars
<1>9. ASSUME NEW w \in Workers, ClaimLost(w) \/ Crash(w) \/ RenewLease(w) \/ MoveRead(w) \/ MoveRefused(w) \/ MoveLost(w)
      PROVE InFlightOwned'
  BY <1>1, <1>9 DEF ClaimLost, Crash, RenewLease, MoveRead, MoveRefused, MoveLost, Raise, storeVars, rowVars
<1>10. ASSUME NEW w \in Workers, NEW j \in Jobs, ClaimRead(w, j) PROVE InFlightOwned'
  BY <1>1, <1>10 DEF ClaimRead, storeVars, rowVars
<1>11. CASE UNCHANGED vars
  BY <1>1, <1>11 DEF vars, storeVars, rowVars
<1> QED
  BY <1>2, <1>3, <1>4, <1>5, <1>6, <1>7, <1>8, <1>9, <1>10, <1>11
  DEF Next, WorkerNext, TickStep, MoveStep, JobNext

-----------------------------------------------------------------------------
(* What the holder of the current token knows. *)

Holders == HolderKnowsRow /\ HolderKnowsJournal

\* The steps of w on the store, when x holds the current token of another
\* lease: w either works on another job or its fence is refused.
LEMMA FencedApart ==
    ASSUME Typed, FenceExclusive, NEW x \in Workers, NEW w \in Workers \ {x},
           Current(x), Active(w), wtok[w] = token[wjob[w]]
    PROVE  wjob[w] # wjob[x]
  BY DEF FenceExclusive, Current

\* No step of anybody else disturbs what a current worker x knows.
LEMMA OthersKeepRow ==
    ASSUME Typed, FenceExclusive, InFlightOwned, Holders, [Next]_vars, NEW x \in Workers, Current(x)', ~TickStep(x)
    PROVE  /\ Current(x) /\ pc'[x] = pc[x] /\ wjob'[x] = wjob[x] /\ wtick'[x] = wtick[x]
           /\ state'[wjob[x]] = state[wjob[x]] \/ pc[x] = "toRescheduled"
           /\ tick'[wjob[x]] = tick[wjob[x]] /\ intent'[wjob[x]] = intent[wjob[x]]
<1> DEFINE j == wjob[x]
           Same == /\ pc'[x] = pc[x]
                   /\ state'[j] = state[j] \/ pc[x] = "toRescheduled"
                   /\ tick'[j] = tick[j] /\ intent'[j] = intent[j]
<1> USE DEF Typed
<1>0. Active(x) /\ wjob'[x] = wjob[x] /\ wtok'[x] = wtok[x] /\ wtick'[x] = wtick[x] /\ j \in Jobs
  BY TicksPersist DEF Current, LocalOK, Active, TickStep
<1>1. Current(x) \/ token'[j] # token[j]
  BY <1>0 DEF Current
<1>2. ASSUME NEW w \in Workers \ {x}, TickStep(w), ~ClaimCAS(w) PROVE Same
  <2>1. UNCHANGED token
    BY <1>2, TokensPersist DEF TickStep, MoveStep, JournalStep, HandlerStep, ClaimLost, MoveRead, MoveRefused,
       MoveLost, MoveWrite, ReleaseWrite, FailWrite, FinalWrite, Release, Raise, ReserveIntent, ReserveRefused,
       ReadIntent, MarkUnconfirmed, SettleFailed, CommitIntent, JournalRefused, Precheck, ProbeAdopt,
       ProbeNoEffect, ProbeUnknown, DispatchEffect, DispatchNoEffect, Observe, Verify, OnCommit, storeVars, rowVars
  <2>2. Current(x)
    BY <1>1, <2>1
  <2>3. CASE MoveStep(w)
    <3>1. Active(w) /\ pc'[x] = pc[x]
      BY <2>3, PlainMovesAre
      DEF MoveStep, MoveRead, MoveRefused, MoveLost, MoveWrite, ReleaseWrite, FailWrite, FinalWrite, Release,
          Raise, Forget, Releases, Active, TypeOK
    <3>2. CASE UNCHANGED storeVars
      BY <3>1, <3>2 DEF storeVars, rowVars, intentVars
    <3>3. CASE FenceHolds(w) /\ UNCHANGED intentVars /\ \A k \in Jobs \ {wjob[w]} : state'[k] = state[k] /\ tick'[k] = tick[k]
      BY <1>0, <2>2, <3>1, <3>3, FencedApart DEF FenceHolds, intentVars
    <3>4. CASE MoveWrite(w)
      BY <3>3, <3>4 DEF MoveWrite
    <3>5. CASE ReleaseWrite(w) \/ FailWrite(w) \/ FinalWrite(w)
      <4>1. FenceHolds(w) /\ UNCHANGED intentVars
        BY <3>5 DEF ReleaseWrite, FailWrite, FinalWrite, Release
      <4>2. \A k \in Jobs \ {wjob[w]} : state'[k] = state[k] /\ tick'[k] = tick[k]
        <5>1. \E v : state' = [state EXCEPT ![wjob[w]] = v]
          BY <3>5 DEF ReleaseWrite, FailWrite, FinalWrite
        <5>2. tick' = tick \/ tick' = [tick EXCEPT ![wjob[w]] = wtick[w]]
          BY <3>5 DEF ReleaseWrite, FailWrite, FinalWrite
        <5> QED BY <5>1, <5>2 DEF TypeOK
      <4> QED BY <3>3, <4>1, <4>2
    <3> QED
      BY <2>3, <3>2, <3>4, <3>5 DEF MoveStep, MoveRead, MoveRefused, MoveLost, Raise
  <2>4. CASE JournalStep(w)
    <3>1. Active(w) /\ pc'[x] = pc[x]
      BY <2>4
      DEF JournalStep, ReserveIntent, ReserveRefused, ReadIntent, MarkUnconfirmed, SettleFailed, CommitIntent,
          JournalRefused, Raise, Forget, Goto, Active, TypeOK
    <3>2. UNCHANGED <<state, tick>>
      BY <2>4
      DEF JournalStep, ReserveIntent, ReserveRefused, ReadIntent, MarkUnconfirmed, SettleFailed, CommitIntent,
          JournalRefused, Raise, storeVars, rowVars
    <3>3. CASE UNCHANGED intent
      BY <3>1, <3>2, <3>3
    <3>4. CASE wtok[w] = token[wjob[w]] /\ \E st \in IntentStatus : SetIntent(w, st)
      BY <1>0, <2>2, <3>1, <3>2, <3>4, FencedApart DEF SetIntent, TypeOK
    <3> QED
      BY <2>4, <3>3, <3>4
      DEF JournalStep, ReserveIntent, ReserveRefused, ReadIntent, MarkUnconfirmed, SettleFailed, CommitIntent,
          JournalRefused, Raise, storeVars, intentVars, ActiveFence, LiveFence, IntentStatus, Unsettled
  <2>5. CASE HandlerStep(w)
    BY <2>5 DEF HandlerStep, Precheck, ProbeAdopt, ProbeNoEffect, ProbeUnknown, DispatchEffect,
              DispatchNoEffect, Observe, Verify, OnCommit, Goto, TypeOK, storeVars, rowVars, intentVars
  <2>6. CASE ClaimLost(w)
    BY <2>6 DEF ClaimLost, Raise, Forget, TypeOK, storeVars, rowVars, intentVars
  <2> QED BY <1>2, <2>3, <2>4, <2>5, <2>6 DEF TickStep
<1>3. ASSUME NEW w \in Workers \ {x}, ClaimCAS(w) PROVE Same /\ Current(x)
  <2>1. wjob[w] # j
    <3>1. CASE wjob[w] = j
      <4>1. token'[j] = token[j] + 1 /\ token[j] \in Nat
        BY <1>0, <1>3, <3>1 DEF ClaimCAS, TypeOK
      <4>2. wtok[x] <= token[j] /\ wtok[x] \in Nat
        BY <1>0 DEF FenceExclusive, TypeOK
      <4> QED
        BY <1>0, <4>1, <4>2 DEF Current
    <3> QED BY <3>1
  <2>2. wjob[w] \in Jobs
    BY <1>3 DEF ClaimCAS, LocalOK
  <2> QED
    BY <1>0, <1>1, <1>3, <2>1, <2>2 DEF ClaimCAS, intentVars, TypeOK
<1>4. ASSUME NEW w \in Workers, Crash(w) \/ RenewLease(w) \/ \E k \in Jobs : ClaimRead(w, k) PROVE Same
  BY <1>0, <1>4 DEF Crash, RenewLease, ClaimRead, Raise, Forget, Active, TypeOK, storeVars, rowVars, intentVars, Current
<1>5. ASSUME NEW k \in Jobs, CancelStop(k) PROVE Same /\ Current(x)
  <2>1. k # j
    <3>1. CASE k = j
      <4>1. token'[j] = token[j] + 1 /\ token[j] \in Nat
        BY <1>0, <1>5, <3>1 DEF CancelStop, TypeOK
      <4>2. wtok[x] <= token[j] /\ wtok[x] \in Nat
        BY <1>0 DEF FenceExclusive, TypeOK
      <4> QED
        BY <1>0, <4>1, <4>2 DEF Current
    <3> QED BY <3>1
  <2> QED
    BY <1>0, <1>1, <1>5, <2>1 DEF CancelStop, intentVars, TypeOK
<1>6. ASSUME NEW k \in Jobs, JobNext(k), ~CancelStop(k) PROVE Same
  <2>1. UNCHANGED <<pc, token, tick, intent>>
    BY <1>6 DEF JobNext, LeaseExpires, OperatorMove, Decide, SettleApproval, workVars, rowVars, intentVars
  <2>2. Current(x)
    BY <1>1, <2>1
  <2>3. pc[x] = "toRescheduled" \/ state[j] \in InFlight
    BY <2>2 DEF Holders, HolderKnowsRow, ExpectedAt, InFlight
  <2>4. state[j] \in InFlight => state'[j] = state[j]
    <3>1. CASE UNCHANGED state
      BY <3>1
    <3>2. CASE OperatorMove(k)
      BY <1>0, <3>2 DEF OperatorMove, TypeOK, InFlightOwned
    <3>3. CASE SettleApproval(k)
      BY <1>0, <3>3 DEF SettleApproval, TypeOK, InFlight
    <3> QED BY <1>6, <3>1, <3>2, <3>3 DEF JobNext, LeaseExpires, Decide, rowVars
  <2> QED BY <2>1, <2>3, <2>4
<1>7. ASSUME UNCHANGED vars PROVE Same
  BY <1>7 DEF vars, storeVars, rowVars, intentVars, workVars
<1>8. Same
  BY <1>2, <1>3, <1>4, <1>5, <1>6, <1>7 DEF Next, WorkerNext
<1>9. Current(x)
  BY <1>0, <1>1, <1>3, <1>5, TokensPersist DEF TickStep
<1> QED BY <1>0, <1>8, <1>9

\* What HolderKnowsRow and HolderKnowsJournal say of one worker.
Knows(x) ==
    /\ wtick[x] = tick[wjob[x]] + 1
    /\ pc[x] = "toRescheduled" \/ state[wjob[x]] \in ExpectedAt(pc[x])
    /\ intent[wjob[x]][wtick[x]] \in JournalAt(pc[x])

\* A worker whose token is current knows its row and its journal entry.
LEMMA HoldersKnow == Holders <=> \A x \in Workers : Current(x) => Knows(x)
  BY DEF Holders, HolderKnowsRow, HolderKnowsJournal, Knows

\* A move takes the row to a state expected at the point run_tick goes on at,
\* and asks no more of the journal than was known before it.
LEMMA MovesAgree ==
    ASSUME NEW p \in PlainMoves, NEW to \in Move[p].to
    PROVE  /\ Move[p].then \in {"idle", "toRescheduled"} \/ to \in ExpectedAt(Move[p].then)
           /\ JournalAt(p) \subseteq JournalAt(Move[p].then)
  BY PlainMovesAre DEF Move, ExpectedAt, JournalAt, InFlight, IntentStatus, Unsettled

\* The steps of a tick leave its worker knowing what the next one relies on.
LEMMA OwnStepKnows ==
    ASSUME Typed, Holders, NEW x \in Workers, TickStep(x), Current(x)'
    PROVE  Knows(x)'
<1> DEFINE j == wjob[x]
<1> USE DEF Typed
<1>1. CASE ClaimCAS(x)
  <2>1. j \in Jobs /\ wtick'[x] = tick[j] + 1 /\ wjob'[x] = j /\ tick' = tick /\ intent' = intent
        /\ tick[j] + 1 \in Ticks
    BY SMTT(30), <1>1, BoundAssumption DEF ClaimCAS, LocalOK, TypeOK, intentVars, Ticks
  <2>2. \/ state'[j] = "LEASED" /\ pc'[x] = "toPrecheck"
        \/ state'[j] = "RECONCILING" /\ pc'[x] \in {"toPrecheck", "reconcile"}
    BY <1>1, <2>1 DEF ClaimCAS, TypeOK
  <2>3. intent[j][tick[j] + 1] \in IntentStatus
    BY <2>1 DEF TypeOK
  <2> QED BY <2>1, <2>2, <2>3 DEF Knows, ExpectedAt, JournalAt, InFlight
<1>2. CASE ~ClaimCAS(x)
  <2>1. Active(x) /\ wjob'[x] = j /\ wtok'[x] = wtok[x] /\ wtick'[x] = wtick[x] /\ j \in Jobs
        /\ pc'[x] # "idle" /\ wtick[x] \in Ticks
    <3>1. [Next]_vars
      BY DEF Next, WorkerNext
    <3> QED BY <1>2, <3>1, TicksPersist DEF Current, LocalOK, Active
  <2>2. ASSUME Forget(x) PROVE FALSE
    BY <2>1, <2>2 DEF Forget, TypeOK
  <2>3. UNCHANGED token
    BY <1>2 DEF TickStep, MoveStep, JournalStep, HandlerStep, ClaimLost, MoveRead, MoveRefused,
       MoveLost, MoveWrite, ReleaseWrite, FailWrite, FinalWrite, Release, Raise, ReserveIntent, ReserveRefused,
       ReadIntent, MarkUnconfirmed, SettleFailed, CommitIntent, JournalRefused, Precheck, ProbeAdopt,
       ProbeNoEffect, ProbeUnknown, DispatchEffect, DispatchNoEffect, Observe, Verify, OnCommit, storeVars, rowVars
  <2>4. Knows(x)
    BY <2>1, <2>3, HoldersKnow DEF Current
  <2>5. CASE MoveStep(x)
    <3>1. CASE MoveRead(x)
      BY <2>1, <2>4, <3>1 DEF MoveRead, Knows, storeVars, rowVars, intentVars, localVars
    <3>2. CASE MoveWrite(x)
      <4>1. PICK to \in Move[pc[x]].to : state' = [state EXCEPT ![j] = to]
        BY <3>2 DEF MoveWrite
      <4>2. pc[x] \in PlainMoves /\ Move[pc[x]].then # "idle" /\ pc'[x] = Move[pc[x]].then
        BY <2>2, <3>2 DEF MoveWrite, TypeOK
      <4>3. tick' = tick /\ intent' = intent /\ state'[j] = to
        BY <2>1, <3>2, <4>1 DEF MoveWrite, intentVars, TypeOK
      <4> QED BY <2>1, <2>4, <4>2, <4>3, MovesAgree DEF Knows
    <3>3. CASE MoveRefused(x) \/ MoveLost(x) \/ ReleaseWrite(x) \/ FailWrite(x) \/ FinalWrite(x)
      BY <2>2, <3>3 DEF MoveRefused, MoveLost, ReleaseWrite, FailWrite, FinalWrite, Release, Raise
    <3> QED BY <2>5, <3>1, <3>2, <3>3 DEF MoveStep
  <2>6. CASE JournalStep(x)
    <3>0. UNCHANGED <<state, tick>>
      BY <2>6
      DEF JournalStep, ReserveIntent, ReserveRefused, ReadIntent, MarkUnconfirmed, SettleFailed, CommitIntent,
          JournalRefused, Raise, storeVars, rowVars
    <3>1. CASE ReserveIntent(x)
      <4>1. CASE intent[j][wtick[x]] # "none"
        <5>1. intent' = intent /\ pc[x] = "reserve" /\ pc'[x] = "toReconciling"
          BY <2>1, <2>4, <3>1, <4>1 DEF ReserveIntent, Knows, JournalAt, Goto, TypeOK, intentVars
        <5> QED BY <2>1, <2>4, <3>0, <4>1, <5>1 DEF Knows, ExpectedAt, JournalAt
      <4>2. CASE intent[j][wtick[x]] = "none"
        <5>1. pc'[x] = "toRunning" /\ intent'[j][wtick[x]] = "INTENT" /\ pc[x] \in {"reserve", "reserveFresh"}
          BY <2>1, <3>1, <4>2 DEF ReserveIntent, Goto, SetIntent, TypeOK
        <5> QED BY <2>1, <2>4, <3>0, <5>1 DEF Knows, ExpectedAt, JournalAt, IntentStatus, Unsettled
      <4> QED BY <4>1, <4>2
    <3>2. CASE ReadIntent(x)
      <4>1. intent' = intent /\ pc[x] = "reconcile"
        BY <3>2 DEF ReadIntent, storeVars, intentVars
      <4>2. \/ intent[j][wtick[x]] = "none"      /\ pc'[x] = "toReadyFresh"
            \/ intent[j][wtick[x]] = "FAILED"    /\ pc'[x] = "toDeadLetter"
            \/ intent[j][wtick[x]] \in Unsettled /\ pc'[x] = "probe"
            \/ intent[j][wtick[x]] = "COMMITTED" /\ pc'[x] = "toAdopted"
        BY <3>2 DEF ReadIntent, Goto, TypeOK
      <4> QED BY <2>1, <2>4, <3>0, <4>1, <4>2 DEF Knows, ExpectedAt, JournalAt, IntentStatus, Unsettled
    <3>3. CASE MarkUnconfirmed(x)
      <4>1. pc[x] = "lostAck" /\ pc'[x] = "toUnknown" /\ SetIntent(x, "UNCONFIRMED")
        BY <2>2, <3>3 DEF MarkUnconfirmed, Goto, TypeOK
      <4>2. intent'[j][wtick[x]] = "UNCONFIRMED"
        BY <2>1, <4>1 DEF SetIntent, TypeOK
      <4> QED BY <2>1, <2>4, <3>0, <4>1, <4>2 DEF Knows, ExpectedAt, JournalAt, IntentStatus, Unsettled
    <3>4. CASE SettleFailed(x)
      <4>1. pc[x] = "settleFailed" /\ pc'[x] = "toDeadLetter" /\ SetIntent(x, "FAILED")
        BY <3>4 DEF SettleFailed, Goto, TypeOK
      <4>2. intent'[j][wtick[x]] = "FAILED"
        BY <2>1, <4>1 DEF SetIntent, TypeOK
      <4> QED BY <2>1, <2>4, <3>0, <4>1, <4>2 DEF Knows, ExpectedAt, JournalAt, IntentStatus, Unsettled
    <3>5. CASE CommitIntent(x)
      <4>1. pc[x] = "commit" /\ pc'[x] = "onCommit"
        BY <3>5 DEF CommitIntent, Goto, TypeOK
      <4>2. intent'[j][wtick[x]] = "COMMITTED"
        <5>1. intent[j][wtick[x]] \in Unsettled => SetIntent(x, "COMMITTED")
          BY <3>5 DEF CommitIntent
        <5>2. intent[j][wtick[x]] \notin Unsettled => intent' = intent
          BY <3>5 DEF CommitIntent, intentVars
        <5>3. intent[j][wtick[x]] \in Unsettled \cup {"COMMITTED"}
          BY <2>4, <4>1 DEF Knows, JournalAt
        <5> QED BY <2>1, <5>1, <5>2, <5>3 DEF SetIntent, TypeOK
      <4> QED BY <2>1, <2>4, <3>0, <4>1, <4>2 DEF Knows, ExpectedAt, JournalAt, IntentStatus
    <3>6. CASE ReserveRefused(x) \/ JournalRefused(x)
      BY <2>2, <3>6 DEF ReserveRefused, JournalRefused, Raise
    <3> QED BY <2>6, <3>1, <3>2, <3>3, <3>4, <3>5, <3>6 DEF JournalStep
  <2>7. CASE HandlerStep(x)
    <3>1. UNCHANGED <<state, tick, intent>>
      BY <2>7 DEF HandlerStep, Precheck, ProbeAdopt, ProbeNoEffect, ProbeUnknown, DispatchEffect,
        DispatchNoEffect, Observe, Verify, OnCommit, storeVars, rowVars, intentVars
    <3>2. \/ pc[x] = "precheck" /\ pc'[x] \in {"toReady", "toBlocked"}
          \/ pc[x] = "probe"    /\ pc'[x] \in {"toAdopted", "toReadyRedo", "settleFailed", "unconfirmed"}
          \/ pc[x] = "dispatch" /\ pc'[x] \in {"toObserving", "lostAck", "toBlocked", "fail"}
          \/ pc[x] = "observe"  /\ pc'[x] \in {"toVerifying", "toInconclusive"}
          \/ pc[x] = "verify"   /\ pc'[x] \in {"toCommitting", "toInconclusive", "fail"}
          \/ pc[x] = "onCommit" /\ pc'[x] = "toFinal"
      BY <2>7 DEF HandlerStep, Precheck, ProbeAdopt, ProbeNoEffect, ProbeUnknown, DispatchEffect,
        DispatchNoEffect, Observe, Verify, OnCommit, Goto, TypeOK
    <3> QED BY <2>1, <2>4, <3>1, <3>2 DEF Knows, ExpectedAt, JournalAt, IntentStatus, Unsettled
  <2>8. CASE ClaimLost(x)
    BY <2>2, <2>8 DEF ClaimLost, Raise
  <2> QED BY <1>2, <2>5, <2>6, <2>7, <2>8 DEF TickStep
<1> QED BY <1>1, <1>2

\* The strengthening under which what the holder knows is inductive.
IInv == Typed /\ FenceExclusive /\ ReadsLegal /\ InFlightOwned /\ Holders

\* It holds of the initial state.
LEMMA InitIInv == Init => IInv
<1> SUFFICES ASSUME Init PROVE IInv
  OBVIOUS
<1>1. \A w \in Workers : pc[w] = "idle" /\ rd[w] = "unread"
  BY DEF Init
<1>2. \A j \in Jobs : state[j] \notin InFlight
  BY DEF Init, InFlight
<1> QED
  BY <1>1, <1>2, InitTyped
  DEF IInv, FenceExclusive, Active, ReadsLegal, InFlightOwned, Holders, HolderKnowsRow, HolderKnowsJournal, Current

\* Every step keeps it.
LEMMA NextIInv == IInv /\ [Next]_vars => IInv'
<1> SUFFICES ASSUME IInv, [Next]_vars PROVE IInv'
  OBVIOUS
<1>1. Typed' /\ FenceExclusive' /\ ReadsLegal' /\ InFlightOwned'
  BY NextTyped, NextFence, NextReadsLegal, NextOwned DEF IInv
<1>2. ASSUME NEW x \in Workers, Current(x)' PROVE Knows(x)'
  <2>1. CASE TickStep(x)
    BY <1>2, <2>1, OwnStepKnows DEF IInv
  <2>2. CASE ~TickStep(x)
    BY <1>2, <2>2, OthersKeepRow, HoldersKnow DEF IInv, Knows
  <2> QED BY <2>1, <2>2
<1>3. Holders'
  BY <1>2 DEF Holders, HolderKnowsRow, HolderKnowsJournal, Knows
<1> QED BY <1>1, <1>3 DEF IInv

\* IInv, of every reachable state.
LEMMA IInvHolds == Spec => []IInv
  BY InitIInv, NextIInv, PTL DEF Spec

\* HolderKnowsRow: the row a current worker acts on is where run_tick left it.
THEOREM RowCorrect == Spec => []HolderKnowsRow
<1>1. IInv => HolderKnowsRow
  BY DEF IInv, Holders
<1> QED BY <1>1, IInvHolds, PTL

\* HolderKnowsJournal: and the journal entry of its tick is what it read.
THEOREM JournalCorrect == Spec => []HolderKnowsJournal
<1>1. IInv => HolderKnowsJournal
  BY DEF IInv, Holders
<1> QED BY <1>1, IInvHolds, PTL

-----------------------------------------------------------------------------
(* The journal, the tick counter and the stop. *)

\* Who may write the journal, and how: a new intent under a live lease, a
\* status for an unsettled one under an active fence, and nothing else.
JournalWrite(w) ==
    /\ Active(w) /\ wjob[w] \in Jobs /\ wtick[w] \in Ticks
    /\ wtok[w] = token[wjob[w]] /\ state[wjob[w]] \in InFlight
    /\ UNCHANGED <<state, tick, token, attempts>>
    /\ \/ /\ intent[wjob[w]][wtick[w]] = "none" /\ SetIntent(w, "INTENT")
          /\ UNCHANGED receipt
       \/ /\ intent[wjob[w]][wtick[w]] \in Unsettled
          /\ \E st \in {"UNCONFIRMED", "FAILED"} : SetIntent(w, st)
          /\ UNCHANGED receipt
       \/ /\ intent[wjob[w]][wtick[w]] \in Unsettled
          /\ pc[w] = "commit" /\ SetIntent(w, "COMMITTED")
          /\ receipt' = [receipt EXCEPT ![wjob[w]][wtick[w]] = obs[w]]

\* No step writes the journal in another way.
LEMMA JournalWrites ==
    ASSUME Typed, [Next]_vars
    PROVE  UNCHANGED <<intent, receipt>> \/ \E w \in Workers : JournalWrite(w)
<1> USE DEF Typed
<1>1. ASSUME NEW w \in Workers, JournalStep(w) PROVE UNCHANGED <<intent, receipt>> \/ JournalWrite(w)
  <2>1. Active(w) /\ wjob[w] \in Jobs /\ wtick[w] \in Ticks /\ UNCHANGED <<state, tick, token, attempts>>
    BY <1>1
    DEF JournalStep, ReserveIntent, ReserveRefused, ReadIntent, MarkUnconfirmed, SettleFailed, CommitIntent,
        JournalRefused, Raise, storeVars, rowVars, LocalOK, Active
  <2>2. CASE ReserveIntent(w)
    BY <2>1, <2>2 DEF ReserveIntent, LiveFence, JournalWrite, intentVars
  <2>3. CASE MarkUnconfirmed(w) \/ SettleFailed(w)
    BY <2>1, <2>3 DEF MarkUnconfirmed, SettleFailed, ActiveFence, JournalWrite
  <2>4. CASE CommitIntent(w)
    BY <2>1, <2>4 DEF CommitIntent, ActiveFence, JournalWrite, intentVars
  <2>5. CASE ReserveRefused(w) \/ ReadIntent(w) \/ JournalRefused(w)
    BY <2>5 DEF ReserveRefused, ReadIntent, JournalRefused, Raise, storeVars, intentVars
  <2> QED BY <1>1, <2>2, <2>3, <2>4, <2>5 DEF JournalStep
<1>2. ASSUME NEW w \in Workers, MoveStep(w) \/ HandlerStep(w) PROVE UNCHANGED <<intent, receipt>>
  BY <1>2 DEF MoveStep, MoveRead, MoveRefused, MoveLost, MoveWrite, ReleaseWrite, FailWrite, FinalWrite, Release,
     Raise, HandlerStep, Precheck, ProbeAdopt, ProbeNoEffect, ProbeUnknown, DispatchEffect, DispatchNoEffect,
     Observe, Verify, OnCommit, storeVars, intentVars
<1>3. ASSUME NEW w \in Workers, WorkerNext(w), ~JournalStep(w) PROVE UNCHANGED <<intent, receipt>>
  BY <1>2, <1>3 DEF WorkerNext, TickStep, ClaimRead, ClaimCAS, ClaimLost, Crash, RenewLease, Raise, storeVars, intentVars
<1>4. ASSUME NEW j \in Jobs, JobNext(j) PROVE UNCHANGED <<intent, receipt>>
  BY <1>4 DEF JobNext, LeaseExpires, OperatorMove, CancelStop, Decide, SettleApproval, intentVars
<1> QED BY <1>1, <1>3, <1>4 DEF Next, vars, storeVars, intentVars

\* An intent that exists never disappears, and a committed one never changes.
LEMMA IntentsStay ==
    ASSUME Typed, [Next]_vars, NEW j \in Jobs, NEW t \in Ticks
    PROVE  /\ intent[j][t] # "none" => intent'[j][t] # "none"
           /\ intent[j][t] = "COMMITTED" => intent'[j][t] = "COMMITTED"
<1>1. ASSUME NEW w \in Workers, NEW st \in {"INTENT", "UNCONFIRMED", "FAILED", "COMMITTED"}, SetIntent(w, st),
             wjob[w] \in Jobs, wtick[w] \in Ticks, intent[wjob[w]][wtick[w]] # "COMMITTED"
      PROVE  /\ intent[j][t] # "none" => intent'[j][t] # "none"
             /\ intent[j][t] = "COMMITTED" => intent'[j][t] = "COMMITTED"
  BY <1>1 DEF SetIntent, Typed, TypeOK
<1>2. ASSUME NEW w \in Workers, JournalWrite(w)
      PROVE  \E st \in {"INTENT", "UNCONFIRMED", "FAILED", "COMMITTED"} :
                /\ SetIntent(w, st) /\ wjob[w] \in Jobs /\ wtick[w] \in Ticks
                /\ intent[wjob[w]][wtick[w]] # "COMMITTED"
  BY <1>2 DEF JournalWrite, Unsettled
<1> QED BY <1>1, <1>2, JournalWrites

\* Who may write the row of a job, and how: every write but the end of a tick
\* follows a legal edge, and the end of a tick is made by a current worker
\* from COMMITTING over a committed intent.
RowWrite(j) ==
    \/ \E to \in Edges(state[j]) : state' = [state EXCEPT ![j] = to] /\ UNCHANGED <<tick, intent, receipt>>
    \/ \E w \in Workers :
          /\ wjob[w] = j /\ Current(w) /\ state[j] = "COMMITTING" /\ wtick[w] = tick[j] + 1
          /\ wtick[w] \in Ticks /\ intent[j][wtick[w]] = "COMMITTED"
          /\ state' = [state EXCEPT ![j] = FinalState(j)]
          /\ tick' = [tick EXCEPT ![j] = wtick[w]]
          /\ UNCHANGED <<intent, receipt>>

\* A move whose fence holds is made from a state with the edge it takes, and
\* so never from STOPPED.
LEMMA MoveIsLegal ==
    ASSUME IInv, NEW w \in Workers, pc[w] \in PlainMoves \cup Releases, FenceHolds(w)
    PROVE  /\ Targets(w) \subseteq Edges(state[wjob[w]]) /\ wjob[w] \in Jobs
           /\ Targets(w) # {} /\ Current(w)
<1>1. pc[w] \in PlainMoves => Targets(w) # {}
  BY MoveType, PlainMovesAre DEF Targets, Move
<1>2. pc[w] \in Releases => Targets(w) # {}
  BY DEF Releases, Targets, Blocked, FinalState, RunState, Claimable
<1>3. Active(w)
  BY PlainMovesAre DEF Releases, Active
<1> QED BY <1>1, <1>2, <1>3 DEF IInv, ReadsLegal, FenceHolds, Current, Typed, LocalOK, Active

\* Every step writes the row of one job so, or no row at all.
LEMMA RowWrites ==
    ASSUME IInv, [Next]_vars
    PROVE  UNCHANGED <<state, tick>> \/ \E j \in Jobs : RowWrite(j)
<1> USE DEF IInv
<1>1. ASSUME NEW w \in Workers, ClaimCAS(w) PROVE RowWrite(wjob[w]) /\ wjob[w] \in Jobs
  <2>1. wjob[w] \in Jobs
    BY <1>1 DEF ClaimCAS, Typed, LocalOK
  <2>2. state[wjob[w]] \in Claimable \cup InFlight
    BY <1>1 DEF ClaimCAS, ReadsLegal
  <2>3. state[wjob[w]] \in InFlight => "RECONCILING" \in Edges(state[wjob[w]])
    BY DEF InFlight, Edges, DeclaredEdges, RunState
  <2>4. state[wjob[w]] \in Claimable => "LEASED" \in Edges(state[wjob[w]])
    BY DEF Claimable, Edges, DeclaredEdges, RunState, InFlight
  <2> QED BY <1>1, <2>1, <2>2, <2>3, <2>4 DEF ClaimCAS, RowWrite, intentVars
<1>2. ASSUME NEW w \in Workers, MoveWrite(w) PROVE RowWrite(wjob[w]) /\ wjob[w] \in Jobs
  <2>1. pc[w] \in PlainMoves /\ FenceHolds(w) /\ UNCHANGED <<tick, intent, receipt>>
    BY <1>2 DEF MoveWrite, intentVars
  <2>2. Move[pc[w]].to \subseteq Targets(w)
    BY <2>1, MoveType DEF Targets
  <2>3. \E to \in Move[pc[w]].to : state' = [state EXCEPT ![wjob[w]] = to]
    BY <1>2 DEF MoveWrite
  <2> QED BY <2>1, <2>2, <2>3, MoveIsLegal DEF RowWrite
<1>3. ASSUME NEW w \in Workers, ReleaseWrite(w) PROVE RowWrite(wjob[w]) /\ wjob[w] \in Jobs
  <2>1. pc[w] \in Releases /\ FenceHolds(w) /\ UNCHANGED <<tick, intent, receipt>>
    BY <1>3 DEF ReleaseWrite, Release, Releases, intentVars
  <2>2. \E to \in Targets(w) : state' = [state EXCEPT ![wjob[w]] = to]
    BY <1>3 DEF ReleaseWrite
  <2> QED BY <2>1, <2>2, MoveIsLegal DEF RowWrite
<1>4. ASSUME NEW w \in Workers, FailWrite(w) PROVE RowWrite(wjob[w]) /\ wjob[w] \in Jobs
  <2>1. pc[w] = "fail" /\ FenceHolds(w) /\ UNCHANGED <<tick, intent, receipt>>
    BY <1>4 DEF FailWrite, Release, intentVars
  <2>2. {"RETRY_PENDING", "DEAD_LETTER"} \subseteq Targets(w)
    BY <2>1 DEF Targets, RunState, Claimable
  <2>3. \E to \in {"RETRY_PENDING", "DEAD_LETTER"} : state' = [state EXCEPT ![wjob[w]] = to]
    BY <1>4 DEF FailWrite
  <2> QED BY <2>1, <2>2, <2>3, MoveIsLegal DEF RowWrite, Releases
<1>5. ASSUME NEW w \in Workers, FinalWrite(w) PROVE RowWrite(wjob[w]) /\ wjob[w] \in Jobs
  <2>1. pc[w] = "toFinal" /\ FenceHolds(w) /\ UNCHANGED <<intent, receipt>>
    BY <1>5 DEF FinalWrite, Release, intentVars
  <2>2. Current(w) /\ wjob[w] \in Jobs
    BY <2>1, MoveIsLegal DEF Releases
  <2>3. Knows(w) /\ wtick[w] \in Ticks
    BY <2>2, HoldersKnow DEF Current, Typed, LocalOK
  <2>4. state[wjob[w]] = "COMMITTING" /\ intent[wjob[w]][wtick[w]] = "COMMITTED" /\ wtick[w] = tick[wjob[w]] + 1
    BY <2>1, <2>3 DEF Knows, ExpectedAt, JournalAt
  <2> QED BY <1>5, <2>1, <2>2, <2>3, <2>4 DEF FinalWrite, RowWrite
<1>6. ASSUME NEW j \in Jobs, OperatorMove(j) \/ CancelStop(j) PROVE RowWrite(j)
  BY <1>6 DEF OperatorMove, CancelStop, RowWrite, intentVars
<1>7. ASSUME NEW j \in Jobs, SettleApproval(j) PROVE RowWrite(j)
  <2>1. {"SCHEDULED", "DORMANT", "STOPPED"} \subseteq Edges(state[j])
    BY <1>7 DEF SettleApproval, Edges, DeclaredEdges, RunState, Claimable
  <2>2. \E to \in {"SCHEDULED", "DORMANT", "STOPPED"} : state' = [state EXCEPT ![j] = to]
    BY <1>7 DEF SettleApproval, SettledStates
  <2> QED BY <1>7, <2>1, <2>2 DEF SettleApproval, RowWrite, intentVars
<1>8. ASSUME NEW j \in Jobs, LeaseExpires(j) \/ Decide(j) PROVE UNCHANGED <<state, tick>>
  BY <1>8 DEF LeaseExpires, Decide, rowVars
<1>9. ASSUME NEW w \in Workers, HandlerStep(w) \/ JournalStep(w) PROVE UNCHANGED <<state, tick>>
  BY <1>9
  DEF HandlerStep, Precheck, ProbeAdopt, ProbeNoEffect, ProbeUnknown, DispatchEffect, DispatchNoEffect,
      Observe, Verify, OnCommit, JournalStep, ReserveIntent, ReserveRefused, ReadIntent, MarkUnconfirmed,
      SettleFailed, CommitIntent, JournalRefused, Raise, storeVars, rowVars
<1>10. ASSUME NEW w \in Workers, ClaimLost(w) \/ Crash(w) \/ RenewLease(w) \/ MoveRead(w) \/ MoveRefused(w)
              \/ MoveLost(w) \/ \E j \in Jobs : ClaimRead(w, j)
       PROVE UNCHANGED <<state, tick>>
  BY <1>10 DEF ClaimLost, Crash, RenewLease, MoveRead, MoveRefused, MoveLost, ClaimRead, Raise, storeVars, rowVars
<1>11. CASE UNCHANGED vars
  BY <1>11 DEF vars, storeVars, rowVars
<1> QED
  BY <1>1, <1>2, <1>3, <1>4, <1>5, <1>6, <1>7, <1>8, <1>9, <1>10, <1>11
  DEF Next, WorkerNext, TickStep, MoveStep, JobNext

\* CountedTicksCommitted is inductive relative to IInv.
LEMMA NextCounted == IInv /\ CountedTicksCommitted /\ [Next]_vars => CountedTicksCommitted'
<1> SUFFICES ASSUME IInv, CountedTicksCommitted, [Next]_vars, NEW j \in Jobs, NEW t \in Ticks, t <= tick'[j]
             PROVE  intent'[j][t] = "COMMITTED"
  BY DEF CountedTicksCommitted
<1>0. Typed
  BY DEF IInv
<1>1. t \in Nat /\ tick[j] \in Nat
  BY <1>0, BoundAssumption DEF Typed, TypeOK, Ticks
<1>2. CASE t <= tick[j]
  BY <1>0, <1>1, <1>2, IntentsStay DEF CountedTicksCommitted
<1>3. CASE ~(t <= tick[j])
  <2>1. PICK k \in Jobs : RowWrite(k)
    BY <1>3, RowWrites
  <2>2. PICK w \in Workers : /\ wtick[w] = tick[k] + 1 /\ intent[k][wtick[w]] = "COMMITTED"
                             /\ tick' = [tick EXCEPT ![k] = wtick[w]]
    BY <1>3, <2>1 DEF RowWrite
  <2>3. k = j /\ t = wtick[w]
    BY <1>0, <1>1, <1>3, <2>2 DEF Typed, TypeOK
  <2> QED BY <1>0, <1>1, <2>2, <2>3, IntentsStay
<1> QED BY <1>2, <1>3

\* CountedTicksCommitted: no tick is counted that the journal does not know as
\* committed, whoever crashed and whoever took over.
THEOREM CountedCorrect == Spec => []CountedTicksCommitted
<1>1. Init => CountedTicksCommitted
  BY BoundAssumption DEF Init, CountedTicksCommitted, Ticks
<1> QED
  BY <1>1, InitIInv, NextIInv, NextCounted, PTL DEF Spec

\* ExpiredLeaseIsDead: only a claim brings a job under a live lease again.
THEOREM LeaseCorrect == Spec => ExpiredLeaseIsDead
<1>1. ASSUME Typed, [Next]_vars PROVE [\A j \in Jobs : ~live[j] /\ live'[j] => token'[j] = token[j] + 1]_vars
  <2> SUFFICES ASSUME NEW j \in Jobs, ~live[j], live'[j] PROVE token'[j] = token[j] + 1
    OBVIOUS
  <2> USE <1>1 DEF Typed, TypeOK
  <2>1. ASSUME NEW w \in Workers, ClaimCAS(w) PROVE token'[j] = token[j] + 1
    BY <2>1 DEF ClaimCAS, LocalOK
  <2>2. ASSUME NEW w \in Workers, MoveStep(w) PROVE FALSE
    BY <2>2 DEF MoveStep, MoveRead, MoveRefused, MoveLost, MoveWrite, ReleaseWrite, FailWrite, FinalWrite,
       Release, Raise, storeVars, rowVars
  <2>3. ASSUME NEW w \in Workers, JournalStep(w) \/ HandlerStep(w) PROVE FALSE
    BY <2>3 DEF JournalStep, HandlerStep, ReserveIntent, ReserveRefused, ReadIntent, MarkUnconfirmed, SettleFailed,
       CommitIntent, JournalRefused, Raise, Precheck, ProbeAdopt, ProbeNoEffect, ProbeUnknown, DispatchEffect,
       DispatchNoEffect, Observe, Verify, OnCommit, storeVars, rowVars
  <2>4. ASSUME NEW w \in Workers, ClaimLost(w) \/ Crash(w) \/ RenewLease(w) \/ \E k \in Jobs : ClaimRead(w, k) PROVE FALSE
    BY <2>4 DEF ClaimLost, Crash, RenewLease, ClaimRead, Raise, storeVars, rowVars
  <2>5. ASSUME NEW k \in Jobs, JobNext(k) PROVE FALSE
    BY <2>5 DEF JobNext, LeaseExpires, OperatorMove, CancelStop, Decide, SettleApproval, rowVars
  <2> QED BY <1>1, <2>1, <2>2, <2>3, <2>4, <2>5 DEF Next, WorkerNext, TickStep, vars, storeVars, rowVars
<1> QED BY <1>1, InitTyped, NextTyped, PTL DEF Spec, ExpiredLeaseIsDead

\* StopIsFinal: neither the row nor the journal of a stopped job changes.
THEOREM StopCorrect == Spec => StopIsFinal
<1> DEFINE Still(j) == /\ state'[j] = "STOPPED" /\ tick'[j] = tick[j] /\ token'[j] = token[j]
                       /\ attempts'[j] = attempts[j]
                       /\ intent'[j] = intent[j] /\ receipt'[j] = receipt[j]
<1>1. ASSUME IInv, [Next]_vars, NEW j \in Jobs, state[j] = "STOPPED" PROVE Still(j)
  <2>0. Typed
    BY <1>1 DEF IInv
  <2>1. Edges(state[j]) = {} /\ state[j] \notin Claimable \cup InFlight
    BY <1>1 DEF Edges, DeclaredEdges, InFlight, Claimable, Blocked
  <2>2. state'[j] = "STOPPED" /\ tick'[j] = tick[j]
    <3>1. ASSUME NEW k \in Jobs, RowWrite(k) PROVE state'[j] = state[j] /\ tick'[j] = tick[j]
      <4>1. k # j
        BY <1>1, <2>1, <3>1 DEF RowWrite
      <4>2. state' = [state EXCEPT ![k] = state'[k]] /\ tick' = [tick EXCEPT ![k] = tick'[k]]
        <5>1. CASE \E to \in Edges(state[k]) : state' = [state EXCEPT ![k] = to] /\ UNCHANGED tick
          BY <2>0, <5>1 DEF Typed, TypeOK
        <5>2. CASE \E w \in Workers : state' = [state EXCEPT ![k] = FinalState(k)] /\ tick' = [tick EXCEPT ![k] = wtick[w]]
          BY <2>0, <5>2 DEF Typed, TypeOK
        <5> QED BY <3>1, <5>1, <5>2 DEF RowWrite
      <4> QED BY <2>0, <4>1, <4>2 DEF Typed, TypeOK
    <3> QED BY <1>1, <3>1, RowWrites
  <2>3. intent'[j] = intent[j] /\ receipt'[j] = receipt[j]
    <3>1. ASSUME NEW w \in Workers, JournalWrite(w) PROVE intent'[j] = intent[j] /\ receipt'[j] = receipt[j]
      <4>1. wjob[w] # j
        BY <2>1, <3>1 DEF JournalWrite
      <4>2. \E st : SetIntent(w, st)
        BY <3>1 DEF JournalWrite
      <4>3. receipt' = receipt \/ receipt' = [receipt EXCEPT ![wjob[w]][wtick[w]] = obs[w]]
        BY <3>1 DEF JournalWrite
      <4> QED BY <2>0, <4>1, <4>2, <4>3 DEF SetIntent, Typed, TypeOK
    <3> QED BY <1>1, <2>0, <3>1, JournalWrites
  <2>4. token'[j] = token[j]
    <3>1. ASSUME NEW w \in Workers, ClaimCAS(w) PROVE token'[j] = token[j]
      BY <1>1, <2>0, <2>1, <3>1 DEF ClaimCAS, IInv, ReadsLegal, Typed, TypeOK
    <3>2. ASSUME NEW k \in Jobs, CancelStop(k) PROVE token'[j] = token[j]
      BY <1>1, <2>0, <2>1, <3>2 DEF CancelStop, Typed, TypeOK
    <3> QED BY <1>1, <2>0, <3>1, <3>2, TokensPersist
  <2>5. attempts'[j] = attempts[j]
    <3>1. ASSUME NEW w \in Workers, FailWrite(w) \/ FinalWrite(w) PROVE attempts'[j] = attempts[j]
      <4>1. pc[w] \in PlainMoves \cup Releases /\ FenceHolds(w)
        BY <3>1 DEF FailWrite, FinalWrite, Release, Releases
      <4>2. wjob[w] # j
        BY <1>1, <2>1, <4>1, MoveIsLegal
      <4>3. \E v : attempts' = [attempts EXCEPT ![wjob[w]] = v]
        BY <3>1 DEF FailWrite, FinalWrite
      <4> QED BY <2>0, <4>2, <4>3 DEF Typed, TypeOK
    <3>2. ASSUME NEW w \in Workers, WorkerNext(w), ~FailWrite(w), ~FinalWrite(w) PROVE attempts' = attempts
      BY <3>2 DEF WorkerNext, TickStep, MoveStep, HandlerStep, JournalStep, ClaimRead, ClaimCAS, ClaimLost, Crash,
         RenewLease, MoveRead, MoveRefused, MoveLost, MoveWrite, ReleaseWrite, Raise, Precheck, ProbeAdopt,
         ProbeNoEffect, ProbeUnknown, DispatchEffect, DispatchNoEffect, Observe, Verify, OnCommit, ReserveIntent,
         ReserveRefused, ReadIntent, MarkUnconfirmed, SettleFailed, CommitIntent, JournalRefused, storeVars, rowVars
    <3>3. ASSUME NEW k \in Jobs, JobNext(k) PROVE attempts' = attempts
      BY <3>3 DEF JobNext, LeaseExpires, OperatorMove, CancelStop, Decide, SettleApproval, rowVars
    <3> QED BY <1>1, <3>1, <3>2, <3>3 DEF Next, vars, storeVars, rowVars
  <2> QED BY <2>2, <2>3, <2>4, <2>5
<1>2. IInv /\ [Next]_vars => [\A j \in Jobs : state[j] = "STOPPED" => Still(j)]_vars
  BY <1>1
<1> QED BY <1>2, InitIInv, NextIInv, PTL DEF Spec, StopIsFinal

-----------------------------------------------------------------------------
(* Stopped render jobs. *)

\* Nothing is accepted for a stopped render job: its handler writes candidates
\* and opens approvals only behind _active_fence, which a stop has revoked,
\* and a decision never reopens an approval.
THEOREM LateRenderCorrect == Spec => StoppedRenderAcceptsNothing
<1> DEFINE Nothing(j) == /\ effects'[j] = effects[j]
                         /\ \A v \in 1..MaxToken : approval'[j][v] = "pending" => approval[j][v] = "pending"
<1>1. ASSUME IInv, [Next]_vars, NEW j \in RenderJobs, j \in Jobs, state[j] = "STOPPED" PROVE Nothing(j)
  <2>0. Typed /\ state[j] \notin InFlight
    BY <1>1 DEF IInv, InFlight
  <2>1. CASE UNCHANGED <<effects, approval>>
    BY <2>1
  <2>2. ASSUME NEW w \in Workers, DispatchEffect(w) PROVE Nothing(j)
    <3>1. wjob[w] # j
      BY <1>1, <2>0, <2>2 DEF DispatchEffect, HandlerFence, ActiveFence
    <3>2. effects' = [effects EXCEPT ![wjob[w]] = Append(@, wtick[w])] /\ UNCHANGED approval
      BY <2>2 DEF DispatchEffect
    <3> QED BY <1>1, <2>0, <3>1, <3>2 DEF Typed, TypeOK
  <2>3. ASSUME NEW w \in Workers, OnCommit(w) PROVE Nothing(j)
    <3>1. wjob[w] # j
      BY <1>1, <2>0, <2>3 DEF OnCommit, HandlerFence, ActiveFence
    <3>2. UNCHANGED effects /\ (approval' = approval \/ \E a : approval' = [approval EXCEPT ![wjob[w]] = a])
      BY <2>3 DEF OnCommit
    <3> QED BY <1>1, <2>0, <3>1, <3>2 DEF Typed, TypeOK
  <2>4. ASSUME NEW k \in Jobs, Decide(k) PROVE Nothing(j)
    <3>1. PICK v \in 1..MaxToken : approval' = [approval EXCEPT ![k][v] = "decided"]
      BY <2>4 DEF Decide
    <3>2. UNCHANGED effects
      BY <2>4 DEF Decide
    <3> QED BY <1>1, <2>0, <3>1, <3>2 DEF Typed, TypeOK
  <2>5. ASSUME NEW w \in Workers, WorkerNext(w), ~DispatchEffect(w), ~OnCommit(w) PROVE UNCHANGED <<effects, approval>>
    BY <2>5 DEF WorkerNext, TickStep, MoveStep, HandlerStep, JournalStep, ClaimRead, ClaimCAS, ClaimLost, Crash,
       RenewLease, MoveRead, MoveRefused, MoveLost, MoveWrite, ReleaseWrite, FailWrite, FinalWrite, Release, Raise,
       Precheck, ProbeAdopt, ProbeNoEffect, ProbeUnknown, DispatchNoEffect, Observe, Verify, ReserveIntent,
       ReserveRefused, ReadIntent, MarkUnconfirmed, SettleFailed, CommitIntent, JournalRefused, storeVars, artVars
  <2>6. ASSUME NEW k \in Jobs, JobNext(k), ~Decide(k) PROVE UNCHANGED <<effects, approval>>
    BY <2>6 DEF JobNext, LeaseExpires, OperatorMove, CancelStop, SettleApproval, artVars
  <2> QED BY <1>1, <2>1, <2>2, <2>3, <2>4, <2>5, <2>6 DEF Next, vars, storeVars, artVars
<1>2. IInv /\ [Next]_vars => [\A j \in RenderJobs : state[j] = "STOPPED" => Nothing(j)]_vars
  BY <1>1, KindAssumption
<1> QED BY <1>2, InitIInv, NextIInv, PTL DEF Spec, StoppedRenderAcceptsNothing

-----------------------------------------------------------------------------
(* The effects. *)

\* A worker that is about to render has an intent in the journal, current or
\* not: no step takes an intent away again.
Reserved ==
    \A w \in Workers : pc[w] \in {"probe", "toReadyRedo", "toRunning", "dispatch"}
                          => intent[wjob[w]][wtick[w]] # "none"

\* Reserved and EffectsFollowIntent are inductive together.
LEMMA NextReserved ==
    Typed /\ Reserved /\ EffectsFollowIntent /\ [Next]_vars => Reserved' /\ EffectsFollowIntent'
<1> SUFFICES ASSUME Typed, Reserved, EffectsFollowIntent, [Next]_vars PROVE Reserved' /\ EffectsFollowIntent'
  OBVIOUS
<1> DEFINE Late == {"probe", "toReadyRedo", "toRunning", "dispatch"}
<1>1. \A j \in Jobs, t \in Ticks : intent[j][t] # "none" => intent'[j][t] # "none"
  BY IntentsStay
<1>2. ASSUME NEW x \in Workers, pc'[x] \in Late
      PROVE  intent'[wjob'[x]][wtick'[x]] # "none"
  <2>0. Active(x)' /\ ~ClaimCAS(x)
    BY <1>2, PlainMovesAre DEF Active, ClaimCAS, Typed, TypeOK
  <2>1. wjob'[x] = wjob[x] /\ wtick'[x] = wtick[x] /\ wjob[x] \in Jobs /\ wtick[x] \in Ticks
    BY <2>0, TicksPersist DEF Typed, LocalOK, Active
  <2>2. CASE pc[x] \in Late
    BY <1>1, <2>1, <2>2 DEF Reserved
  <2>3. ASSUME pc[x] \notin Late, intent[wjob[x]][wtick[x]] = "none"
        PROVE  intent'[wjob[x]][wtick[x]] # "none"
    <3>0. pc'[x] # pc[x] /\ pc'[x] # "idle"
      BY <1>2, <2>3
    <3>1. ASSUME NEW w \in Workers, MoveStep(w) PROVE FALSE
      <4>1. CASE MoveWrite(w)
        <5>1. w = x
          BY <3>0, <4>1 DEF MoveWrite, Forget, Typed, TypeOK
        <5>2. pc'[x] = "idle" \/ pc'[x] = Move[pc[x]].then
          BY <4>1, <5>1 DEF MoveWrite, Forget, Typed, TypeOK
        <5>3. pc[x] \in PlainMoves \ {"toReadyRedo", "toRunning"}
          BY <2>3, <4>1, <5>1 DEF MoveWrite
        <5>4. Move[pc[x]].then \notin Late
          BY <5>3, PlainMovesAre DEF Move
        <5> QED BY <1>2, <3>0, <5>2, <5>4
      <4>2. CASE ~MoveWrite(w)
        BY <1>2, <3>0, <3>1, <4>2 DEF MoveStep, MoveRead, MoveRefused, MoveLost, ReleaseWrite, FailWrite, FinalWrite,
           Release, Raise, Forget, Typed, TypeOK
      <4> QED BY <4>1, <4>2
    <3>2. ASSUME NEW w \in Workers, JournalStep(w) PROVE intent'[wjob[x]][wtick[x]] # "none"
      <4>1. w = x
        BY <3>0, <3>2 DEF JournalStep, ReserveIntent, ReserveRefused, ReadIntent, MarkUnconfirmed, SettleFailed,
           CommitIntent, JournalRefused, Raise, Forget, Goto, Typed, TypeOK
      <4>2. CASE ReserveIntent(x)
        BY <2>1, <2>3, <4>2 DEF ReserveIntent, SetIntent, Typed, TypeOK
      <4>3. CASE ~ReserveIntent(x)
        BY <1>2, <2>3, <3>0, <3>2, <4>1, <4>3
        DEF JournalStep, ReserveRefused, ReadIntent, MarkUnconfirmed, SettleFailed,
           CommitIntent, JournalRefused, Raise, Forget, Goto, Unsettled, Typed, TypeOK
      <4> QED BY <4>2, <4>3
    <3>3. ASSUME NEW w \in Workers, HandlerStep(w) PROVE FALSE
      BY <1>2, <2>3, <3>0, <3>3 DEF HandlerStep, Precheck, ProbeAdopt, ProbeNoEffect, ProbeUnknown, DispatchEffect,
         DispatchNoEffect, Observe, Verify, OnCommit, Goto, Typed, TypeOK
    <3>4. ASSUME NEW w \in Workers, ClaimLost(w) \/ Crash(w) \/ RenewLease(w) \/ \E j \in Jobs : ClaimRead(w, j) PROVE FALSE
      BY <1>2, <3>0, <3>4 DEF ClaimLost, Crash, RenewLease, ClaimRead, Raise, Forget, Typed, TypeOK
    <3>5. ASSUME NEW w \in Workers, ClaimCAS(w) PROVE FALSE
      BY <1>2, <3>0, <3>5 DEF ClaimCAS, Typed, TypeOK
    <3>6. ASSUME NEW j \in Jobs, JobNext(j) PROVE FALSE
      BY <3>0, <3>6 DEF JobNext, LeaseExpires, OperatorMove, CancelStop, Decide, SettleApproval, workVars
    <3> QED BY <3>0, <3>1, <3>2, <3>3, <3>4, <3>5, <3>6 DEF Next, WorkerNext, TickStep, vars, workVars
  <2> QED BY <1>1, <2>1, <2>2, <2>3
<1>3. Reserved'
  BY <1>2 DEF Reserved
<1>4. effects' = effects \/ \E w \in Workers : DispatchEffect(w)
  <2>1. ASSUME NEW w \in Workers, WorkerNext(w), ~DispatchEffect(w) PROVE effects' = effects
    BY <2>1 DEF WorkerNext, TickStep, MoveStep, HandlerStep, JournalStep, ClaimRead, ClaimCAS, ClaimLost, Crash,
       RenewLease, MoveRead, MoveRefused, MoveLost, MoveWrite, ReleaseWrite, FailWrite, FinalWrite, Release, Raise,
       Precheck, ProbeAdopt, ProbeNoEffect, ProbeUnknown, DispatchNoEffect, Observe, Verify, OnCommit, ReserveIntent,
       ReserveRefused, ReadIntent, MarkUnconfirmed, SettleFailed, CommitIntent, JournalRefused, storeVars, artVars
  <2>2. ASSUME NEW j \in Jobs, JobNext(j) PROVE effects' = effects
    BY <2>2 DEF JobNext, LeaseExpires, OperatorMove, CancelStop, Decide, SettleApproval, artVars
  <2> QED BY <2>1, <2>2 DEF Next, vars, storeVars, artVars
<1>5. ASSUME NEW j \in Jobs, NEW v \in DOMAIN effects'[j] PROVE intent'[j][effects'[j][v]] # "none"
  <2>1. CASE v \in DOMAIN effects[j] /\ effects'[j][v] = effects[j][v]
    <3>1. effects[j][v] \in Ticks
      BY <2>1 DEF Typed, TypeOK
    <3> QED BY <1>1, <2>1, <3>1 DEF EffectsFollowIntent
  <2>2. ASSUME NEW w \in Workers, DispatchEffect(w), ~(v \in DOMAIN effects[j] /\ effects'[j][v] = effects[j][v])
        PROVE  intent'[j][effects'[j][v]] # "none"
    <3>1. wjob[w] \in Jobs /\ wtick[w] \in Ticks /\ pc[w] = "dispatch"
      BY <2>2 DEF DispatchEffect, Typed, LocalOK, Active
    <3>2. effects' = [effects EXCEPT ![wjob[w]] = Append(effects[wjob[w]], wtick[w])] /\ effects[j] \in Seq(Ticks)
      BY <2>2 DEF DispatchEffect, Typed, TypeOK
    <3>3. wjob[w] = j /\ effects'[j] = Append(effects[j], wtick[w])
      BY <2>2, <3>1, <3>2 DEF Typed, TypeOK
    <3>4. effects'[j][v] = wtick[w]
      BY <2>2, <3>1, <3>2, <3>3
    <3> QED BY <1>1, <3>1, <3>3, <3>4 DEF Reserved
  <2> QED BY <1>4, <2>1, <2>2
<1> QED BY <1>3, <1>5 DEF EffectsFollowIntent

\* EffectsFollowIntent: nothing is rendered before it is in the journal.
THEOREM WriteAheadCorrect == Spec => []EffectsFollowIntent
<1>1. Init => Reserved /\ EffectsFollowIntent
  BY DEF Init, Reserved, EffectsFollowIntent
<1> QED BY <1>1, InitTyped, NextTyped, NextReserved, PTL DEF Spec

-----------------------------------------------------------------------------
(* The ledger. *)

\* DurableRuns implements RunLedger: every step of a worker, the operator, an
\* approval or the stop is a legal walk, the commit or the end of one tick of
\* one job, or it does not show.
THEOREM LedgerCorrect == Spec => LedgerSpec
<1> DEFINE done == [j \in Jobs |-> {t \in Ticks : intent[j][t] = "COMMITTED"}]
<1>1. Init => Ledger!LedgerInit
  BY DEF Init, Ledger!LedgerInit
<1>2. ASSUME IInv, [Next]_vars PROVE [Ledger!LedgerNext]_(Ledger!ledgerVars)
  <2> USE <1>2 DEF IInv
  <2>1. CASE UNCHANGED <<state, tick, intent>>
    BY <2>1 DEF Ledger!ledgerVars
  <2>2. ASSUME NEW j \in Jobs, RowWrite(j) PROVE Ledger!LedgerNext
    <3>1. done' = done
      BY <2>2 DEF RowWrite
    <3>2. CASE \E to \in Edges(state[j]) : state' = [state EXCEPT ![j] = to] /\ UNCHANGED <<tick, intent, receipt>>
      <4>1. Ledger!Walk(j)
        BY <3>1, <3>2 DEF Ledger!Walk, Ledger!Edges, Ledger!DeclaredEdges, Ledger!RunState, Ledger!InFlight, Ledger!Claimable, Ledger!Blocked,
           Edges, DeclaredEdges, RunState, InFlight, Claimable, Blocked
      <4> QED BY <4>1 DEF Ledger!LedgerNext
    <3>3. ASSUME NEW w \in Workers, state[j] = "COMMITTING", wtick[w] = tick[j] + 1, wtick[w] \in Ticks,
                 intent[j][wtick[w]] = "COMMITTED", state' = [state EXCEPT ![j] = FinalState(j)],
                 tick' = [tick EXCEPT ![j] = wtick[w]]
          PROVE  Ledger!LedgerNext
      <4>1. Ledger!Advance(j)
        BY <3>1, <3>3 DEF Ledger!Advance, FinalState
      <4> QED BY <4>1 DEF Ledger!LedgerNext
    <3> QED BY <2>2, <3>2, <3>3 DEF RowWrite
  <2>3. ASSUME NEW w \in Workers, JournalWrite(w) PROVE [Ledger!LedgerNext]_(Ledger!ledgerVars)
    <3>1. wjob[w] \in Jobs /\ wtick[w] \in Ticks /\ UNCHANGED <<state, tick>> /\ Typed
      BY <2>3 DEF JournalWrite
    <3>2. CASE SetIntent(w, "COMMITTED") /\ intent[wjob[w]][wtick[w]] \in Unsettled /\ pc[w] = "commit"
      <4>1. Knows(w)
        BY <2>3, HoldersKnow DEF JournalWrite, Current
      <4>2. state[wjob[w]] = "COMMITTING" /\ wtick[w] = tick[wjob[w]] + 1
        BY <3>2, <4>1 DEF Knows, ExpectedAt
      <4>3. done' = [done EXCEPT ![wjob[w]] = done[wjob[w]] \cup {wtick[w]}]
        <5>1. \A k \in Jobs, t \in Ticks :
                 intent'[k][t] = "COMMITTED" <=> intent[k][t] = "COMMITTED" \/ (k = wjob[w] /\ t = wtick[w])
          BY <3>1, <3>2 DEF SetIntent, Typed, TypeOK
        <5>2. \A k \in Jobs : {t \in Ticks : intent'[k][t] = "COMMITTED"}
                 = IF k = wjob[w] THEN {t \in Ticks : intent[k][t] = "COMMITTED"} \cup {wtick[w]}
                                  ELSE {t \in Ticks : intent[k][t] = "COMMITTED"}
          BY <3>1, <5>1
        <5>3. done' = [k \in Jobs |-> {t \in Ticks : intent'[k][t] = "COMMITTED"}]
          OBVIOUS
        <5> QED BY <3>1, <5>2, <5>3
      <4>4. wtick[w] \notin done[wjob[w]]
        BY <3>1, <3>2 DEF Unsettled
      <4>5. ASSUME NEW j \in Jobs, j = wjob[w] PROVE Ledger!CommitTick(j)
        <5>1. tick[j] + 1 \notin done[j]
          BY <4>2, <4>4, <4>5
        <5>2. done' = [done EXCEPT ![j] = @ \cup {tick[j] + 1}]
          BY <4>2, <4>3, <4>5
        <5> QED BY <3>1, <4>2, <4>5, <5>1, <5>2 DEF Ledger!CommitTick
      <4>6. \E j \in Jobs : j = wjob[w]
        BY <3>1
      <4>7. Ledger!LedgerNext
        BY <4>5, <4>6 DEF Ledger!LedgerNext
      <4> QED BY <4>7
    <3>3. ASSUME NEW st \in {"INTENT", "UNCONFIRMED", "FAILED"}, SetIntent(w, st),
                 intent[wjob[w]][wtick[w]] # "COMMITTED"
          PROVE  done' = done
      BY <3>1, <3>3 DEF SetIntent, Typed, TypeOK
    <3> QED BY <2>3, <3>1, <3>2, <3>3 DEF JournalWrite, Unsettled, Ledger!ledgerVars
  <2> QED BY <2>1, <2>2, <2>3, RowWrites, JournalWrites
<1> QED BY <1>1, <1>2, InitIInv, NextIInv, PTL DEF Spec, LedgerSpec, Ledger!LedgerSpec

=============================================================================
