------------------------ MODULE ExecutionFabric_proofs ------------------------
(***************************************************************************)
(* Theorems about ExecutionFabric, for any number of processes, keys and   *)
(* upsets.                                                                 *)
(***************************************************************************)
EXTENDS ExecutionFabric, SequenceTheorems, TLAPS

USE FabricAssumption DEF HeadVersion

Authors == Keys \cup {Editor}

-----------------------------------------------------------------------------
(* The inductive invariant                                                 *)

\* Where a consumer has written, or found written, its version, ...
Written == {"stamp", "head", "observe", "complete", "adopt", "confirm"}
\* ... and where it has read the head since.
Sighted == {"observe", "complete", "adopt", "confirm"}

\* What a consumer takes for granted when it reports.
Fit(m) == /\ m.pc \in Written => Landed(m.key)
          /\ m.pc \in Sighted => m.seen \in 1..HeadVersion /\ Ledger!LandedBy(m.key, m.seen)
          /\ m.pc \in {"complete", "confirm"} => m.key \in witnessed

ConsumersFit == \A c \in Consumers : Fit(consumers[c])

\* What the metadata, the receipts and the results say is in the history.
RecordsTrue ==
  /\ provenance # NoKey => Landed(provenance)
  /\ editor.prov # NoKey => Landed(editor.prov)
  /\ editor.pc # "idle" => HeadVersion > 0
  /\ \A k \in Keys : /\ k \in witnessed => Landed(k)
                     /\ result[k] # 0 => Landed(k)
                     /\ idem[k] = "completed" <=> result[k] # 0

Settled == {"executing", "completed"}

\* As long as the reservation of k was not failed under it, one consumer at a
\* time works on it, and none that may still write once it has landed.
AloneOn(k) ==
  /\ \A c, d \in Consumers : Works(c, k) /\ Works(d, k) => c = d
  /\ \A c \in Consumers : Works(c, k) => idem[k] \in Settled
  /\ Landed(k) => /\ idem[k] \in Settled
                  /\ \A c \in Consumers : ~(consumers[c].pc \in Unwritten /\ consumers[c].key = k)

OneWriter == \A k \in Keys \ contested : AloneOn(k)

IInv == TypeOK /\ ConsumersFit /\ RecordsTrue /\ OneWriter

-----------------------------------------------------------------------------
(* Types, and how a step changes the history and a consumer                *)

Row == [pc : ConsumerPC, key : Keys \cup {NoKey}, snap : Nat, seen : Nat \cup {NoPermit}]
RowOK(m) == m \in Row /\ (m.pc # "idle" => m.key \in Keys)

LEMMA Appended ==
  ASSUME history \in Seq(Authors), NEW w \in Authors, history' = Append(history, w)
  PROVE  /\ history' \in Seq(Authors)
         /\ HeadVersion \in Nat /\ HeadVersion' = HeadVersion + 1
         /\ \A v \in 1..HeadVersion : history'[v] = history[v]
         /\ history'[HeadVersion + 1] = w
  BY AppendProperties, LenProperties DEF HeadVersion

\* A step of a consumer replaces its row, ...
Moves(c, r) == consumers' = [consumers EXCEPT ![c] = r]

LEMMA Moved ==
  ASSUME TypeOK, NEW c \in Consumers, NEW r, RowOK(r), Moves(c, r)
  PROVE  /\ consumers' \in [Consumers -> Row]
         /\ \A d \in Consumers : consumers'[d].pc # "idle" => consumers'[d].key \in Keys
         /\ consumers'[c] = r
         /\ \A d \in Consumers \ {c} : consumers'[d] = consumers[d]
  BY DEF TypeOK, Row, RowOK, Moves

LEMMA Rows ==
  ASSUME TypeOK, NEW c \in Consumers
  PROVE  RowOK(consumers[c])
  BY DEF TypeOK, Row, RowOK

LEMMA HeadNat == TypeOK => HeadVersion \in Nat
  BY LenProperties DEF TypeOK, HeadVersion, Authors

\* ... and keeps the key of one that is at work.
LEMMA NewRow ==
  ASSUME TypeOK, NEW c \in Consumers, consumers[c].pc # "idle",
         NEW pc \in ConsumerPC, NEW n \in Nat, NEW s \in Nat \cup {NoPermit}
  PROVE  RowOK([pc |-> pc, key |-> consumers[c].key, snap |-> n, seen |-> s])
  BY Rows DEF Row, RowOK

LEMMA FreeRow == RowOK(Free)
  BY DEF RowOK, Row, Free, ConsumerPC

\* The step of a consumer: it goes on with its key, or quits.
GoesOn(c) == \E r : RowOK(r) /\ Moves(c, r) /\ r.key \in {NoKey, consumers[c].key}

LEMMA StepRow ==
  ASSUME TypeOK, NEW c \in Consumers, Step(c)
  PROVE  /\ consumers[c].pc # "idle" /\ consumers[c].key \in Keys
         /\ GoesOn(c)
  <1>1. consumers[c].pc # "idle"
    BY DEF Step, At, Reserve, Dispatch, GiveUp, ReadPermit, Compare, Adopt, Release, Retake,
           Write, Insert, Stamp, ReadHead, Observe, Complete
  <1>2. consumers[c].key \in Keys /\ RowOK(consumers[c])
    BY <1>1, Rows DEF RowOK
  <1>3. ASSUME NEW pc \in ConsumerPC, NEW n \in Nat, NEW s \in Nat \cup {NoPermit},
               Become(c, pc, n, s)
        PROVE  GoesOn(c)
    <2> DEFINE r == [pc |-> pc, key |-> consumers[c].key, snap |-> n, seen |-> s]
    <2>1. RowOK(r) /\ r.key = consumers[c].key
      BY <1>1, NewRow
    <2>2. Moves(c, r)
      BY <1>3 DEF Become, Moves
    <2> HIDE DEF r
    <2> QED  BY <2>1, <2>2 DEF GoesOn
  <1>4. ASSUME NEW pc \in ConsumerPC, Goto(c, pc)
        PROVE  GoesOn(c)
    BY <1>2, <1>3, <1>4 DEF Goto, RowOK, Row
  <1>5. ASSUME NEW pc \in ConsumerPC, Turn(c, pc)
        PROVE  GoesOn(c)
    BY <1>3, <1>5 DEF Turn
  <1>6. ASSUME Quit(c)
        PROVE  GoesOn(c)
    <2>1. Moves(c, Free) /\ Free.key = NoKey
      BY <1>6 DEF Quit, Moves, Free
    <2> QED  BY <2>1, FreeRow DEF GoesOn
  <1>7. /\ "permit" \in ConsumerPC /\ "probe" \in ConsumerPC /\ "write" \in ConsumerPC
        /\ "fail" \in ConsumerPC /\ "adopt" \in ConsumerPC /\ "confirm" \in ConsumerPC
        /\ "retake" \in ConsumerPC /\ "insert" \in ConsumerPC /\ "stamp" \in ConsumerPC
        /\ "head" \in ConsumerPC /\ "complete" \in ConsumerPC /\ "observe" \in ConsumerPC
        /\ "compare" \in ConsumerPC /\ "release" \in ConsumerPC
    BY DEF ConsumerPC, Granted, Unwritten
  <1>8. HeadVersion \in Nat /\ permit[consumers[c].key] \in Nat \cup {NoPermit}
    BY <1>2, HeadNat DEF TypeOK
  <1>9. Reserve(c) \/ Dispatch(c) \/ GiveUp(c) \/ Adopt(c) \/ Release(c) \/ Retake(c)
          => GoesOn(c)
    BY <1>4, <1>5, <1>6, <1>7 DEF Reserve, Dispatch, GiveUp, Adopt, Release, Retake
  <1>10. ReadPermit(c) \/ Compare(c) \/ ReadHead(c) => GoesOn(c)
    BY <1>3, <1>6, <1>7, <1>8 DEF ReadPermit, Compare, ReadHead
  <1>11. Write(c) \/ Insert(c) \/ Stamp(c) \/ Observe(c) \/ Complete(c) => GoesOn(c)
    BY <1>4, <1>5, <1>6, <1>7 DEF Write, Insert, Stamp, Observe, Complete
  <1> QED  BY <1>1, <1>2, <1>9, <1>10, <1>11 DEF Step

\* What a step does to the history: nothing, a version of a consumer, or one
\* of a person.
Lands(c) == /\ consumers[c].pc \in {"write", "insert"}
            /\ history' = Append(history, consumers[c].key)
Edits == editor.pc = "revise" /\ history' = Append(history, Editor)
HistoryStep == history' = history \/ (\E c \in Consumers : Lands(c)) \/ Edits

LEMMA StepHistory ==
  ASSUME TypeOK, NEW c \in Consumers, Step(c)
  PROVE  history' = history \/ Lands(c)
  <1>1. CASE Write(c)
    BY <1>1 DEF Write, Lands, At
  <1>2. CASE Insert(c)
    <2>1. CASE HeadVersion = 0 /\ history' = <<consumers[c].key>>
      <3>1. history = <<>>
        BY <2>1, EmptySeq DEF TypeOK, HeadVersion
      <3>2. history' = Append(history, consumers[c].key)
        BY <2>1, <3>1
      <3> QED  BY <1>2, <3>2 DEF Insert, Lands, At
    <2>2. CASE history' = history
      BY <2>2
    <2> QED  BY <1>2, <2>1, <2>2 DEF Insert, artifact
  <1>3. CASE ~Write(c) /\ ~Insert(c)
    BY <1>3 DEF Step, Reserve, Dispatch, GiveUp, ReadPermit, Compare, Adopt, Release, Retake,
                Stamp, ReadHead, Observe, Complete, artifact
  <1> QED  BY <1>1, <1>2, <1>3

LEMMA NextHistory == TypeOK /\ [Next]_vars => HistoryStep
  <1> SUFFICES ASSUME TypeOK, [Next]_vars PROVE HistoryStep
    OBVIOUS
  <1>1. ASSUME NEW c \in Consumers, Step(c)
        PROVE  HistoryStep
    BY <1>1, StepHistory DEF HistoryStep
  <1>2. CASE OpenRevision \/ Revise \/ StampRevision
    BY <1>2 DEF OpenRevision, Revise, StampRevision, artifact, HistoryStep, Edits
  <1>3. ASSUME NEW k \in Keys, LeaseLapses(k)
        PROVE  HistoryStep
    BY <1>3 DEF LeaseLapses, artifact, HistoryStep
  <1>4. ASSUME NEW c \in Consumers, Crash(c) \/ \E k \in Keys : Prepare(c, k)
        PROVE  HistoryStep
    BY <1>4 DEF Crash, Prepare, artifact, HistoryStep
  <1>5. CASE UNCHANGED vars
    BY <1>5 DEF vars, HistoryStep
  <1> QED  BY <1>1, <1>2, <1>3, <1>4, <1>5 DEF Next

\* No step takes anything from the history.
Grows == /\ HeadVersion \in Nat /\ HeadVersion' \in Nat /\ HeadVersion <= HeadVersion'
         /\ \A v \in 1..HeadVersion : history'[v] = history[v]

LEMMA HistoryGrows ==
  ASSUME TypeOK, HistoryStep
  PROVE  history' \in Seq(Authors) /\ Grows
  <1>1. history \in Seq(Authors) /\ HeadVersion \in Nat
    BY HeadNat DEF TypeOK, Authors
  <1>2. ASSUME NEW w \in Authors, history' = Append(history, w)
        PROVE  history' \in Seq(Authors) /\ Grows
    BY <1>1, <1>2, Appended DEF Grows
  <1>3. CASE history' = history
    BY <1>1, <1>3 DEF Grows, HeadVersion
  <1>4. ASSUME NEW c \in Consumers, Lands(c)
        PROVE  history' \in Seq(Authors) /\ Grows
    <2>1. consumers[c].key \in Authors
      BY <1>4, Rows DEF Lands, RowOK, Authors
    <2> QED  BY <1>2, <1>4, <2>1 DEF Lands
  <1>5. CASE Edits
    BY <1>2, <1>5 DEF Edits, Authors
  <1> QED  BY <1>3, <1>4, <1>5 DEF HistoryStep

LEMMA LandedStays ==
  ASSUME Grows, NEW k
  PROVE  /\ Landed(k) => Landed(k)'
         /\ \A v \in 1..HeadVersion : Ledger!LandedBy(k, v) => Ledger!LandedBy(k, v)'
  BY DEF Grows, Landed, Ledger!LandedBy

\* The versions after a step are the old ones and the one that was added.
LEMMA LandedAfter ==
  ASSUME TypeOK, NEW w \in Authors, history' = Append(history, w), NEW k
  PROVE  Landed(k)' <=> Landed(k) \/ k = w
  <1>1. /\ HeadVersion \in Nat /\ HeadVersion' = HeadVersion + 1
        /\ \A v \in 1..HeadVersion : history'[v] = history[v]
        /\ history'[HeadVersion + 1] = w
    BY Appended DEF TypeOK, Authors
  <1> QED  BY <1>1 DEF Landed

ConsumersTyped ==
  /\ consumers \in [Consumers -> Row]
  /\ \A c \in Consumers : consumers[c].pc # "idle" => consumers[c].key \in Keys

RecordsTyped ==
  /\ idem \in [Keys -> KeyStatus]
  /\ lapsed \in [Keys -> BOOLEAN]
  /\ permit \in [Keys -> Nat \cup {NoPermit}]
  /\ provenance \in Keys \cup {NoKey}
  /\ witnessed \subseteq Keys
  /\ result \in [Keys -> Nat]
  /\ editor \in [pc : {"idle", "revise", "stamp"}, snap : Nat, prov : Keys \cup {NoKey}]
  /\ contested \subseteq Keys
  /\ upsets \in Nat

LEMMA Parts == TypeOK <=> ConsumersTyped /\ RecordsTyped /\ history \in Seq(Authors)
  BY DEF TypeOK, ConsumersTyped, RecordsTyped, Row, Authors

LEMMA NextConsumers == TypeOK /\ [Next]_vars => ConsumersTyped'
  <1> SUFFICES ASSUME TypeOK, [Next]_vars PROVE ConsumersTyped'
    OBVIOUS
  <1>1. ASSUME NEW c \in Consumers, NEW r, RowOK(r), Moves(c, r)
        PROVE  ConsumersTyped'
    <2>1. consumers' \in [Consumers -> Row]
      BY <1>1, Moved
    <2>2. \A d \in Consumers : consumers'[d].pc # "idle" => consumers'[d].key \in Keys
      BY <1>1, Moved
    <2> QED  BY <2>1, <2>2 DEF ConsumersTyped
  <1>2. ASSUME NEW c \in Consumers, Step(c)
        PROVE  ConsumersTyped'
    BY <1>1, <1>2, StepRow DEF GoesOn
  <1>3. ASSUME NEW c \in Consumers, Crash(c)
        PROVE  ConsumersTyped'
    <2>1. Moves(c, Free)
      BY <1>3 DEF Crash, Quit, Moves
    <2> QED  BY <1>1, <2>1, FreeRow
  <1>4. ASSUME NEW c \in Consumers, NEW k \in Keys, Prepare(c, k)
        PROVE  ConsumersTyped'
    <2> DEFINE r == [pc |-> "reserve", key |-> k, snap |-> HeadVersion, seen |-> 0]
    <2>1. RowOK(r)
      BY HeadNat DEF RowOK, Row, ConsumerPC
    <2>2. Moves(c, r)
      BY <1>4 DEF Prepare, Moves
    <2> HIDE DEF r
    <2> QED  BY <1>1, <2>1, <2>2
  <1>5. CASE UNCHANGED consumers
    BY <1>5, Parts DEF ConsumersTyped
  <1> QED  BY <1>2, <1>3, <1>4, <1>5
           DEF Next, LeaseLapses, OpenRevision, Revise, StampRevision, vars

LEMMA SettleTyped ==
  ASSUME RecordsTyped, NEW k \in Keys, NEW s \in KeyStatus, Settle(k, s)
  PROVE  idem' \in [Keys -> KeyStatus] /\ lapsed' \in [Keys -> BOOLEAN]
  BY DEF RecordsTyped, Settle

LEMMA StatusTyped ==
  ASSUME NEW s \in KeyStatus
  PROVE  /\ Reserved(s) \in KeyStatus /\ Completed(s) \in KeyStatus /\ Failed(s) \in KeyStatus
  BY DEF Reserved, Completed, Failed, KeyStatus

LEMMA FailTyped ==
  ASSUME RecordsTyped, NEW c \in Consumers, consumers[c].key \in Keys, Fail(c)
  PROVE  /\ idem' \in [Keys -> KeyStatus] /\ lapsed' \in [Keys -> BOOLEAN]
         /\ contested' \subseteq Keys
  <1>1. Failed(idem[consumers[c].key]) \in KeyStatus
    BY StatusTyped DEF RecordsTyped
  <1>2. Settle(consumers[c].key, Failed(idem[consumers[c].key]))
    BY DEF Fail
  <1> QED  BY <1>1, <1>2, SettleTyped DEF Fail, RecordsTyped

LEMMA TakeTyped ==
  ASSUME RecordsTyped, NEW k \in Keys, Take(k)
  PROVE  idem' \in [Keys -> KeyStatus] /\ lapsed' \in [Keys -> BOOLEAN]
  BY StatusTyped, SettleTyped DEF Take, RecordsTyped

LEMMA StepRecords ==
  ASSUME TypeOK, ConsumersFit, NEW c \in Consumers, Step(c)
  PROVE  RecordsTyped'
  <1>0. /\ RecordsTyped /\ RowOK(consumers[c]) /\ consumers[c].key \in Keys
    BY Parts, Rows, StepRow
  <1>1. CASE Reserve(c) \/ Retake(c)
    BY <1>0, <1>1, TakeTyped DEF Reserve, Retake, RecordsTyped, reports, artifact
  <1>2. CASE GiveUp(c) \/ Release(c)
    BY <1>0, <1>2, FailTyped DEF GiveUp, Release, RecordsTyped, reports, artifact
  <1>3. CASE Dispatch(c)
    BY <1>0, <1>3 DEF Dispatch, Upset, RecordsTyped, RowOK, Row, reports, artifact
  <1>4. CASE ReadPermit(c) \/ Compare(c) \/ ReadHead(c)
    BY <1>0, <1>4 DEF ReadPermit, Compare, ReadHead, RecordsTyped, reports, artifact
  <1>5. CASE Adopt(c) \/ Observe(c)
    BY <1>0, <1>5 DEF Adopt, Observe, Upset, RecordsTyped, artifact
  <1>6. CASE Write(c) \/ Insert(c) \/ Stamp(c)
    BY <1>0, <1>6 DEF Write, Insert, Stamp, RecordsTyped, reports, artifact
  <1>7. CASE Complete(c)
    <2> DEFINE k == consumers[c].key
    <2>1. idem' \in [Keys -> KeyStatus] /\ lapsed' \in [Keys -> BOOLEAN]
      <3>1. Completed(idem[k]) \in KeyStatus
        BY <1>0, StatusTyped DEF RecordsTyped
      <3> QED  BY <1>0, <1>7, <3>1, SettleTyped DEF Complete
    <2>2. result' \in [Keys -> Nat]
      <3>1. CASE idem[k] = "executing"
        <4>1. consumers[c].seen \in Nat
          BY <1>7, HeadNat DEF Complete, At, ConsumersFit, Fit, Sighted
        <4> QED  BY <1>0, <1>7, <3>1, <4>1 DEF Complete, RecordsTyped
      <3>2. CASE idem[k] # "executing"
        BY <1>0, <1>7, <3>2 DEF Complete, RecordsTyped
      <3> QED  BY <3>1, <3>2
    <2> QED  BY <1>0, <1>7, <2>1, <2>2 DEF Complete, RecordsTyped, artifact
  <1> QED  BY <1>1, <1>2, <1>3, <1>4, <1>5, <1>6, <1>7 DEF Step

LEMMA NextTyped == TypeOK /\ ConsumersFit /\ [Next]_vars => TypeOK'
  <1> SUFFICES ASSUME TypeOK, ConsumersFit, [Next]_vars PROVE TypeOK'
    OBVIOUS
  <1>1. ConsumersTyped' /\ history' \in Seq(Authors) /\ RecordsTyped
    BY NextConsumers, NextHistory, HistoryGrows, Parts
  <1>2. RecordsTyped'
    <2>1. ASSUME NEW c \in Consumers, Step(c)
          PROVE  RecordsTyped'
      BY <2>1, StepRecords
    <2>2. ASSUME NEW c \in Consumers, Crash(c) \/ \E k \in Keys : Prepare(c, k)
          PROVE  RecordsTyped'
      BY <1>1, <2>2 DEF Crash, Prepare, Upset, RecordsTyped, reports, artifact
    <2>3. ASSUME NEW k \in Keys, LeaseLapses(k)
          PROVE  RecordsTyped'
      BY <1>1, <2>3 DEF LeaseLapses, Upset, RecordsTyped, reports, artifact
    <2>4. CASE OpenRevision
      <3>1. PICK p \in {provenance} \cup {k \in Keys : Landed(k)} :
              editor' = [pc |-> "revise", snap |-> HeadVersion, prov |-> p]
        BY <2>4 DEF OpenRevision
      <3> QED  BY <1>1, <2>4, <3>1, HeadNat
               DEF OpenRevision, Upset, RecordsTyped, reports, artifact
    <2>5. CASE Revise \/ StampRevision
      BY <1>1, <2>5 DEF Revise, StampRevision, NoEdit, RecordsTyped, reports
    <2>6. CASE UNCHANGED vars
      BY <1>1, <2>6 DEF vars, RecordsTyped
    <2> QED  BY <2>1, <2>2, <2>3, <2>4, <2>5, <2>6 DEF Next
  <1>3. TypeOK' <=> ConsumersTyped' /\ RecordsTyped' /\ (history \in Seq(Authors))'
    BY DEF TypeOK, ConsumersTyped, RecordsTyped, Row, Authors
  <1> QED  BY <1>1, <1>2, <1>3

-----------------------------------------------------------------------------
(* What consumers and records say is in the history                        *)

\* The row of a consumer after its step.
LEMMA Becomes ==
  ASSUME TypeOK, NEW c \in Consumers, NEW pc, NEW n, NEW s, Become(c, pc, n, s)
  PROVE  /\ consumers'[c].pc = pc /\ consumers'[c].key = consumers[c].key
         /\ consumers'[c].snap = n /\ consumers'[c].seen = s
  BY DEF TypeOK, Become

LEMMA Goes ==
  ASSUME TypeOK, NEW c \in Consumers, NEW pc, Goto(c, pc)
  PROVE  /\ consumers'[c].pc = pc /\ consumers'[c].key = consumers[c].key
         /\ consumers'[c].seen = consumers[c].seen
  BY Becomes DEF Goto

LEMMA Turns ==
  ASSUME TypeOK, NEW c \in Consumers, NEW pc, Turn(c, pc)
  PROVE  consumers'[c].pc = pc /\ consumers'[c].key = consumers[c].key
  BY Becomes DEF Turn

LEMMA Quits ==
  ASSUME TypeOK, NEW c \in Consumers, Quit(c)
  PROVE  consumers'[c].pc = "idle"
  BY DEF TypeOK, Quit, Free

\* The step of a consumer leaves the others alone.
LEMMA OthersStay ==
  ASSUME TypeOK, NEW c \in Consumers, Step(c), NEW d \in Consumers \ {c}
  PROVE  consumers'[d] = consumers[d]
  BY StepRow, Moved DEF GoesOn

LEMMA StepWitnessed ==
  ASSUME NEW c \in Consumers, Step(c)
  PROVE  witnessed \subseteq witnessed'
  <1>1. CASE Reserve(c) \/ Dispatch(c) \/ GiveUp(c) \/ Release(c) \/ Retake(c)
    BY <1>1 DEF Reserve, Dispatch, GiveUp, Release, Retake, reports
  <1>2. CASE ReadPermit(c) \/ Compare(c) \/ ReadHead(c) \/ Complete(c)
    BY <1>2 DEF ReadPermit, Compare, ReadHead, Complete, reports
  <1>3. CASE Write(c) \/ Insert(c) \/ Stamp(c)
    BY <1>3 DEF Write, Insert, Stamp, reports
  <1>4. CASE Adopt(c) \/ Observe(c)
    BY <1>4 DEF Adopt, Observe
  <1> QED  BY <1>1, <1>2, <1>3, <1>4 DEF Step

LEMMA FitStays ==
  ASSUME Grows, witnessed \subseteq witnessed', NEW m, Fit(m)
  PROVE  Fit(m)'
  <1>1. m.pc \in Written => Landed(m.key)'
    BY LandedStays DEF Fit
  <1>2. m.pc \in Sighted => /\ m.seen \in 1..HeadVersion'
                            /\ Ledger!LandedBy(m.key, m.seen)'
    BY SMTT(30), LandedStays DEF Fit, Grows
  <1> QED  BY <1>1, <1>2 DEF Fit

LEMMA StepFit ==
  ASSUME TypeOK, ConsumersFit, RecordsTrue, NEW c \in Consumers, Step(c)
  PROVE  Fit(consumers[c])'
  <1>k. PICK m : m = consumers[c]
    OBVIOUS
  <1> DEFINE k == m.key
  <1>0. /\ Grows /\ witnessed \subseteq witnessed' /\ k \in Keys
        /\ RowOK(m) /\ Fit(m)
        /\ history' = history \/ Lands(c)
    BY <1>k, StepHistory, HistoryGrows, StepWitnessed, StepRow, Rows
       DEF HistoryStep, ConsumersFit
  <1>1. ASSUME consumers'[c].pc \notin Written
        PROVE  Fit(consumers[c])'
    BY <1>1 DEF Fit, Written, Sighted
  <1>2. CASE Reserve(c) \/ Dispatch(c) \/ GiveUp(c) \/ Release(c) \/ Retake(c)
    BY <1>k, <1>1, <1>2, Goes, Turns, Quits
       DEF Reserve, Dispatch, GiveUp, Release, Retake, Written
  <1>3. CASE ReadPermit(c) \/ Complete(c)
    BY <1>k, <1>1, <1>3, Becomes, Quits DEF ReadPermit, Complete, Written
  <1>4. CASE Compare(c)
    <2>1. CASE provenance = k /\ Become(c, "adopt", 0, HeadVersion)
      <3>1. Landed(k) /\ history' = history /\ HeadVersion \in Nat
        BY <1>k, <1>0, <1>4, <2>1, HeadNat DEF RecordsTrue, Compare, artifact
      <3>2. consumers'[c].pc = "adopt" /\ consumers'[c].key = k
            /\ consumers'[c].seen = HeadVersion
        BY <1>k, <2>1, Becomes
      <3>3. Landed(k)' /\ HeadVersion \in 1..HeadVersion' /\ Ledger!LandedBy(k, HeadVersion)'
        BY <1>k, <3>1 DEF Landed, Ledger!LandedBy
      <3> QED  BY <1>k, <3>1, <3>2, <3>3 DEF Fit, Written, Sighted
    <2>2. CASE ~(provenance = k)
      BY <1>k, <1>1, <1>4, <2>2, Becomes, Quits DEF Compare, Written
    <2> QED  BY <1>k, <1>4, <2>1, <2>2 DEF Compare
  <1>5. CASE Adopt(c)
    <2>1. consumers'[c].pc = "confirm" /\ consumers'[c].key = k
          /\ consumers'[c].seen = m.seen /\ k \in witnessed'
      BY <1>k, <1>5, Goes DEF Adopt
    <2>2. Fit(m)' /\ m.pc = "adopt"
      BY <1>k, <1>0, <1>5, FitStays DEF Adopt, At, Fit
    <2> QED  BY <1>k, <2>1, <2>2 DEF Fit, Written, Sighted
  <1>6. CASE Write(c)
    <2>1. CASE Goto(c, "insert") \/ Turn(c, "fail")
      BY <1>k, <1>1, <2>1, Goes, Turns DEF Written
    <2>2. CASE history' = Append(history, k) /\ Turn(c, "stamp")
      <3>1. consumers'[c].pc = "stamp" /\ consumers'[c].key = k
        BY <1>k, <2>2, Turns
      <3>2. Landed(k)'
        BY <1>k, <1>0, <2>2, LandedAfter DEF Authors
      <3> QED  BY <1>k, <3>1, <3>2 DEF Fit, Written, Sighted
    <2> QED  BY <1>k, <1>6, <2>1, <2>2 DEF Write
  <1>7. CASE Insert(c)
    <2>1. CASE Quit(c)
      BY <1>k, <1>1, <2>1, Quits DEF Written
    <2>2. CASE history' = <<k>> /\ Goto(c, "head")
      <3>1. consumers'[c].pc = "head" /\ consumers'[c].key = k
        BY <1>k, <2>2, Goes
      <3>2. Landed(k)'
        BY <1>k, <2>2 DEF Landed
      <3> QED  BY <1>k, <3>1, <3>2 DEF Fit, Written, Sighted
    <2> QED  BY <1>k, <1>7, <2>1, <2>2 DEF Insert
  <1>8. CASE Stamp(c)
    <2>1. consumers'[c].pc = "head" /\ consumers'[c].key = k
      BY <1>k, <1>8, Goes DEF Stamp
    <2>2. Landed(k)'
      BY <1>k, <1>0, <1>8, LandedStays DEF Stamp, At, Fit, Written
    <2> QED  BY <1>k, <2>1, <2>2 DEF Fit, Written, Sighted
  <1>9. CASE ReadHead(c)
    <2>1. consumers'[c].pc = "observe" /\ consumers'[c].key = k
          /\ consumers'[c].seen = HeadVersion
      BY <1>k, <1>9, Becomes DEF ReadHead
    <2>2. Landed(k) /\ history' = history /\ HeadVersion \in Nat
      BY <1>k, <1>0, <1>9, HeadNat DEF ReadHead, At, Fit, Written, artifact
    <2>3. Landed(k)' /\ HeadVersion \in 1..HeadVersion' /\ Ledger!LandedBy(k, HeadVersion)'
      BY <1>k, <2>2 DEF Landed, Ledger!LandedBy
    <2> QED  BY <1>k, <2>1, <2>2, <2>3 DEF Fit, Written, Sighted
  <1>10. CASE Observe(c)
    <2>1. CASE Turn(c, "fail")
      BY <1>k, <1>1, <2>1, Turns DEF Written
    <2>2. CASE Goto(c, "complete")
      <3>1. consumers'[c].pc = "complete" /\ consumers'[c].key = k
            /\ consumers'[c].seen = m.seen /\ k \in witnessed'
        BY <1>k, <1>10, <2>2, Goes DEF Observe
      <3>2. Fit(m)' /\ m.pc = "observe"
        BY <1>k, <1>0, <1>10, FitStays DEF Observe, At, Fit
      <3> QED  BY <1>k, <3>1, <3>2 DEF Fit, Written, Sighted
    <2> QED  BY <1>k, <1>10, <2>1, <2>2 DEF Observe
  <1> QED  BY <1>k, <1>2, <1>3, <1>4, <1>5, <1>6, <1>7, <1>8, <1>9, <1>10 DEF Step

-----------------------------------------------------------------------------
(* What the step of a consumer does to the record of its key               *)

\* The record is kept as it is, ...
Kept(k) == idem'[k] = idem[k] /\ result' = result /\ contested' = contested

\* ... it is reserved by the consumer, ...
Taken(c, k) == /\ consumers[c].pc \in {"reserve", "retake"} /\ consumers'[c].pc = "permit"
               /\ idem[k] \notin Settled /\ idem'[k] = "executing"
               /\ result' = result /\ contested' = contested

\* ... failed, ...
Needed(c, k) == Landed(k) \/ \E d \in Consumers \ {c} : Works(d, k)
Failing(c, k) == /\ consumers[c].pc \in {"fail", "release"}
                 /\ consumers'[c].pc \in {"idle", "retake"}
                 /\ idem[k] = "executing" /\ idem'[k] = "failed" /\ result' = result
                 /\ Needed(c, k) => contested' = contested \cup {k}
                 /\ ~Needed(c, k) => contested' = contested

\* ... or completed.
Finishing(c, k) == /\ consumers[c].pc \in {"complete", "confirm"}
                   /\ consumers'[c].pc = "idle"
                   /\ idem[k] = "executing" /\ idem'[k] = "completed"
                   /\ result' = [result EXCEPT ![k] = consumers[c].seen]
                   /\ contested' = contested

RecordStep(c, k) == /\ \A j \in Keys \ {k} : idem'[j] = idem[j]
                    /\ Kept(k) \/ Taken(c, k) \/ Failing(c, k) \/ Finishing(c, k)

LEMMA FailStep ==
  ASSUME TypeOK, NEW c \in Consumers, NEW k \in Keys, k = consumers[c].key, Fail(c),
         result' = result, consumers[c].pc \in {"fail", "release"},
         consumers'[c].pc \in {"idle", "retake"}
  PROVE  RecordStep(c, k)
  <1>1. idem' = [idem EXCEPT ![k] = Failed(idem[k])] /\ idem \in [Keys -> KeyStatus]
    BY DEF Fail, Settle, TypeOK
  <1>2. contested' = IF idem[k] = "executing" /\ Needed(c, k)
                     THEN contested \cup {k} ELSE contested
    BY DEF Fail, Needed
  <1> QED  BY <1>1, <1>2 DEF RecordStep, Failing, Kept, Failed

LEMMA StepRecord ==
  ASSUME TypeOK, NEW c \in Consumers, Step(c), NEW k \in Keys, k = consumers[c].key
  PROVE  RecordStep(c, k)
  <1>0. idem \in [Keys -> KeyStatus] /\ result \in [Keys -> Nat]
    BY DEF TypeOK
  <1>1. CASE Reserve(c) \/ Retake(c)
    <2>1. CASE Reservable(idem[k]) /\ Take(k) /\ Goto(c, "permit")
      <3>1. idem' = [idem EXCEPT ![k] = "executing"] /\ idem[k] \notin Settled
        BY <2>1 DEF Take, Settle, Reserved, Reservable, Settled
      <3>2. consumers'[c].pc = "permit"
        BY <2>1, Goes
      <3> QED  BY <1>0, <1>1, <3>1, <3>2
               DEF Reserve, Retake, At, RecordStep, Taken, reports
    <2>2. CASE idem' = idem
      BY <1>1, <2>2 DEF Reserve, Retake, RecordStep, Kept, reports
    <2> QED  BY <1>1, <2>1, <2>2 DEF Reserve, Retake
  <1>2. CASE GiveUp(c) \/ Release(c)
    <2>1. consumers'[c].pc \in {"idle", "retake"}
      BY <1>2, Goes, Quits DEF GiveUp, Release
    <2> QED  BY <1>2, <2>1, FailStep DEF GiveUp, Release, At, reports
  <1>3. CASE Complete(c)
    <2>1. idem' = [idem EXCEPT ![k] = Completed(idem[k])] /\ consumers'[c].pc = "idle"
      BY <1>3, Quits DEF Complete, Settle
    <2>2. CASE idem[k] = "executing"
      BY <1>0, <1>3, <2>1, <2>2 DEF Complete, At, Completed, RecordStep, Finishing
    <2>3. CASE idem[k] # "executing"
      BY <1>0, <1>3, <2>1, <2>3 DEF Complete, Completed, RecordStep, Kept
    <2> QED  BY <2>2, <2>3
  <1>4. CASE Dispatch(c) \/ ReadPermit(c) \/ Compare(c) \/ Adopt(c) \/ Observe(c)
    BY <1>4 DEF Dispatch, ReadPermit, Compare, Adopt, Observe, RecordStep, Kept, reports
  <1>5. CASE Write(c) \/ Insert(c) \/ Stamp(c) \/ ReadHead(c)
    BY <1>5 DEF Write, Insert, Stamp, ReadHead, RecordStep, Kept, reports
  <1> QED  BY <1>1, <1>2, <1>3, <1>4, <1>5 DEF Step

\* A consumer comes to work by a reservation, and does not go back to writing.
WorkStep(c, k) ==
  \/ consumers'[c].pc \notin Granted
  \/ /\ consumers[c].pc \in Granted
     /\ consumers'[c].pc \in Unwritten => consumers[c].pc \in Unwritten /\ ~Lands(c)
  \/ Taken(c, k)

LEMMA StepWork ==
  ASSUME TypeOK, NEW c \in Consumers, Step(c), NEW k \in Keys, k = consumers[c].key
  PROVE  WorkStep(c, k)
  <1>1. CASE Reserve(c) \/ Retake(c)
    <2>1. CASE Reservable(idem[k]) /\ Take(k) /\ Goto(c, "permit")
      <3>1. idem'[k] = "executing" /\ idem[k] \notin Settled
        BY <2>1 DEF Take, Settle, Reserved, Reservable, Settled, TypeOK
      <3>2. consumers'[c].pc = "permit"
        BY <2>1, Goes
      <3> QED  BY <1>1, <3>1, <3>2 DEF Reserve, Retake, At, Taken, reports, WorkStep
    <2>2. CASE Turn(c, "probe") \/ Quit(c)
      BY <2>2, Turns, Quits DEF WorkStep, Granted, Unwritten
    <2> QED  BY <1>1, <2>1, <2>2 DEF Reserve, Retake
  <1>2. CASE GiveUp(c) \/ Release(c) \/ Complete(c)
    BY <1>2, Goes, Quits DEF GiveUp, Release, Complete, WorkStep, Granted, Unwritten
  <1>3. CASE ReadPermit(c) \/ Compare(c) \/ Adopt(c)
    BY <1>3, Becomes, Goes, Quits DEF ReadPermit, Compare, Adopt, WorkStep, Granted, Unwritten
  <1>4. CASE Dispatch(c)
    BY <1>4, Goes, Turns DEF Dispatch, At, Lands, WorkStep, Granted, Unwritten
  <1>5. CASE Write(c)
    <2>1. CASE Goto(c, "insert") /\ history' = history
      <3>1. history' # Append(history, consumers[c].key)
        <4>1. consumers[c].key \in Authors /\ history \in Seq(Authors)
          BY Rows, StepRow DEF Authors, TypeOK
        <4> QED  BY <2>1, <4>1, AppendProperties, LenProperties
      <3> QED  BY <1>5, <2>1, <3>1, Goes DEF Write, At, Lands, WorkStep, Granted, Unwritten
    <2>2. CASE Turn(c, "stamp") \/ Turn(c, "fail")
      BY <1>5, <2>2, Turns DEF Write, At, WorkStep, Granted, Unwritten
    <2> QED  BY <1>5, <2>1, <2>2 DEF Write
  <1>6. CASE Insert(c) \/ Stamp(c) \/ ReadHead(c) \/ Observe(c)
    BY <1>6, Becomes, Goes, Turns, Quits
       DEF Insert, Stamp, ReadHead, Observe, At, WorkStep, Granted, Unwritten
  <1> QED  BY <1>1, <1>2, <1>3, <1>4, <1>5, <1>6 DEF Step

-----------------------------------------------------------------------------
(* The invariant is kept                                                   *)

\* What the steps that are not a consumer's work do.
Outside == \/ \E c \in Consumers : Crash(c) \/ \E k \in Keys : Prepare(c, k)
           \/ \E k \in Keys : LeaseLapses(k)
           \/ OpenRevision \/ Revise \/ StampRevision
           \/ UNCHANGED vars

LEMMA NextSplit == [Next]_vars => Outside \/ \E c \in Consumers : Step(c)
  BY DEF Next, Outside

LEMMA OutsideKeeps == Outside => UNCHANGED <<idem, result, witnessed, contested>>
  BY DEF Outside, Crash, Prepare, LeaseLapses, OpenRevision, Revise, StampRevision, vars,
         reports

LEMMA OutsideHistory == TypeOK /\ Outside => history' = history \/ Edits
  BY DEF Outside, Crash, Prepare, LeaseLapses, OpenRevision, Revise, StampRevision, vars,
         artifact, Edits

\* A consumer starts or dies, or all stay.
LEMMA OutsideRows ==
  ASSUME TypeOK, Outside, NEW d \in Consumers
  PROVE  consumers'[d] = consumers[d] \/ consumers'[d].pc \in {"idle", "reserve"}
  BY DEF TypeOK, Outside, Crash, Quit, Free, Prepare, LeaseLapses, OpenRevision, Revise,
         StampRevision, vars

LEMMA FitOfRow ==
  ASSUME NEW d \in Consumers, consumers'[d] = consumers[d], Fit(consumers[d]),
         Grows, witnessed \subseteq witnessed'
  PROVE  Fit(consumers[d])'
  <1>1. PICK m : m = consumers[d]
    OBVIOUS
  <1>2. Fit(m)'
    BY <1>1, FitStays
  <1> QED  BY <1>1, <1>2 DEF Fit, Written, Sighted

LEMMA NextFit == TypeOK /\ ConsumersFit /\ RecordsTrue /\ [Next]_vars => ConsumersFit'
  <1> SUFFICES ASSUME TypeOK, ConsumersFit, RecordsTrue, [Next]_vars, NEW d \in Consumers
               PROVE  Fit(consumers[d])'
    BY DEF ConsumersFit
  <1>0. Grows /\ Fit(consumers[d])
    BY NextHistory, HistoryGrows DEF ConsumersFit
  <1>1. ASSUME NEW c \in Consumers, Step(c)
        PROVE  Fit(consumers[d])'
    <2>1. CASE d = c
      BY <1>1, <2>1, StepFit
    <2>2. CASE d # c
      BY <1>0, <1>1, <2>2, OthersStay, StepWitnessed, FitOfRow
    <2> QED  BY <2>1, <2>2
  <1>2. CASE Outside
    <2>1. CASE consumers'[d] = consumers[d]
      BY <1>0, <1>2, <2>1, OutsideKeeps, FitOfRow
    <2>2. CASE consumers'[d].pc \in {"idle", "reserve"}
      BY <2>2 DEF Fit, Written, Sighted
    <2> QED  BY <1>2, <2>1, <2>2, OutsideRows
  <1> QED  BY <1>1, <1>2, NextSplit

LEMMA NextTrue ==
  ASSUME TypeOK, ConsumersFit, RecordsTrue, [Next]_vars
  PROVE  RecordsTrue'
  <1>0. Grows /\ HistoryStep /\ \A p : Landed(p) => Landed(p)'
    BY NextHistory, HistoryGrows, LandedStays
  <1>1. ASSUME NEW c \in Consumers, Step(c)
        PROVE  RecordsTrue'
    <2>k. PICK k \in Keys : k = consumers[c].key
      BY <1>1, StepRow
    <2>1. provenance' = provenance \/ (provenance' = k /\ Landed(k)')
      <3>1. CASE Stamp(c)
        BY <1>0, <2>k, <3>1 DEF Stamp, At, ConsumersFit, Fit, Written
      <3>2. CASE Insert(c)
        <4>1. CASE history' = <<k>> /\ provenance' = k
          BY <4>1 DEF Landed
        <4> QED  BY <2>k, <3>2, <4>1 DEF Insert, artifact
      <3>3. CASE ~Stamp(c) /\ ~Insert(c)
        BY <1>1, <3>3 DEF Step, Reserve, Dispatch, GiveUp, ReadPermit, Compare, Adopt, Release,
             Retake, Write, ReadHead, Observe, Complete, artifact
      <3> QED  BY <3>1, <3>2, <3>3
    <2>2. editor' = editor
      BY <1>1 DEF Step, Reserve, Dispatch, GiveUp, ReadPermit, Compare, Adopt, Release, Retake,
             Write, Insert, Stamp, ReadHead, Observe, Complete
    <2>3. witnessed' = witnessed \/ (witnessed' = witnessed \cup {k} /\ Landed(k))
      <3>1. CASE Adopt(c) \/ Observe(c)
        BY <2>k, <3>1 DEF Adopt, Observe, At, ConsumersFit, Fit, Written
      <3>2. CASE ~Adopt(c) /\ ~Observe(c)
        BY <1>1, <3>2 DEF Step, Reserve, Dispatch, GiveUp, ReadPermit, Compare, Release, Retake,
             Write, Insert, Stamp, ReadHead, Complete, reports
      <3> QED  BY <3>1, <3>2
    <2>4. \A j \in Keys : /\ result'[j] # 0 => Landed(j)'
                          /\ idem'[j] = "completed" <=> result'[j] # 0
      <3>1. RecordStep(c, k)
        BY <1>1, <2>k, StepRecord
      <3>2. result \in [Keys -> Nat]
        BY DEF TypeOK
      <3>3. CASE Kept(k) \/ Taken(c, k) \/ Failing(c, k)
        BY <1>0, <3>1, <3>3
           DEF RecordStep, Kept, Taken, Failing, Settled, RecordsTrue
      <3>4. CASE Finishing(c, k)
        <4>1. Landed(k)' /\ consumers[c].seen # 0
          BY <1>0, <2>k, <3>4 DEF Finishing, ConsumersFit, Fit, Written, Sighted
        <4>2. \A j \in Keys \ {k} : result'[j] = result[j] /\ idem'[j] = idem[j]
          BY <3>1, <3>2, <3>4 DEF RecordStep, Finishing
        <4>3. result'[k] # 0 /\ idem'[k] = "completed"
          BY <3>2, <3>4, <4>1 DEF Finishing
        <4> QED  BY <1>0, <4>1, <4>2, <4>3 DEF RecordsTrue
      <3> QED  BY <3>1, <3>3, <3>4 DEF RecordStep
    <2> QED  BY <1>0, <2>1, <2>2, <2>3, <2>4 DEF RecordsTrue, Grows
  <1>2. CASE Outside
    <2>1. UNCHANGED <<idem, result, witnessed>>
      BY <1>2, OutsideKeeps
    <2>2. provenance' \in {provenance, editor.prov}
      BY <1>2 DEF Outside, Crash, Prepare, LeaseLapses, OpenRevision, Revise, StampRevision,
                  vars, artifact
    <2>3. /\ editor'.prov # NoKey => Landed(editor'.prov)
          /\ editor'.pc # "idle" => HeadVersion > 0
      <3>1. CASE OpenRevision
        <4>1. PICK p \in {provenance} \cup {k \in Keys : Landed(k)} :
                editor' = [pc |-> "revise", snap |-> HeadVersion, prov |-> p]
          BY <3>1 DEF OpenRevision
        <4>2. HeadVersion > 0
          BY <3>1, EmptySeq DEF OpenRevision, TypeOK
        <4> QED  BY <4>1, <4>2 DEF RecordsTrue
      <3>2. CASE Revise \/ StampRevision
        BY <3>2 DEF Revise, StampRevision, NoEdit, RecordsTrue
      <3>3. CASE editor' = editor
        BY <3>3 DEF RecordsTrue
      <3> QED  BY <1>2, <3>1, <3>2, <3>3 DEF Outside, Crash, Prepare, LeaseLapses, vars
    <2>4. /\ (provenance # NoKey => Landed(provenance))'
          /\ (editor.prov # NoKey => Landed(editor.prov))'
      BY <1>0, <2>2, <2>3 DEF RecordsTrue
    <2> QED  BY <1>0, <2>1, <2>3, <2>4 DEF RecordsTrue, Grows
  <1> QED  BY <1>1, <1>2, NextSplit

\* AloneOn, of the state after a step.
AloneAfter(k) ==
  /\ \A c, d \in Consumers : Works(c, k)' /\ Works(d, k)' => c = d
  /\ \A c \in Consumers : Works(c, k)' => idem'[k] \in Settled
  /\ Landed(k)' => /\ idem'[k] \in Settled
                   /\ \A c \in Consumers :
                        ~(consumers'[c].pc \in Unwritten /\ consumers'[c].key = k)

LEMMA UnwrittenWorks ==
  ASSUME NEW c \in Consumers, NEW k, consumers[c].pc \in Unwritten, consumers[c].key = k
  PROVE  Works(c, k)
  BY DEF Works, Granted

LEMMA LandsNow ==
  ASSUME TypeOK, NEW c \in Consumers, Step(c), NEW k
  PROVE  Landed(k)' => Landed(k) \/ (Lands(c) /\ k = consumers[c].key)
  <1>1. PICK w \in Keys : w = consumers[c].key
    BY StepRow
  <1>2. CASE history' = history
    BY <1>2 DEF Landed
  <1>3. CASE Lands(c)
    BY <1>1, <1>3, LandedAfter DEF Lands, Authors
  <1> QED  BY <1>2, <1>3, StepHistory

LEMMA StepAloneOther ==
  ASSUME TypeOK, NEW c \in Consumers, Step(c), NEW k \in Keys, k # consumers[c].key, AloneOn(k)
  PROVE  AloneAfter(k)
  <1>1. PICK j \in Keys : j = consumers[c].key
    BY StepRow
  <1>2. idem'[k] = idem[k]
    BY <1>1, StepRecord DEF RecordStep
  <1>3. consumers'[c].key # k /\ \A d \in Consumers \ {c} : consumers'[d] = consumers[d]
    <2>1. PICK r : RowOK(r) /\ Moves(c, r) /\ r.key \in {NoKey, consumers[c].key}
      BY StepRow DEF GoesOn
    <2> QED  BY <2>1, Moved
  <1>4. Landed(k)' => Landed(k)
    BY LandsNow
  <1> QED  BY <1>2, <1>3, <1>4 DEF AloneOn, AloneAfter, Works

LEMMA StepAloneOwn ==
  ASSUME TypeOK, NEW c \in Consumers, Step(c), NEW k \in Keys, k = consumers[c].key,
         AloneOn(k), k \notin contested'
  PROVE  AloneAfter(k)
  <1>0. /\ \A d \in Consumers \ {c} : consumers'[d] = consumers[d]
        /\ RecordStep(c, k) /\ WorkStep(c, k)
    BY OthersStay, StepRecord, StepWork
  <1>1. CASE Taken(c, k)
    <2>1. ~Landed(k) /\ \A d \in Consumers : ~Works(d, k)
      BY <1>1 DEF AloneOn, Taken
    <2>2. ~Landed(k)'
      BY <1>1, <2>1, LandsNow DEF Taken, Lands
    <2>3. idem'[k] \in Settled
      BY <1>1 DEF Taken, Settled
    <2>4. \A d \in Consumers \ {c} : ~Works(d, k)'
      BY <1>0, <2>1 DEF Works
    <2> QED  BY <2>2, <2>3, <2>4 DEF AloneAfter
  <1>2. CASE Failing(c, k)
    <2>1. ~Needed(c, k)
      BY <1>2 DEF Failing
    <2>2. ~Landed(k) /\ \A d \in Consumers \ {c} : ~Works(d, k)
      BY <2>1 DEF Needed
    <2>3. ~Landed(k)'
      BY <1>2, <2>2, LandsNow DEF Failing, Lands
    <2>4. \A d \in Consumers : ~Works(d, k)'
      BY <1>0, <1>2, <2>2 DEF Works, Failing, Granted, Unwritten
    <2> QED  BY <2>3, <2>4 DEF AloneAfter
  <1>3. CASE Kept(k) \/ Finishing(c, k)
    <2>1. idem[k] \in Settled => idem'[k] \in Settled
      BY <1>3 DEF Kept, Finishing, Settled
    <2>2. CASE consumers'[c].pc \notin Granted
      <3>1. ~Works(c, k)' /\ consumers'[c].pc \notin Unwritten
        BY <2>2 DEF Works, Granted
      <3>2. \A d \in Consumers \ {c} : Works(d, k)' => Works(d, k)
        BY <1>0 DEF Works
      <3>3. CASE Landed(k)
        BY <1>0, <2>1, <3>1, <3>2, <3>3 DEF AloneOn, AloneAfter
      <3>4. CASE Lands(c)
        <4>1. Works(c, k)
          BY <3>4 DEF Lands, Works, Granted, Unwritten
        <4>2. \A d \in Consumers \ {c} : ~Works(d, k)
          BY <4>1 DEF AloneOn
        <4>3. \A d \in Consumers \ {c} : ~(consumers[d].pc \in Unwritten /\ consumers[d].key = k)
          BY <4>2, UnwrittenWorks
        <4> QED  BY <1>0, <2>1, <3>1, <3>2, <4>1, <4>2, <4>3 DEF AloneOn, AloneAfter
      <3>5. CASE ~Landed(k) /\ ~Lands(c)
        <4>1. ~Landed(k)'
          BY <3>5, LandsNow
        <4> QED  BY <1>0, <2>1, <3>1, <3>2, <4>1 DEF AloneOn, AloneAfter
      <3> QED  BY <3>3, <3>4, <3>5
    <2>3. CASE /\ consumers[c].pc \in Granted
               /\ consumers'[c].pc \in Unwritten => consumers[c].pc \in Unwritten /\ ~Lands(c)
      <3>1. Works(c, k)
        BY <2>3 DEF Works
      <3>2. idem'[k] \in Settled /\ \A d \in Consumers \ {c} : ~Works(d, k)
        BY <2>1, <3>1 DEF AloneOn
      <3>3. \A d \in Consumers \ {c} :
              ~Works(d, k)' /\ ~(consumers'[d].pc \in Unwritten /\ consumers'[d].key = k)
        BY <1>0, <3>2, UnwrittenWorks DEF Works
      <3>4. Landed(k)' => consumers'[c].pc \notin Unwritten
        BY <2>3, LandsNow DEF AloneOn
      <3> QED  BY <3>2, <3>3, <3>4 DEF AloneAfter
    <2>4. CASE Taken(c, k)
      BY <1>1, <2>4
    <2> QED  BY <1>0, <2>2, <2>3, <2>4 DEF WorkStep
  <1> QED  BY <1>0, <1>1, <1>2, <1>3 DEF RecordStep

LEMMA OutsideAlone ==
  ASSUME TypeOK, Outside, NEW k \in Keys, AloneOn(k)
  PROVE  AloneAfter(k)
  <1>1. \A d \in Consumers : consumers'[d] = consumers[d] \/ consumers'[d].pc \in {"idle", "reserve"}
    BY OutsideRows
  <1>2. idem' = idem
    BY OutsideKeeps
  <1>3. Landed(k)' => Landed(k)
    <2>1. CASE history' = history
      BY <2>1 DEF Landed
    <2>2. CASE Edits
      BY <2>2, LandedAfter DEF Edits, Authors
    <2> QED  BY <2>1, <2>2, OutsideHistory
  <1>4. \A d \in Consumers : consumers'[d].pc \in Granted => consumers'[d] = consumers[d]
    BY <1>1 DEF Granted, Unwritten
  <1> QED  BY <1>2, <1>3, <1>4 DEF AloneOn, AloneAfter, Works, Granted

LEMMA NextAlone == TypeOK /\ OneWriter /\ [Next]_vars => OneWriter'
  <1> SUFFICES ASSUME TypeOK, OneWriter, [Next]_vars, NEW k \in Keys, k \notin contested'
               PROVE  AloneAfter(k)
    BY DEF OneWriter, AloneOn, AloneAfter
  <1>1. ASSUME NEW c \in Consumers, Step(c)
        PROVE  AloneAfter(k)
    <2>1. PICK j \in Keys : j = consumers[c].key
      BY <1>1, StepRow
    <2>2. contested \subseteq contested'
      BY <1>1, <2>1, StepRecord DEF RecordStep, Kept, Taken, Failing, Finishing
    <2>3. AloneOn(k)
      BY <2>2 DEF OneWriter
    <2> QED  BY <1>1, <2>3, StepAloneOther, StepAloneOwn
  <1>2. CASE Outside
    BY <1>2, OutsideKeeps, OutsideAlone DEF OneWriter
  <1> QED  BY <1>1, <1>2, NextSplit

LEMMA InitInv == Init => IInv
  <1> SUFFICES ASSUME Init PROVE IInv
    OBVIOUS
  <1>0. HeadVersion = 0 /\ history \in Seq(Keys \cup {Editor})
    BY EmptySeq DEF Init
  <1>1. TypeOK
    BY <1>0 DEF Init, TypeOK, KeyStatus, Free, NoEdit, ConsumerPC
  <1>2. ConsumersFit
    BY DEF Init, ConsumersFit, Fit, Free, Written, Sighted
  <1>3. RecordsTrue
    BY DEF Init, RecordsTrue, NoEdit
  <1>4. OneWriter
    BY <1>0 DEF Init, OneWriter, AloneOn, Works, Free, Granted, Unwritten, Landed
  <1> QED  BY <1>1, <1>2, <1>3, <1>4 DEF IInv

-----------------------------------------------------------------------------
(* Theorems                                                                *)

\* The invariant: records tell what is in the history, and a reservation that
\* was not failed under its key has one consumer at work.
THEOREM Invariance == Spec => []IInv
  <1>1. IInv /\ [Next]_vars => IInv'
    BY NextTyped, NextFit, NextTrue, NextAlone DEF IInv
  <1> QED  BY <1>1, InitInv, PTL DEF Spec

\* Records, permits, history and consumers stay within their types, whatever
\* version a late consumer stores or compares.
THEOREM TypeCorrect == Spec => []TypeOK
  <1>1. IInv => TypeOK
    BY DEF IInv
  <1> QED  BY <1>1, Invariance, PTL

\* At most one consumer works on a key at a time, and none may still write
\* once it has landed, unless its reservation was failed under it.
THEOREM WriterCorrect == Spec => []OneWriter
  <1>1. IInv => OneWriter
    BY DEF IInv
  <1> QED  BY <1>1, Invariance, PTL

\* The fabric implements FabricLedger: through crashes, reruns and edits a key
\* writes a second version only after its reservation was failed under it, and
\* a result names a witnessed version once and for all.
THEOREM LedgerCorrect == Spec => LedgerSpec
  <1>1. Init => Ledger!LedgerInit
    BY DEF Init, Ledger!LedgerInit
  <1>2. IInv /\ [Next]_vars
          => [Ledger!LedgerNext]_<<history, result, witnessed, contested>>
    <2> SUFFICES ASSUME IInv, [Next]_vars
                 PROVE  Ledger!LedgerNext \/ UNCHANGED <<history, result, witnessed, contested>>
      OBVIOUS
    <2>0. TypeOK /\ ConsumersFit /\ RecordsTrue /\ OneWriter
      BY DEF IInv
    <2>l. \A k : Ledger!Landed(k) <=> Landed(k)
      BY DEF Landed, Ledger!Landed, Ledger!LandedBy
    <2>1. ASSUME NEW c \in Consumers, Step(c)
          PROVE  Ledger!LedgerNext \/ UNCHANGED <<history, result, witnessed, contested>>
      <3>1. PICK k \in Keys : k = consumers[c].key
        BY <2>0, <2>1, StepRow
      <3>2. CASE Lands(c)
        <4>1. Works(c, k) /\ consumers[c].pc \in Unwritten
          BY <3>1, <3>2 DEF Lands, Works, Granted, Unwritten
        <4>2. k \in contested \/ (~Landed(k) /\ result[k] = 0)
          BY <2>0, <3>1, <4>1 DEF OneWriter, AloneOn, RecordsTrue
        <4>3. UNCHANGED <<result, witnessed, contested>>
          BY <2>1, <3>2 DEF Lands, Step, Reserve, Dispatch, GiveUp, ReadPermit, Compare, Adopt,
             Release, Retake, Write, Insert, Stamp, ReadHead, Observe, Complete, At, reports
        <4>4. Ledger!Land(k)
          BY <2>l, <3>1, <3>2, <4>2, <4>3 DEF Lands, Ledger!Land
        <4> QED  BY <4>4 DEF Ledger!LedgerNext
      <3>3. CASE history' = history /\ (Adopt(c) \/ Observe(c))
        <4>1. Landed(k)
          BY <2>0, <3>1, <3>3 DEF Adopt, Observe, At, ConsumersFit, Fit, Written
        <4>2. Ledger!Witness(k)
          BY <2>l, <3>1, <3>3, <4>1 DEF Adopt, Observe, Ledger!Witness
        <4> QED  BY <4>2 DEF Ledger!LedgerNext
      <3>4. CASE history' = history /\ ~Adopt(c) /\ ~Observe(c)
        <4>1. witnessed' = witnessed
          BY <2>1, <3>4 DEF Step, Reserve, Dispatch, GiveUp, ReadPermit, Compare, Release,
             Retake, Write, Insert, Stamp, ReadHead, Complete, reports
        <4>2. RecordStep(c, k)
          BY <2>0, <2>1, <3>1, StepRecord
        <4>3. CASE Kept(k) \/ Taken(c, k)
          BY <3>4, <4>1, <4>3 DEF Kept, Taken
        <4>4. CASE Failing(c, k)
          <5>1. result[k] = 0
            BY <2>0, <4>4 DEF Failing, RecordsTrue
          <5> QED  BY <3>4, <4>1, <4>4, <5>1 DEF Failing, Ledger!Excuse, Ledger!LedgerNext
        <4>5. CASE Finishing(c, k)
          <5>1. PICK v : v = consumers[c].seen
            OBVIOUS
          <5>2. v \in 1..Len(history) /\ Ledger!LandedBy(k, v)
            BY <2>0, <3>1, <4>5, <5>1 DEF Finishing, ConsumersFit, Fit, Sighted
          <5>3. k \in witnessed /\ result[k] = 0
            BY <2>0, <3>1, <4>5 DEF Finishing, ConsumersFit, Fit, RecordsTrue
          <5>4. Ledger!Report(k)
            BY <3>4, <4>1, <4>5, <5>1, <5>2, <5>3 DEF Finishing, Ledger!Report
          <5> QED  BY <5>4 DEF Ledger!LedgerNext
        <4> QED  BY <4>2, <4>3, <4>4, <4>5 DEF RecordStep
      <3> QED  BY <2>0, <2>1, <3>2, <3>3, <3>4, StepHistory
    <2>2. CASE Outside
      <3>1. UNCHANGED <<result, witnessed, contested>>
        BY <2>2, OutsideKeeps
      <3>2. CASE Edits
        <4>1. history # <<>>
          BY <2>0, <3>2, EmptySeq DEF Edits, RecordsTrue
        <4> QED  BY <3>1, <3>2, <4>1 DEF Edits, Ledger!Edit, Ledger!LedgerNext
      <3> QED  BY <2>0, <2>2, <3>1, <3>2, OutsideHistory
    <2> QED  BY <2>1, <2>2, NextSplit
  <1> QED  BY <1>1, <1>2, Invariance, PTL DEF Spec, LedgerSpec, Ledger!LedgerSpec

=============================================================================
