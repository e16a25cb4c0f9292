--------------------------- MODULE ExecutionFabric ---------------------------
(***************************************************************************)
(* The wave execution consumer of the execution fabric                     *)
(* (agency/execution_fabric/consumer.py) for one artifact of a mission.    *)
(* Several processes may execute the mission at once, die and execute it   *)
(* again; each execution of the cell is named by an idempotency key, and   *)
(* other inputs give another key for the same artifact.  People revise and *)
(* restore the artifact meanwhile (persistence/projects.py).               *)
(*                                                                         *)
(* The cells of a sub-wave share no artifact (_sub_waves), so the steps of *)
(* a process that concern one artifact are a sequence: a consumer handles  *)
(* one key at a time.  One transaction, or one execution of a skill, is    *)
(* one action.  A cell that is not eligible writes nothing and is left     *)
(* out, as are project events, fingerprints and the history rows, which no *)
(* decision reads; a consumer that one of those writes raises in is one    *)
(* that dies.                                                              *)
(***************************************************************************)
EXTENDS Naturals, Sequences, IdempotencyRecords

CONSTANTS Consumers,     \* processes in execute_mission
          Keys,          \* idempotency keys of the cell, one per input hash
          Editor,        \* the people who revise the artifact
          NoKey,         \* no provenance of an execution
          NoPermit,      \* no permit of a key is stored
          MaxUpsets      \* bound: consumers that die, leases that lapse under
                         \* a live one, skills that fail, readbacks that do
                         \* not match and revisions by people, together

ASSUME FabricAssumption ==
  /\ {Editor, NoKey} \cap Keys = {}
  /\ NoPermit \notin Nat
  /\ MaxUpsets \in Nat

\* From "permit" to "complete" a consumer works under a reservation it was
\* granted; "probe" to "release" reconcile the reservation of another.
Unwritten == {"permit", "write", "insert"}
Granted   == Unwritten \cup {"stamp", "head", "observe", "complete", "fail"}
ConsumerPC == Granted \cup {"idle", "reserve", "probe", "compare", "adopt",
                            "confirm", "release", "retake"}

VARIABLES
  idem,       \* idempotency record of each key
  lapsed,     \* whether updated_at of the record is older than lease_seconds
  permit,     \* pre-image version in the dispatch permit of each key
  history,    \* writer of each version of the artifact; the head is the last
  provenance, \* key in provenance_ref of the artifact's metadata
  witnessed,  \* keys with an execution and an observation receipt
  result,     \* version in the stored result of each key, 0 if there is none
  consumers,  \* per process: pc, key, snapshot version, version it has read
  editor,     \* the revision in progress: pc, version and provenance read
  contested,  \* history: keys whose reservation was failed although they had
              \* landed, or under a consumer that was working
  upsets      \* upsets so far

vars == <<idem, lapsed, permit, history, provenance, witnessed, result,
          consumers, editor, contested, upsets>>

Free == [pc |-> "idle", key |-> NoKey, snap |-> 0, seen |-> 0]
NoEdit == [pc |-> "idle", snap |-> 0, prov |-> NoKey]

TypeOK ==
  /\ idem \in [Keys -> KeyStatus]
  /\ lapsed \in [Keys -> BOOLEAN]
  /\ permit \in [Keys -> Nat \cup {NoPermit}]
  /\ history \in Seq(Keys \cup {Editor})
  /\ provenance \in Keys \cup {NoKey}
  /\ witnessed \subseteq Keys
  /\ result \in [Keys -> Nat]
  /\ consumers \in [Consumers -> [pc : ConsumerPC, key : Keys \cup {NoKey},
                                  snap : Nat, seen : Nat \cup {NoPermit}]]
  /\ \A c \in Consumers : consumers[c].pc # "idle" => consumers[c].key \in Keys
  /\ editor \in [pc : {"idle", "revise", "stamp"}, snap : Nat, prov : Keys \cup {NoKey}]
  /\ contested \subseteq Keys
  /\ upsets \in Nat

Init ==
  /\ idem = [k \in Keys |-> "absent"]
  /\ lapsed = [k \in Keys |-> FALSE]
  /\ permit = [k \in Keys |-> NoPermit]
  /\ history = <<>>
  /\ provenance = NoKey
  /\ witnessed = {}
  /\ result = [k \in Keys |-> 0]
  /\ consumers = [c \in Consumers |-> Free]
  /\ editor = NoEdit
  /\ contested = {}
  /\ upsets = 0

-----------------------------------------------------------------------------

HeadVersion == Len(history)
Upset == upsets < MaxUpsets /\ upsets' = upsets + 1

Works(c, k) == consumers[c].pc \in Granted /\ consumers[c].key = k

At(c, pc) == consumers[c].pc = pc
Become(c, pc, snap, seen) ==
  consumers' = [consumers EXCEPT ![c] =
                  [pc |-> pc, key |-> consumers[c].key, snap |-> snap, seen |-> seen]]
Goto(c, pc) == Become(c, pc, consumers[c].snap, consumers[c].seen)
Turn(c, pc) == Become(c, pc, 0, 0)  \* what it has read is of no more use
Quit(c) == consumers' = [consumers EXCEPT ![c] = Free]

artifact == <<history, provenance>>
reports  == <<witnessed, result>>

\* The history of the artifact has a version by k.
Landed(k) == \E v \in 1..HeadVersion : history[v] = k

-----------------------------------------------------------------------------
(* Phase 1, intent, and the dispatch                                       *)

\* _prepare: the snapshot version is the head at this point.
Prepare(c, k) ==
  /\ At(c, "idle")
  /\ consumers' = [consumers EXCEPT ![c] =
                     [pc |-> "reserve", key |-> k, snap |-> HeadVersion, seen |-> 0]]
  /\ UNCHANGED <<idem, lapsed, permit, artifact, reports, editor, contested, upsets>>

\* Every write of a record sets its updated_at.
Settle(k, status) == /\ idem' = [idem EXCEPT ![k] = status]
                     /\ lapsed' = [lapsed EXCEPT ![k] = FALSE]

\* The reservation of k is new, and its lease begins.
Take(k) == Settle(k, Reserved(idem[k]))

\* Slip: a reservation that is executing blocks its cell, lapsed or not.
ReserveNoReconcile(c) ==
  LET k == consumers[c].key IN
  /\ At(c, "reserve")
  /\ \/ Reservable(idem[k]) /\ Take(k) /\ Goto(c, "permit")
     \/ ~Reservable(idem[k]) /\ Quit(c) /\ UNCHANGED <<idem, lapsed>>
  /\ UNCHANGED <<permit, artifact, reports, editor, contested, upsets>>

\* _intent: a new reservation is worked under, one that is executing is
\* reconciled when its lease has lapsed; a completed one is replayed.
Reserve(c) ==
  LET k == consumers[c].key IN
  /\ At(c, "reserve")
  /\ \/ /\ Reservable(idem[k])
        /\ Take(k)
        /\ Goto(c, "permit")
     \/ /\ idem[k] = "executing" /\ lapsed[k]
        /\ Turn(c, "probe")
        /\ UNCHANGED <<idem, lapsed>>
     \/ /\ idem[k] = "completed" \/ (idem[k] = "executing" /\ ~lapsed[k])
        /\ Quit(c)
        /\ UNCHANGED <<idem, lapsed>>
  /\ UNCHANGED <<permit, artifact, reports, editor, contested, upsets>>

\* put_dispatch_permit: one row per key, overwritten by the next attempt.
\* _dispatch then touches no database: its attempts, the permit's expiry, the
\* validators and the timeout end in a result or in a failure.
Dispatch(c) ==
  /\ At(c, "permit")
  /\ permit' = [permit EXCEPT ![consumers[c].key] = consumers[c].snap]
  /\ \/ Goto(c, "write") /\ UNCHANGED upsets
     \/ Turn(c, "fail") /\ Upset
  /\ UNCHANGED <<idem, lapsed, artifact, reports, editor, contested>>

-----------------------------------------------------------------------------
(* Reconciliation                                                          *)

\* list_dispatch_permits
ReadPermit(c) ==
  /\ At(c, "probe")
  /\ Become(c, "compare", 0, permit[consumers[c].key])
  /\ UNCHANGED <<idem, lapsed, permit, artifact, reports, editor, contested, upsets>>

\* Slip: a head newer than the pre-image is taken for the crashed write.
CompareVersionOnly(c) ==
  LET Ours == consumers[c].seen # NoPermit /\ HeadVersion > consumers[c].seen IN
  /\ At(c, "compare")
  /\ \/ Ours /\ Become(c, "adopt", 0, HeadVersion)
     \/ ~Ours /\ consumers[c].seen = HeadVersion /\ Become(c, "release", HeadVersion, 0)
     \/ ~Ours /\ consumers[c].seen # HeadVersion /\ Quit(c)
  /\ UNCHANGED <<idem, lapsed, permit, artifact, reports, editor, contested, upsets>>

\* The head names the key: adopt it.  The head is the pre-image: nothing
\* landed.  Anything else: RECONCILE_DIVERGENT.
Compare(c) ==
  LET Ours == provenance = consumers[c].key IN
  /\ At(c, "compare")
  /\ \/ Ours /\ Become(c, "adopt", 0, HeadVersion)
     \/ ~Ours /\ consumers[c].seen = HeadVersion /\ Become(c, "release", HeadVersion, 0)
     \/ ~Ours /\ consumers[c].seen # HeadVersion /\ Quit(c)
  /\ UNCHANGED <<idem, lapsed, permit, artifact, reports, editor, contested, upsets>>

\* The receipts of an adopted head; whether it reads back is not looked at.
Adopt(c) ==
  /\ At(c, "adopt")
  /\ witnessed' = witnessed \cup {consumers[c].key}
  /\ Goto(c, "confirm")
  /\ UNCHANGED <<idem, lapsed, permit, artifact, result, editor, contested, upsets>>

\* fail_idempotency, with a note of the cases in which it takes the
\* reservation from someone who needs it.
Fail(c) ==
  LET k == consumers[c].key
      Needed == Landed(k) \/ \E d \in Consumers \ {c} : Works(d, k)
  IN /\ Settle(k, Failed(idem[k]))
     /\ contested' = IF idem[k] = "executing" /\ Needed
                     THEN contested \cup {k} ELSE contested

Release(c) ==
  /\ At(c, "release")
  /\ Fail(c)
  /\ Goto(c, "retake")
  /\ UNCHANGED <<permit, artifact, reports, editor, upsets>>

\* The second reserve_idempotency of _reconcile: only "new" goes on.
Retake(c) ==
  LET k == consumers[c].key IN
  /\ At(c, "retake")
  /\ \/ Reservable(idem[k]) /\ Take(k) /\ Goto(c, "permit")
     \/ ~Reservable(idem[k]) /\ Quit(c) /\ UNCHANGED <<idem, lapsed>>
  /\ UNCHANGED <<permit, artifact, reports, editor, contested, upsets>>

-----------------------------------------------------------------------------
(* Phase 2: commit                                                         *)

\* The reservation of a failed dispatch, a write collision or a readback that
\* does not match.
GiveUp(c) ==
  /\ At(c, "fail")
  /\ Fail(c)
  /\ Quit(c)
  /\ UNCHANGED <<permit, artifact, reports, editor, upsets>>

\* create_project_artifact looks the artifact up before it inserts it;
\* record_artifact_revision compares and sets the version.
Write(c) ==
  LET me == consumers[c] IN
  /\ At(c, "write")
  /\ \/ me.snap = 0 /\ HeadVersion = 0 /\ Goto(c, "insert") /\ UNCHANGED history
     \/ /\ me.snap > 0 /\ me.snap = HeadVersion
        /\ history' = Append(history, me.key)
        /\ Turn(c, "stamp")
     \/ me.snap # HeadVersion /\ Turn(c, "fail") /\ UNCHANGED history
  /\ UNCHANGED <<idem, lapsed, permit, provenance, reports, editor, contested, upsets>>

\* The INSERT of create_artifact carries the metadata; on an artifact that
\* has appeared meanwhile it raises, which nothing catches.
Insert(c) ==
  /\ At(c, "insert")
  /\ \/ /\ HeadVersion = 0
        /\ history' = <<consumers[c].key>>
        /\ provenance' = consumers[c].key
        /\ Goto(c, "head")
     \/ HeadVersion > 0 /\ Quit(c) /\ UNCHANGED artifact
  /\ UNCHANGED <<idem, lapsed, permit, reports, editor, contested, upsets>>

\* _set_metadata of a revision: a transaction of its own, without a look at
\* the version.
Stamp(c) ==
  /\ At(c, "stamp")
  /\ provenance' = consumers[c].key
  /\ Goto(c, "head")
  /\ UNCHANGED <<idem, lapsed, permit, history, reports, editor, contested, upsets>>

\* get_artifact after the write: the head may be another's by now.
ReadHead(c) ==
  /\ At(c, "head")
  /\ Become(c, "observe", 0, HeadVersion)
  /\ UNCHANGED <<idem, lapsed, permit, artifact, reports, editor, contested, upsets>>

\* _write_receipts: upserted by key; the readback matches, or it does not.
Observe(c) ==
  /\ At(c, "observe")
  /\ witnessed' = witnessed \cup {consumers[c].key}
  /\ \/ Goto(c, "complete") /\ UNCHANGED upsets
     \/ Turn(c, "fail") /\ Upset
  /\ UNCHANGED <<idem, lapsed, permit, artifact, result, editor, contested>>

\* complete_idempotency, of the consumer's own work or of an adopted head.
Complete(c) ==
  LET k == consumers[c].key IN
  /\ At(c, "complete") \/ At(c, "confirm")
  /\ Settle(k, Completed(idem[k]))
  /\ result' = IF idem[k] = "executing"
               THEN [result EXCEPT ![k] = consumers[c].seen] ELSE result
  /\ Quit(c)
  /\ UNCHANGED <<permit, artifact, witnessed, editor, contested, upsets>>

-----------------------------------------------------------------------------
(* People, time and crashes                                                *)

\* revise_project_artifact reads the metadata and keeps its provenance;
\* restore_artifact_version takes that of an earlier version.  Merges of a
\* branch, which name the branch, are left out.
OpenRevision ==
  /\ editor.pc = "idle" /\ history # <<>>
  /\ \E p \in {provenance} \cup {k \in Keys : Landed(k)} :
       editor' = [pc |-> "revise", snap |-> HeadVersion, prov |-> p]
  /\ Upset
  /\ UNCHANGED <<idem, lapsed, permit, artifact, reports, consumers, contested>>

Revise ==
  /\ editor.pc = "revise"
  /\ \/ /\ editor.snap = HeadVersion
        /\ history' = Append(history, Editor)
        /\ editor' = [pc |-> "stamp", snap |-> editor.snap, prov |-> editor.prov]
     \/ editor.snap # HeadVersion /\ editor' = NoEdit /\ UNCHANGED history
  /\ UNCHANGED <<idem, lapsed, permit, provenance, reports, consumers, contested, upsets>>

\* Slip: the provenance of a revision names its author.
StampAuthor ==
  /\ editor.pc = "stamp"
  /\ provenance' = Editor
  /\ editor' = NoEdit
  /\ UNCHANGED <<idem, lapsed, permit, history, reports, consumers, contested, upsets>>

StampRevision ==
  /\ editor.pc = "stamp"
  /\ provenance' = editor.prov
  /\ editor' = NoEdit
  /\ UNCHANGED <<idem, lapsed, permit, history, reports, consumers, contested, upsets>>

\* updated_at of an executing record falls behind the lease.  The attempts of
\* a skill and the cells of its group may take longer than lease_seconds.
LeaseLapses(k) ==
  /\ idem[k] = "executing" /\ ~lapsed[k]
  /\ lapsed' = [lapsed EXCEPT ![k] = TRUE]
  /\ IF \E c \in Consumers : Works(c, k)
     THEN Upset ELSE UNCHANGED upsets
  /\ UNCHANGED <<idem, permit, artifact, reports, consumers, editor, contested>>

\* The process is killed, or a write raises.
Crash(c) ==
  /\ ~At(c, "idle")
  /\ Quit(c)
  /\ Upset
  /\ UNCHANGED <<idem, lapsed, permit, artifact, reports, editor, contested>>

-----------------------------------------------------------------------------

Step(c) == \/ Reserve(c) \/ Dispatch(c) \/ GiveUp(c)
           \/ ReadPermit(c) \/ Compare(c) \/ Adopt(c) \/ Release(c) \/ Retake(c)
           \/ Write(c) \/ Insert(c) \/ Stamp(c) \/ ReadHead(c) \/ Observe(c)
           \/ Complete(c)

Next == \/ \E c \in Consumers : \/ Step(c)
                                \/ Crash(c)
                                \/ \E k \in Keys : Prepare(c, k)
        \/ \E k \in Keys : LeaseLapses(k)
        \/ OpenRevision \/ Revise \/ StampRevision

Spec == Init /\ [][Next]_vars

\* A process that is running goes on, time passes, and someone executes the
\* mission again as long as it has not succeeded (the report says what is
\* blocked or failed).
Fairness == /\ \A c \in Consumers : WF_vars(Step(c))
            /\ \A k \in Keys : /\ WF_vars(LeaseLapses(k))
                               /\ SF_vars(\E c \in Consumers : Prepare(c, k))

FairSpec == Spec /\ Fairness

-----------------------------------------------------------------------------
(* Properties                                                              *)

Ledger == INSTANCE FabricLedger WITH excused <- contested

\* The fabric keeps its ledger: through crashes, lapsed leases, reruns and
\* edits, a key writes a second version only after its reservation was failed
\* under it (consumer.py:395 "adopt it, never write a second version"), and
\* what is reported as succeeded landed, was witnessed and is never reported
\* otherwise.
LedgerSpec == Ledger!LedgerSpec

\* A reservation nobody works under, whose write can be told to have landed
\* or not to have begun.
Abandoned(k) == /\ idem[k] = "executing"
                /\ \A c \in Consumers : ~Works(c, k)
                /\ provenance = k \/ permit[k] = HeadVersion

\* Reconcile before retry (docs/execution-fabric.md step 5): an abandoned
\* reservation does not block its cell for ever.
AbandonedRecovered == \A k \in Keys : Abandoned(k) ~> ~Abandoned(k)

=============================================================================
