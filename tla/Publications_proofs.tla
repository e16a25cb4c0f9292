------------------------- MODULE Publications_proofs -------------------------
(***************************************************************************)
(* Theorems about Publications, for any number of versions, times, steps   *)
(* of a journey, jobs, ticks and faults.                                   *)
(***************************************************************************)
EXTENDS Publications, TLAPS

USE ScheduleAssumption, PipelineAssumption

(***************************************************************************)
(* What a tick knows of the job it has claimed.                            *)
(***************************************************************************)
Unpublished == {"send", "request", "execute", "publish"}
Delivering == Unpublished \cup {"verify", "confirm", "undo"}

\* A tick at work has a job.
HasJob == \A w \in Ticks : tick[w].pc # "idle" => Job(w) \in Jobs

\* The job of a tick that delivers is ENQUEUED ...
OwnsJob == \A w \in Ticks :
  tick[w].pc \in Delivering => jobs[Job(w)] = "ENQUEUED" /\ Job(w).kind # "REFRESH"

\* ... and is no other tick's.
OwnsAlone == \A v, w \in Ticks :
  v # w /\ tick[v].pc \in Delivering /\ tick[w].pc \in Delivering => Job(v) # Job(w)

\* The provider is called once, by the tick that has claimed the job.
CallsCounted ==
  /\ \A j \in Jobs : /\ calls[j] <= 1
                     /\ jobs[j] \in {"none", "WAITING", "CANCELLED"} => calls[j] = 0
  /\ \A w \in Ticks : tick[w].pc \in Unpublished => calls[Job(w)] = 0

Owned == HasJob /\ OwnsJob /\ OwnsAlone /\ CallsCounted

\* A tick confirms what it has read back, and a job is DELIVERED by that.
ReadBack ==
  /\ \A w \in Ticks : tick[w].pc = "confirm" =>
        attempts[Job(w)] = "VERIFIED" /\ published[Job(w)] # Unsent
  /\ DeliveredVerified

\* Approvals are of versions somebody approved, also those a tick has read, and
\* a tick that is past its check asks for such a version.
ApprovalsBound ==
  /\ item.approved \in approvals \cup {0}
  /\ \A w \in Ticks : /\ Read(w).approved \in approvals \cup {0}
                      /\ tick[w].pc \in {"execute", "publish"} => Read(w).version \in approvals
  /\ PublishedWasApproved

-----------------------------------------------------------------------------
(* The steps of editors                                                    *)

\* The table of transitions stays within the states.
LEMMA TransitionStates ==
    ASSUME NEW s \in ContentState
    PROVE  CONTENT_TRANSITIONS[s] \subseteq ContentState
  BY DEF ContentState, CONTENT_TRANSITIONS

LEMMA SeenItem ==
    ASSUME NEW s \in ContentState, NEW v \in 1..MaxVersion, NEW a \in 0..MaxVersion
    PROVE  /\ Seen(s, v, a) \in Item
           /\ Seen(s, v, a).state = s /\ Seen(s, v, a).version = v /\ Seen(s, v, a).approved = a
  BY DEF Seen, Item

\* Editors insert jobs, cancel those that wait, and add approvals.
EditorEffects ==
  /\ approvals \subseteq approvals'
  /\ item'.approved \in approvals' \cup {item.approved, 0}
  /\ \A j \in Jobs : \/ jobs'[j] = jobs[j]
                     \/ jobs[j] = "WAITING" /\ jobs'[j] = "CANCELLED"
                     \/ jobs[j] = "none" /\ jobs'[j] = "WAITING"

LEMMA CancelledJobs ==
    ASSUME ContentTypeOK
    PROVE  /\ Cancelled \in [Jobs -> JobStatus \cup {"none"}]
           /\ \A j \in Jobs : \/ Cancelled[j] = jobs[j]
                              \/ jobs[j] = "WAITING" /\ Cancelled[j] = "CANCELLED"
  BY DEF Cancelled, ContentTypeOK, JobStatus

LEMMA InsertedJob ==
    ASSUME ContentTypeOK, NEW j \in Jobs, InsertJob(j)
    PROVE  /\ jobs' \in [Jobs -> JobStatus \cup {"none"}]
           /\ \A k \in Jobs : \/ jobs'[k] = jobs[k]
                              \/ jobs[k] = "none" /\ jobs'[k] = "WAITING"
  BY DEF InsertJob, ContentTypeOK, JobStatus

LEMMA EditorSteps ==
    ASSUME ContentTypeOK, ContentNext
    PROVE  ContentTypeOK' /\ EditorEffects
<1>1. ASSUME NEW target \in Targets, TransitionItem(target) PROVE ContentTypeOK' /\ EditorEffects
  <2>1. target \in ContentState
    BY <1>1, TransitionStates DEF TransitionItem, MayMove, ContentTypeOK, Item
  <2>2. /\ item' \in Item
        /\ item'.approved \in {item.approved, item.version, 0}
        /\ item'.approved = item.version /\ item'.approved # item.approved => target = "APPROVED"
        /\ item'.version = item.version
    BY <1>1, <2>1 DEF TransitionItem, Seen, ContentTypeOK, Item
  <2>3. approvals' \in SUBSET (1..MaxVersion) /\ approvals \subseteq approvals'
    BY <1>1 DEF TransitionItem, ContentTypeOK, Item
  <2>4. target = "APPROVED" => item.version \in approvals'
    BY <1>1 DEF TransitionItem
  <2>5. jobs' \in {jobs, Cancelled} /\ edit' = edit
    BY <1>1 DEF TransitionItem
  <2> QED
    BY <2>2, <2>3, <2>4, <2>5, CancelledJobs DEF ContentTypeOK, EditorEffects, Item
<1>2. CASE OpenEdit
  BY <1>2 DEF OpenEdit, ContentTypeOK, EditorEffects, Item, ContentState, CONTENT_TRANSITIONS
<1>3. CASE SaveEdit
  <2>1. edit' = NoEdit /\ approvals' = approvals
    BY <1>3 DEF SaveEdit
  <2>2. CASE item.version = edit.version
    <3>1. edit.state \in ContentState /\ edit.version + 1 \in 1..MaxVersion
      BY <1>3 DEF SaveEdit, ContentTypeOK
    <3>2. jobs' = Cancelled
      BY <1>3, <2>2 DEF SaveEdit
    <3>3. item' = Seen(edit.state, item.version + 1, item.approved)
      BY <1>3, <2>2 DEF SaveEdit
    <3>4. item' \in Item /\ item'.approved = item.approved
      BY <2>2, <3>1, <3>3 DEF Seen, ContentTypeOK, Item
    <3> QED
      BY <2>1, <3>2, <3>4, CancelledJobs DEF ContentTypeOK, EditorEffects
  <2>3. CASE item.version # edit.version
    BY <2>1, <2>3, <1>3 DEF SaveEdit, ContentTypeOK, EditorEffects, Item
  <2> QED
    BY <2>2, <2>3
<1>4. ASSUME NEW j \in Jobs, InsertJob(j), item' \in {item, Seen("SCHEDULED", item.version, item.approved)},
             UNCHANGED <<approvals, edit>>
      PROVE  ContentTypeOK' /\ EditorEffects
  BY <1>4, InsertedJob DEF ContentTypeOK, EditorEffects, Seen, Item, ContentState, CONTENT_TRANSITIONS
<1>5. CASE ScheduleRefresh
  BY <1>4, <1>5 DEF ScheduleRefresh, Jobs, RefreshJobs, ContentTypeOK, Item
<1>6. ASSUME NEW at \in Times, ScheduleItem(at) PROVE ContentTypeOK' /\ EditorEffects
  BY <1>4, <1>6 DEF ScheduleItem, Jobs, PublishJobs, ContentTypeOK, Item
<1>7. ASSUME NEW step \in Steps, ScheduleStep(step) PROVE ContentTypeOK' /\ EditorEffects
  BY <1>4, <1>7 DEF ScheduleStep, Jobs, JourneyJobs
<1> QED
  BY <1>1, <1>2, <1>3, <1>5, <1>6, <1>7 DEF ContentNext

-----------------------------------------------------------------------------
(* Types                                                                   *)

\* The states a tick moves the item to are states.
LEMMA StateNames ==
    {"DUE", "PUBLISHING", "PUBLISHED", "VERIFIED", "SCHEDULED", "REFRESH_DUE", "IDEA"} \subseteq ContentState
  BY DEF ContentState, CONTENT_TRANSITIONS

\* A tick moves the state of the item and nothing else of it.
ItemMoved == item' \in Item /\ item'.approved = item.approved /\ item'.version = item.version

LEMMA Moved ==
    ASSUME TypeOK, NEW w \in Ticks, NEW state \in ContentState, MoveItem(w, state) \/ KeepItem
    PROVE  ItemMoved
  BY DEF MoveItem, KeepItem, Seen, ItemMoved, TypeOK, ContentTypeOK, Item

\* What Report does to the jobs.
LEMMA Reported ==
    ASSUME TypeOK, NEW w \in Ticks, NEW status \in JobStatus, Report(w, status)
    PROVE  /\ jobs' \in [Jobs -> JobStatus \cup {"none"}]
           /\ faults' \in 0..MaxFaults
           /\ tick' = [tick EXCEPT ![w] = NoTick]
  BY DEF Report, End, SetJob, Smooth, Fault, TypeOK, ContentTypeOK, PipelineTypeOK

LEMMA NothingTyped == NoItem \in Item /\ Unsent \in [version : 0..MaxVersion, body : 0..MaxVersion]
  BY StateNames DEF NoItem, Seen, Item, Unsent

TickType == [pc : {"idle", "decide", "send", "request", "execute", "publish", "verify", "confirm", "undo"},
             job : Jobs \cup {NoJob}, item : Item, body : 0..MaxVersion]

\* What a tick has, and what it goes on with.
LEMMA TickFields ==
    ASSUME TypeOK, NEW w \in Ticks
    PROVE  /\ tick[w] \in TickType /\ Job(w) \in Jobs \cup {NoJob} /\ Read(w) \in Item
           /\ tick[w].body \in 0..MaxVersion
  BY DEF TypeOK, PipelineTypeOK, TickType, Job, Read

LEMMA Continued ==
    ASSUME TypeOK, NEW w \in Ticks, NEW p \in {"send", "request", "execute", "verify", "confirm", "undo"},
           NEW i \in Item, NEW b \in 0..MaxVersion, Continue(w, p, i, b)
    PROVE  tick' \in [Ticks -> TickType]
  BY TickFields DEF Continue, TypeOK, PipelineTypeOK, TickType

LEMMA NoTickTyped == NoTick \in TickType
  BY NothingTyped DEF NoTick, TickType

LEMMA TickTypes ==
    ASSUME TypeOK, HasJob, TickNext
    PROVE  TypeOK'
<1> USE DEF TickType
<1>1. ASSUME NEW w \in Ticks, NEW j \in Jobs, TakeJob(w, j) PROVE TypeOK'
  BY <1>1 DEF TakeJob, TypeOK, ContentTypeOK, PipelineTypeOK, content
<1>2. ASSUME NEW w \in Ticks, TickDies(w) PROVE TypeOK'
  BY <1>2, NoTickTyped DEF TickDies, Fault, End, TypeOK, ContentTypeOK, PipelineTypeOK, content
<1>3. ASSUME NEW w \in Ticks, Refresh(w) PROVE TypeOK'
  BY <1>3, NoTickTyped, Moved, StateNames
     DEF Refresh, SetJob, End, KeepContent, ItemMoved, TypeOK, ContentTypeOK, PipelineTypeOK, JobStatus
<1>4. ASSUME NEW w \in Ticks, TurnAway(w) PROVE TypeOK'
  BY <1>4, NoTickTyped, Moved, StateNames
     DEF TurnAway, SetJob, End, KeepContent, ItemMoved, TypeOK, ContentTypeOK, PipelineTypeOK, JobStatus
<1>5. ASSUME NEW w \in Ticks, ClaimJob(w) PROVE TypeOK'
  <2>1. ItemMoved
    BY <1>5, Moved, StateNames DEF ClaimJob
  <2>2. tick' \in [Ticks -> TickType]
    <3>1. CASE Continue(w, "send", NoItem, 0)
      BY <3>1, NothingTyped, Continued
    <3>2. CASE End(w)
      BY <3>2, NoTickTyped DEF End, TypeOK, PipelineTypeOK
    <3> QED
      BY <1>5, <3>1, <3>2 DEF ClaimJob
  <2>3. jobs' \in [Jobs -> JobStatus \cup {"none"}]
    BY <1>5 DEF ClaimJob, SetJob, TypeOK, ContentTypeOK, JobStatus
  <2> QED
    BY <1>5, <2>1, <2>2, <2>3 DEF ClaimJob, KeepContent, ItemMoved, TypeOK, ContentTypeOK, PipelineTypeOK
<1>6. ASSUME NEW w \in Ticks, SendMessage(w) PROVE TypeOK'
  <2>1. Seen("IDEA", item.version, item.approved) \in Item
    BY StateNames DEF Seen, TypeOK, ContentTypeOK, Item
  <2> QED
    BY <1>6, <2>1, NoTickTyped, Continued
       DEF SendMessage, Smooth, Fault, End, content, TypeOK, ContentTypeOK, PipelineTypeOK
<1>7. ASSUME NEW w \in Ticks, Request(w) PROVE TypeOK'
  <2>1. CASE Authorize(w)
    <3>1. Seen("IDEA", Read(w).version, 0) \in Item /\ item.version \in 0..MaxVersion
      BY StateNames, TickFields DEF Seen, TypeOK, ContentTypeOK, Item
    <3>2. tick' \in [Ticks -> TickType]
      BY <2>1, <3>1, Continued DEF Authorize
    <3> QED
      BY <1>7, <2>1, <3>2
         DEF Request, Authorize, Set, Smooth, KeepItem, KeepContent, TypeOK, ContentTypeOK, PipelineTypeOK,
             AttemptState
  <2>2. ASSUME NEW state \in {"BLOCKED", "FAILED"}, Set(w, state), Report(w, "FAILED") PROVE TypeOK'
    <3>1. attempts' \in [Jobs -> AttemptState]
      BY <2>2 DEF Set, TypeOK, PipelineTypeOK, AttemptState
    <3>2. "FAILED" \in JobStatus
      BY DEF JobStatus
    <3>3. /\ jobs' \in [Jobs -> JobStatus \cup {"none"}] /\ faults' \in 0..MaxFaults
          /\ tick' = [tick EXCEPT ![w] = NoTick]
      BY <2>2, <3>2, Reported
    <3> QED
      BY <1>7, <3>1, <3>3, NoTickTyped
         DEF Request, KeepItem, KeepContent, TypeOK, ContentTypeOK, PipelineTypeOK
  <2> QED
    BY <1>7, <2>1, <2>2 DEF Request
<1>8. ASSUME NEW w \in Ticks, Execute(w) PROVE TypeOK'
  BY <1>8, Moved, StateNames
     DEF Execute, Go, KeepContent, ItemMoved, TypeOK, ContentTypeOK, PipelineTypeOK
<1>9. ASSUME NEW w \in Ticks, Publish(w) PROVE TypeOK'
  <2>1. ItemMoved
    BY <1>9, Moved, StateNames DEF Publish
  <2>2. calls' \in [Jobs -> Nat]
    BY <1>9 DEF Publish, HasJob, TypeOK, PipelineTypeOK
  <2>3. published' \in [Jobs -> [version : 0..MaxVersion, body : 0..MaxVersion]]
    BY <1>9, TickFields DEF Publish, Land, TypeOK, PipelineTypeOK, Item
  <2>4. attempts' \in [Jobs -> AttemptState]
    BY <1>9 DEF Publish, Set, TypeOK, PipelineTypeOK, AttemptState
  <2>5. tick' \in [Ticks -> TickType]
    <3>1. Seen(item.state, item.version, 0) \in Item
      BY DEF TypeOK, ContentTypeOK, Seen, Item
    <3> QED
      BY <1>9, <3>1, NothingTyped, Continued DEF Publish
  <2> QED
    BY <1>9, <2>1, <2>2, <2>3, <2>4, <2>5
       DEF Publish, KeepContent, ItemMoved, TypeOK, ContentTypeOK, PipelineTypeOK
<1>10. ASSUME NEW w \in Ticks, Verify(w) PROVE TypeOK'
  <2>1. CASE Report(w, "FAILED")
    BY SMTT(30), <1>10, <2>1, NoTickTyped, Reported
       DEF Verify, Set, KeepItem, KeepContent, TypeOK, ContentTypeOK, PipelineTypeOK, AttemptState, JobStatus
  <2>2. ASSUME NEW state \in AttemptState, NEW p \in {"confirm", "undo"}, Set(w, state),
               Continue(w, p, Seen(item.state, item.version, 0), 0), Smooth, UNCHANGED jobs
        PROVE TypeOK'
    <3>1. Seen(item.state, item.version, 0) \in Item
      BY DEF TypeOK, ContentTypeOK, Seen, Item
    <3>2. tick' \in [Ticks -> TickType]
      BY <2>2, <3>1, Continued
    <3>3. attempts' \in [Jobs -> AttemptState]
      BY <2>2 DEF Set, TypeOK, PipelineTypeOK
    <3> QED
      BY <1>10, <2>2, <3>2, <3>3
         DEF Verify, Smooth, KeepItem, KeepContent, TypeOK, ContentTypeOK, PipelineTypeOK
  <2> QED
    BY <1>10, <2>1, <2>2 DEF Verify, AttemptState
<1>11. ASSUME NEW w \in Ticks, Confirm(w) PROVE TypeOK'
  <2>1. ItemMoved
    BY <1>11, Moved, StateNames DEF Confirm
  <2> QED
    BY <1>11, <2>1, NoTickTyped, Reported
       DEF Confirm, KeepContent, ItemMoved, TypeOK, ContentTypeOK, PipelineTypeOK, JobStatus
<1>12. ASSUME NEW w \in Ticks, Undo(w) PROVE TypeOK'
  BY <1>12, NoTickTyped, Moved, StateNames, Reported
     DEF Undo, KeepContent, ItemMoved, TypeOK, ContentTypeOK, PipelineTypeOK, JobStatus
<1> QED
  BY <1>1, <1>2, <1>3, <1>4, <1>5, <1>6, <1>7, <1>8, <1>9, <1>10, <1>11, <1>12 DEF TickNext, TickStep

-----------------------------------------------------------------------------
(* Claims                                                                  *)

\* The shape of a job tells its kind.
LEMMA JobKinds ==
    /\ NoJob \notin Jobs
    /\ \A j \in PublishJobs \cup JourneyJobs : j \in Jobs /\ j.kind # "REFRESH"
  BY DEF Jobs, PublishJobs, RefreshJobs, JourneyJobs, NoJob

\* The tick that claims a job is the only one to deliver it.
LEMMA TicksOwn ==
    ASSUME TypeOK, Owned, TickNext
    PROVE  Owned'
<1> USE DEF TypeOK, ContentTypeOK, PipelineTypeOK, TickType, Owned, HasJob, OwnsJob, OwnsAlone, CallsCounted, Job, NoTick,
           Delivering, Unpublished, JobStatus
<1>1. ASSUME NEW w \in Ticks, NEW j \in Jobs, TakeJob(w, j) PROVE Owned'
  BY <1>1 DEF TakeJob, content
<1>2. ASSUME NEW w \in Ticks, TickDies(w) PROVE Owned'
  BY <1>2 DEF TickDies, End, content
<1>3. ASSUME NEW w \in Ticks, Refresh(w) PROVE Owned'
  BY <1>3 DEF Refresh, SetJob, End
<1>4. ASSUME NEW w \in Ticks, TurnAway(w) PROVE Owned'
  BY <1>4 DEF TurnAway, SetJob, End
<1>5. ASSUME NEW w \in Ticks, ClaimJob(w) PROVE Owned'
  <2>1. HasJob'
    BY <1>5 DEF ClaimJob, SetJob, End, Continue
  <2>2. OwnsJob'
    BY <1>5 DEF ClaimJob, SetJob, End, Continue
  <2>3. OwnsAlone'
    BY <1>5 DEF ClaimJob, SetJob, End, Continue
  <2>4. CallsCounted'
    BY SMTT(30), <1>5 DEF ClaimJob, SetJob, End, Continue
  <2> QED
    BY <2>1, <2>2, <2>3, <2>4
<1>6. ASSUME NEW w \in Ticks, SendMessage(w) PROVE Owned'
  <2>1. HasJob'
    BY <1>6 DEF SendMessage, Continue, End, content
  <2>2. OwnsJob'
    BY <1>6 DEF SendMessage, Continue, End, content
  <2>3. OwnsAlone'
    BY <1>6 DEF SendMessage, Continue, End, content
  <2>4. CallsCounted'
    BY <1>6 DEF SendMessage, Continue, End, content
  <2> QED
    BY <2>1, <2>2, <2>3, <2>4
<1>7. ASSUME NEW w \in Ticks, Request(w) PROVE Owned'
  <2>1. HasJob'
    BY <1>7 DEF Request, Approved, Authorize, Set, Continue, Report, SetJob, End
  <2>2. OwnsJob'
    BY <1>7 DEF Request, Approved, Authorize, Set, Continue, Report, SetJob, End
  <2>3. OwnsAlone'
    BY <1>7 DEF Request, Approved, Authorize, Set, Continue, Report, SetJob, End
  <2>4. CallsCounted'
    BY <1>7 DEF Request, Approved, Authorize, Set, Continue, Report, SetJob, End
  <2> QED
    BY <2>1, <2>2, <2>3, <2>4
<1>8. ASSUME NEW w \in Ticks, Execute(w) PROVE Owned'
  BY <1>8 DEF Execute, Go
<1>9. ASSUME NEW w \in Ticks, Publish(w) PROVE Owned'
  <2>1. HasJob'
    BY <1>9 DEF Publish, Set, Continue
  <2>2. OwnsJob'
    BY <1>9 DEF Publish, Set, Continue
  <2>3. OwnsAlone'
    BY <1>9 DEF Publish, Set, Continue
  <2>4. CallsCounted'
    <3>1. Job(w) \in Jobs /\ calls[Job(w)] = 0 /\ jobs[Job(w)] = "ENQUEUED"
      BY <1>9 DEF Publish
    <3>2. calls' = [calls EXCEPT ![Job(w)] = 1] /\ jobs' = jobs
      BY <1>9, <3>1 DEF Publish
    <3>3. \A v \in Ticks : v # w /\ tick[v].pc \in Unpublished => Job(v) # Job(w)
      BY <1>9 DEF Publish
    <3>4. \A v \in Ticks : v # w => tick'[v] = tick[v]
      BY <1>9 DEF Publish, Continue
    <3>5. tick'[w].pc \notin Unpublished
      BY <1>9 DEF Publish, Continue
    <3>6. \A v \in Ticks : tick[v].pc \in Unpublished => Job(v) \in Jobs
      OBVIOUS
    <3>7. \A v \in Ticks : tick'[v].pc \in Unpublished => calls'[tick'[v].job] = 0
      BY <3>2, <3>3, <3>4, <3>5, <3>6
    <3>8. \A j \in Jobs : calls'[j] <= 1 /\ (jobs'[j] \in {"none", "WAITING", "CANCELLED"} => calls'[j] = 0)
      BY <3>1, <3>2
    <3> QED
      BY <3>7, <3>8
  <2> QED
    BY <2>1, <2>2, <2>3, <2>4
<1>10. ASSUME NEW w \in Ticks, Verify(w) PROVE Owned'
  <2>1. HasJob'
    BY <1>10 DEF Verify, Set, Continue, Report, SetJob, End
  <2>2. OwnsJob'
    BY <1>10 DEF Verify, Set, Continue, Report, SetJob, End
  <2>3. OwnsAlone'
    BY <1>10 DEF Verify, Set, Continue, Report, SetJob, End
  <2>4. CallsCounted'
    BY <1>10 DEF Verify, Set, Continue, Report, SetJob, End
  <2> QED
    BY <2>1, <2>2, <2>3, <2>4
<1>11. ASSUME NEW w \in Ticks, Confirm(w) PROVE Owned'
  BY <1>11 DEF Confirm, Report, SetJob, End
<1>12. ASSUME NEW w \in Ticks, Undo(w) PROVE Owned'
  BY <1>12 DEF Undo, Report, SetJob, End
<1> QED
  BY <1>1, <1>2, <1>3, <1>4, <1>5, <1>6, <1>7, <1>8, <1>9, <1>10, <1>11, <1>12 DEF TickNext, TickStep

-----------------------------------------------------------------------------
(* Readback                                                                *)

\* What a tick confirms, and what has been delivered, stays read back.
LEMMA TicksReadBack ==
    ASSUME TypeOK, Owned, ReadBack, TickNext
    PROVE  ReadBack'
<1> USE JobKinds DEF TypeOK, ContentTypeOK, PipelineTypeOK, TickType, Owned, HasJob, OwnsJob, OwnsAlone, ReadBack,
           DeliveredVerified, Job, NoTick, Delivering, Unpublished
<1>1. ASSUME NEW w \in Ticks, NEW j \in Jobs, TakeJob(w, j) PROVE ReadBack'
  BY <1>1 DEF TakeJob, content
<1>2. ASSUME NEW w \in Ticks, TickDies(w) PROVE ReadBack'
  BY <1>2 DEF TickDies, End, content
<1>3. ASSUME NEW w \in Ticks, Refresh(w) PROVE ReadBack'
  BY <1>3 DEF Refresh, SetJob, End
<1>4. ASSUME NEW w \in Ticks, TurnAway(w) PROVE ReadBack'
  BY <1>4 DEF TurnAway, SetJob, End
<1>5. ASSUME NEW w \in Ticks, ClaimJob(w) PROVE ReadBack'
  BY <1>5 DEF ClaimJob, SetJob, End, Continue
<1>6. ASSUME NEW w \in Ticks, SendMessage(w) PROVE ReadBack'
  BY <1>6 DEF SendMessage, Continue, End, content
<1>7. ASSUME NEW w \in Ticks, Request(w) PROVE ReadBack'
  BY <1>7 DEF Request, Approved, Authorize, Set, Continue, Report, SetJob, End
<1>8. ASSUME NEW w \in Ticks, Execute(w) PROVE ReadBack'
  BY <1>8 DEF Execute, Go
<1>9. ASSUME NEW w \in Ticks, Publish(w) PROVE ReadBack'
  <2>1. Job(w) \in Jobs /\ jobs[Job(w)] = "ENQUEUED" /\ jobs' = jobs
    BY <1>9 DEF Publish
  <2>2. \A v \in Ticks : v # w => tick'[v] = tick[v] /\ (tick[v].pc = "confirm" => Job(v) # Job(w))
    BY <1>9 DEF Publish, Continue
  <2>3. \A j \in Jobs : j # Job(w) => attempts'[j] = attempts[j] /\ published'[j] = published[j]
    BY <1>9 DEF Publish, Set, Land
  <2>4. tick'[w].pc # "confirm"
    BY <1>9 DEF Publish, Continue
  <2> QED
    BY SMTT(30), <2>1, <2>2, <2>3, <2>4
<1>10. ASSUME NEW w \in Ticks, Verify(w) PROVE ReadBack'
  <2>1. Job(w) \in Jobs /\ jobs[Job(w)] = "ENQUEUED"
    BY <1>10 DEF Verify
  <2>2. \A v \in Ticks : v # w => tick'[v] = tick[v] /\ (tick[v].pc = "confirm" => Job(v) # Job(w))
    BY <1>10 DEF Verify, Continue, Report, End
  <2>3. published' = published /\ \A j \in Jobs : j # Job(w) => attempts'[j] = attempts[j]
    BY <1>10 DEF Verify, Set
  <2>4. tick'[w].pc = "confirm" =>
          tick'[w].job = Job(w) /\ attempts'[Job(w)] = "VERIFIED" /\ published[Job(w)] # Unsent
    BY <1>10, <2>1 DEF Verify, Set, Continue, Report, End
  <2>5. \A j \in Jobs : jobs'[j] = "DELIVERED" => jobs[j] = "DELIVERED" /\ j # Job(w)
    BY <1>10, <2>1 DEF Verify, Report, SetJob
  <2> QED
    BY <2>2, <2>3, <2>4, <2>5
<1>11. ASSUME NEW w \in Ticks, Confirm(w) PROVE ReadBack'
  BY <1>11 DEF Confirm, Report, SetJob, End
<1>12. ASSUME NEW w \in Ticks, Undo(w) PROVE ReadBack'
  BY <1>12 DEF Undo, Report, SetJob, End
<1> QED
  BY <1>1, <1>2, <1>3, <1>4, <1>5, <1>6, <1>7, <1>8, <1>9, <1>10, <1>11, <1>12 DEF TickNext, TickStep

-----------------------------------------------------------------------------
(* Approvals                                                               *)

\* A tick does not touch approvals, nor the approval of the item.
LEMMA TicksKeepApprovals ==
    ASSUME TypeOK, TickNext
    PROVE  approvals' = approvals /\ item'.approved = item.approved
<1>1. ASSUME NEW w \in Ticks, TickStep(w) PROVE ItemMoved
  BY <1>1, Moved, StateNames
     DEF TickStep, Refresh, TurnAway, ClaimJob, SendMessage, Request, Execute, Publish, Verify, Confirm, Undo,
         KeepItem, content, ItemMoved, TypeOK, ContentTypeOK
<1>2. ASSUME NEW w \in Ticks, TickStep(w) PROVE approvals' = approvals
  BY <1>2
     DEF TickStep, Refresh, TurnAway, ClaimJob, SendMessage, Request, Execute, Publish, Verify, Confirm, Undo,
         KeepContent, content
<1> QED
  BY <1>1, <1>2 DEF TickNext, TakeJob, TickDies, content, ItemMoved

\* A tick asks the provider for a version it has seen approved.
LEMMA TicksAskApproved ==
    ASSUME TypeOK, HasJob, ApprovalsBound, TickNext
    PROVE  ApprovalsBound'
<1> USE TicksKeepApprovals DEF TypeOK, ContentTypeOK, PipelineTypeOK, TickType, HasJob, ApprovalsBound, PublishedWasApproved, Job, Read,
           Item, Seen, NoItem, NoTick, Unsent
<1>1. ASSUME NEW w \in Ticks, NEW j \in Jobs, TakeJob(w, j) PROVE ApprovalsBound'
  BY <1>1 DEF TakeJob, content
<1>2. ASSUME NEW w \in Ticks, TickDies(w) PROVE ApprovalsBound'
  BY <1>2 DEF TickDies, End, content
<1>3. ASSUME NEW w \in Ticks, Refresh(w) PROVE ApprovalsBound'
  BY <1>3 DEF Refresh, End, KeepContent
<1>4. ASSUME NEW w \in Ticks, TurnAway(w) PROVE ApprovalsBound'
  BY <1>4 DEF TurnAway, End, KeepItem, KeepContent
<1>5. ASSUME NEW w \in Ticks, ClaimJob(w) PROVE ApprovalsBound'
  BY <1>5 DEF ClaimJob, End, Continue, KeepContent
<1>6. ASSUME NEW w \in Ticks, SendMessage(w) PROVE ApprovalsBound'
  BY <1>6 DEF SendMessage, Continue, End, content
<1>7. ASSUME NEW w \in Ticks, Request(w) PROVE ApprovalsBound'
  <2>1. published' = published
    BY <1>7 DEF Request
  <2>2. \A v \in Ticks : v # w => tick'[v] = tick[v]
    BY <1>7 DEF Request, Authorize, Continue, Report, End
  <2>3. tick'[w].item.approved = 0
    BY <1>7 DEF Request, Authorize, Continue, Report, End
  <2>4. CASE Authorize(w) /\ Approved(w)
    <3>1. Read(w).version \in approvals
      BY <2>4 DEF Approved
    <3>2. tick'[w].item.version = Read(w).version
      BY <2>4 DEF Authorize, Continue
    <3> QED
      BY <2>1, <2>2, <2>3, <3>1, <3>2
  <2>5. CASE End(w)
    BY <2>1, <2>2, <2>3, <2>5 DEF End
  <2> QED
    BY <1>7, <2>4, <2>5 DEF Request, Report
<1>8. ASSUME NEW w \in Ticks, Execute(w) PROVE ApprovalsBound'
  BY <1>8 DEF Execute, Go, KeepContent
<1>9. ASSUME NEW w \in Ticks, Publish(w) PROVE ApprovalsBound'
  <2>1. Read(w).version \in approvals
    BY <1>9 DEF Publish
  <2>2. \A v \in Ticks : v # w => tick'[v] = tick[v]
    BY <1>9 DEF Publish, Continue
  <2>3. tick'[w].item.approved = 0 /\ tick'[w].pc \notin {"execute", "publish"}
    BY <1>9 DEF Publish, Continue
  <2>4. \A j \in Jobs : published'[j] # published[j] => published'[j].version = Read(w).version
    BY <1>9 DEF Publish, Land
  <2> QED
    BY <2>1, <2>2, <2>3, <2>4
<1>10. ASSUME NEW w \in Ticks, Verify(w) PROVE ApprovalsBound'
  BY <1>10 DEF Verify, Continue, Report, End, KeepItem, KeepContent
<1>11. ASSUME NEW w \in Ticks, Confirm(w) PROVE ApprovalsBound'
  BY <1>11 DEF Confirm, Report, End, KeepContent
<1>12. ASSUME NEW w \in Ticks, Undo(w) PROVE ApprovalsBound'
  BY <1>12 DEF Undo, Report, End, KeepContent
<1> QED
  BY <1>1, <1>2, <1>3, <1>4, <1>5, <1>6, <1>7, <1>8, <1>9, <1>10, <1>11, <1>12 DEF TickNext, TickStep

-----------------------------------------------------------------------------
(* The inductive invariant                                                 *)

IInv == TypeOK /\ Owned /\ ReadBack /\ ApprovalsBound

LEMMA InitIInv == Init => IInv
<1> SUFFICES ASSUME Init PROVE IInv
  OBVIOUS
<1> USE DEF Init, ContentInit, PipelineInit
<1>1. item \in Item /\ item.approved = 0
  BY StateNames DEF Seen, Item, ContentState, CONTENT_TRANSITIONS
<1>2. TypeOK
  BY <1>1, NoTickTyped, NothingTyped
     DEF TypeOK, ContentTypeOK, PipelineTypeOK, TickType, JobStatus, AttemptState
<1>3. \A w \in Ticks : tick[w].pc = "idle" /\ Read(w).approved = 0
  BY DEF NoTick, NoItem, Seen, Read
<1>4. Owned
  BY <1>3 DEF Owned, HasJob, OwnsJob, OwnsAlone, CallsCounted, Delivering, Unpublished
<1>5. ReadBack
  BY <1>3, JobKinds DEF ReadBack, DeliveredVerified
<1>6. ApprovalsBound
  BY <1>1, <1>3 DEF ApprovalsBound, PublishedWasApproved
<1> QED
  BY <1>2, <1>4, <1>5, <1>6 DEF IInv

\* Editors leave the ticks alone, and no job that a tick has claimed.
LEMMA EditorsKeep ==
    ASSUME IInv, ContentNext, UNCHANGED pipeline
    PROVE  IInv'
<1>1. ContentTypeOK' /\ EditorEffects
  BY EditorSteps DEF IInv, TypeOK
<1>2. UNCHANGED <<attempts, published, calls, tick, faults>>
  BY DEF pipeline
<1>3. TypeOK'
  BY <1>1, <1>2 DEF IInv, TypeOK, PipelineTypeOK
<1>4. Owned'
  BY <1>1, <1>2
     DEF IInv, Owned, HasJob, OwnsJob, OwnsAlone, CallsCounted, EditorEffects, Job, Delivering, Unpublished
<1>5. ReadBack'
  BY <1>1, <1>2, JobKinds DEF IInv, ReadBack, DeliveredVerified, EditorEffects, Job
<1>6. ApprovalsBound'
  BY <1>1, <1>2 DEF IInv, ApprovalsBound, PublishedWasApproved, EditorEffects, Read
<1> QED
  BY <1>3, <1>4, <1>5, <1>6 DEF IInv

LEMMA StepIInv == IInv /\ [Next]_vars => IInv'
<1> SUFFICES ASSUME IInv, [Next]_vars PROVE IInv'
  OBVIOUS
<1>1. CASE ContentNext /\ UNCHANGED pipeline
  BY <1>1, EditorsKeep
<1>2. CASE TickNext
  BY <1>2, TickTypes, TicksOwn, TicksReadBack, TicksAskApproved DEF IInv, Owned
<1>3. CASE UNCHANGED vars
  BY <1>3
     DEF vars, content, pipeline, IInv, TypeOK, ContentTypeOK, PipelineTypeOK, Owned, HasJob, OwnsJob, OwnsAlone,
         CallsCounted, ReadBack, DeliveredVerified, ApprovalsBound, PublishedWasApproved, Job, Read
<1> QED
  BY <1>1, <1>2, <1>3 DEF Next

LEMMA Inductive == Spec => []IInv
  BY InitIInv, StepIInv, PTL DEF Spec

-----------------------------------------------------------------------------

\* The item, the jobs, the attempts and what the ticks carry stay within their
\* types (persistence/project_ops.py).
THEOREM TypeCorrect == Spec => []TypeOK
<1>1. IInv => TypeOK
  BY DEF IInv
<1> QED
  BY <1>1, Inductive, PTL

\* A job is given to the provider once, and only by the tick that has moved it
\* to ENQUEUED (_set_job in _run_delivery), however many ticks overlap.
THEOREM OnceCorrect == Spec => []DeliveredOnce
<1>1. IInv => DeliveredOnce
  BY DEF IInv, Owned, CallsCounted, DeliveredOnce, TypeOK, ContentTypeOK, PipelineTypeOK, JobStatus
<1> QED
  BY <1>1, Inductive, PTL

\* A job is DELIVERED only after its publication was found on readback
\* (_reconcile), whatever publish answered.
THEOREM ReadBackCorrect == Spec => []DeliveredVerified
<1>1. IInv => DeliveredVerified
  BY DEF IInv, ReadBack
<1> QED
  BY <1>1, Inductive, PTL

\* The version that goes out is one that was approved (execute_publication
\* compares approved_version), whatever editors do meanwhile.
THEOREM ApprovedCorrect == Spec => []PublishedWasApproved
<1>1. IInv => PublishedWasApproved
  BY DEF IInv, ApprovalsBound
<1> QED
  BY <1>1, Inductive, PTL

-----------------------------------------------------------------------------
(* Versions: what is scheduled, what is read and what is asked for         *)

\* The item only gets newer: no job is scheduled for a later version, no tick has
\* read one, and a tick that asks does so for no older one than was scheduled,
\* with a body no older than that.
VersionsKept ==
  /\ \A j \in Jobs : jobs[j] # "none" => j.version <= item.version
  /\ \A w \in Ticks :
       /\ Read(w).version <= item.version
       /\ tick[w].pc \in {"request", "execute", "publish"} => Job(w).version <= Read(w).version
       /\ tick[w].pc \in {"execute", "publish"} =>
            Read(w).version <= tick[w].body /\ tick[w].body <= item.version

LEMMA JobVersions == \A j \in Jobs : j.version \in 0..MaxVersion
  BY DEF Jobs, PublishJobs, RefreshJobs, JourneyJobs

LEMMA JobFields ==
    /\ \A k, v, t : [kind |-> k, version |-> v, at |-> t].version = v
    /\ \A t : [kind |-> "LIFECYCLE", version |-> 0, at |-> t].version = 0
  OBVIOUS

\* An editor makes the item newer and schedules the version it has.
LEMMA EditorVersions ==
    ASSUME ContentTypeOK, ContentNext
    PROVE  /\ item.version <= item'.version
           /\ \A j \in Jobs : jobs[j] = "none" /\ jobs'[j] # "none" => j.version <= item.version
<1>0. item.version \in 1..MaxVersion
  BY DEF ContentTypeOK, Item
<1>1. ASSUME NEW target \in Targets, TransitionItem(target)
      PROVE  item'.version = item.version /\ jobs' \in {jobs, Cancelled}
  BY <1>1 DEF TransitionItem, Seen
<1>2. CASE OpenEdit
  BY <1>0, <1>2 DEF OpenEdit
<1>3. CASE SaveEdit
  BY <1>0, <1>3, CancelledJobs DEF SaveEdit, Seen
<1>4. ASSUME NEW j \in Jobs, InsertJob(j), j.version <= item.version
      PROVE  \A k \in Jobs : jobs[k] = "none" /\ jobs'[k] # "none" => k.version <= item.version
  BY <1>4 DEF InsertJob, ContentTypeOK
<1>5. CASE ScheduleRefresh
  <2>1. [kind |-> "REFRESH", version |-> item.version, at |-> 0] \in Jobs
    BY <1>0 DEF Jobs, RefreshJobs
  <2> QED  BY <1>0, <1>4, <1>5, <2>1, JobFields DEF ScheduleRefresh
<1>6. ASSUME NEW at \in Times, ScheduleItem(at)
      PROVE  /\ item'.version = item.version
             /\ \A k \in Jobs : jobs[k] = "none" /\ jobs'[k] # "none" => k.version <= item.version
  <2>1. [kind |-> "PUBLISH", version |-> item.version, at |-> at] \in Jobs
    BY <1>0 DEF Jobs, PublishJobs
  <2> QED  BY <1>0, <1>4, <1>6, <2>1, JobFields DEF ScheduleItem, Seen
<1>7. ASSUME NEW step \in Steps, ScheduleStep(step)
      PROVE  /\ item' = item
             /\ \A k \in Jobs : jobs[k] = "none" /\ jobs'[k] # "none" => k.version <= item.version
  <2>1. [kind |-> "LIFECYCLE", version |-> 0, at |-> step] \in Jobs
    BY DEF Jobs, JourneyJobs
  <2> QED  BY <1>0, <1>4, <1>7, <2>1, JobFields DEF ScheduleStep
<1> QED
  BY <1>0, <1>1, <1>2, <1>3, <1>5, <1>6, <1>7, CancelledJobs DEF ContentNext

\* A tick schedules nothing and leaves the version of the item.
LEMMA TickVersions ==
    ASSUME TypeOK, TickNext
    PROVE  /\ item'.version = item.version
           /\ \A j \in Jobs : jobs[j] = "none" => jobs'[j] = "none"
<1>1. ASSUME NEW w \in Ticks, TickStep(w) PROVE ItemMoved
  BY <1>1, Moved, StateNames
     DEF TickStep, Refresh, TurnAway, ClaimJob, SendMessage, Request, Execute, Publish, Verify, Confirm, Undo,
         KeepItem, content, ItemMoved, TypeOK, ContentTypeOK
<1>2. ASSUME NEW w \in Ticks, TickStep(w), NEW j \in Jobs, jobs[j] = "none"
      PROVE  jobs'[j] = "none"
  BY <1>2
     DEF TickStep, Refresh, TurnAway, ClaimJob, SendMessage, Request, Authorize, Execute, Publish, Verify, Confirm,
         Undo, Report, SetJob, content, TypeOK, ContentTypeOK
<1> QED
  BY <1>1, <1>2 DEF TickNext, TakeJob, TickDies, content, ItemMoved

LEMMA VersionsStep ==
    ASSUME IInv, VersionsKept, [Next]_vars
    PROVE  VersionsKept'
<1> USE DEF Job, Read
<1>0. /\ item.version \in Nat /\ item'.version \in Nat
      /\ \A j \in Jobs : j.version \in Nat
      /\ \A w \in Ticks : Read(w).version \in Nat /\ tick[w].body \in Nat
  <2>1. item' \in Item
    BY StepIInv DEF IInv, TypeOK, ContentTypeOK
  <2> QED
    BY <2>1, JobVersions, TickFields DEF IInv, TypeOK, ContentTypeOK, Item
<1>1. CASE ContentNext /\ UNCHANGED pipeline
  <2>1. /\ item.version <= item'.version
        /\ \A j \in Jobs : jobs[j] = "none" /\ jobs'[j] # "none" => j.version <= item.version
    BY <1>1, EditorVersions DEF IInv, TypeOK
  <2>2. tick' = tick
    BY <1>1 DEF pipeline
  <2> QED
    BY <1>0, <2>1, <2>2 DEF VersionsKept
<1>2. CASE TickNext
  <2>1. /\ item'.version = item.version
        /\ \A j \in Jobs : jobs[j] = "none" => jobs'[j] = "none"
    BY <1>2, TickVersions DEF IInv
  <2>2. \A j \in Jobs : jobs'[j] # "none" => j.version <= item'.version
    BY <2>1 DEF VersionsKept
  <2> DEFINE Kept(w) ==
        /\ \A v \in Ticks \ {w} : tick'[v] = tick[v]
        /\ tick'[w].item.version <= item.version
        /\ tick'[w].pc \in {"request", "execute", "publish"} =>
             tick'[w].job.version <= tick'[w].item.version
        /\ tick'[w].pc \in {"execute", "publish"} =>
             tick'[w].item.version <= tick'[w].body /\ tick'[w].body <= item.version
  <2>3. ASSUME NEW w \in Ticks, Kept(w) PROVE VersionsKept'
    BY <2>1, <2>2, <2>3 DEF VersionsKept
  <2>4. tick \in [Ticks -> TickType] /\ 1 <= item.version /\ NoItem.version = 1
    BY DEF IInv, TypeOK, ContentTypeOK, PipelineTypeOK, TickType, Item, NoItem, Seen
  <2>5. ASSUME NEW w \in Ticks, End(w) PROVE Kept(w)
    BY <2>4, <2>5 DEF End, NoTick
  <2>6. ASSUME NEW w \in Ticks, NEW p \in {"verify", "confirm", "undo", "send"}, NEW i,
               i.version <= item.version, Continue(w, p, i, 0)
        PROVE  Kept(w)
    BY <2>4, <2>6 DEF Continue
  <2>7. ASSUME NEW a PROVE Seen(item.state, item.version, a).version = item.version
    BY DEF Seen
  <2>8. ASSUME NEW w \in Ticks, NEW j \in Jobs, TakeJob(w, j) PROVE Kept(w)
    BY <1>0, <2>4, <2>8 DEF TakeJob
  <2>9. ASSUME NEW w \in Ticks, SendMessage(w) PROVE Kept(w)
    <3>1. CASE End(w)
      BY <2>5, <3>1
    <3>2. CASE Continue(w, "request", Seen("IDEA", item.version, item.approved), 0)
      <4>1. Job(w) \in Jobs /\ jobs[Job(w)] = "ENQUEUED"
        BY <2>9 DEF SendMessage, IInv, Owned, HasJob, OwnsJob, Delivering, Unpublished
      <4>2. Job(w).version <= item.version
        BY <4>1 DEF VersionsKept
      <4> QED
        BY <1>0, <2>4, <3>2, <4>2 DEF Continue, Seen
    <3> QED
      BY <2>9, <3>1, <3>2 DEF SendMessage
  <2>10. ASSUME NEW w \in Ticks, Request(w) PROVE Kept(w)
    <3>1. CASE End(w)
      BY <2>5, <3>1
    <3>2. CASE Authorize(w)
      <4>1. Job(w).version <= Read(w).version /\ Read(w).version <= item.version
        BY <2>10 DEF Request, VersionsKept
      <4> QED
        BY <1>0, <2>4, <3>2, <4>1 DEF Authorize, Continue, Seen
    <3> QED
      BY <2>10, <3>1, <3>2 DEF Request, Report
  <2>11. ASSUME NEW w \in Ticks, Execute(w) PROVE Kept(w)
    <3>1. /\ Job(w).version <= Read(w).version /\ Read(w).version <= item.version
          /\ Read(w).version <= tick[w].body /\ tick[w].body <= item.version
      BY <2>11 DEF Execute, VersionsKept
    <3> QED
      BY <2>4, <2>11, <3>1 DEF Execute, Go
  <2>12. ASSUME NEW w \in Ticks, Publish(w) PROVE Kept(w)
    BY <1>0, <2>4, <2>6, <2>7, <2>12 DEF Publish
  <2>13. ASSUME NEW w \in Ticks, Verify(w) PROVE Kept(w)
    BY <1>0, <2>5, <2>6, <2>7, <2>13 DEF Verify, Report
  <2>14. ASSUME NEW w \in Ticks, ClaimJob(w) PROVE Kept(w)
    BY <2>4, <2>5, <2>6, <2>14 DEF ClaimJob
  <2>15. ASSUME NEW w \in Ticks, Refresh(w) \/ TurnAway(w) \/ Confirm(w) \/ Undo(w) \/ TickDies(w)
         PROVE  End(w)
    BY <2>15 DEF Refresh, TurnAway, Confirm, Undo, TickDies, Report
  <2> HIDE DEF Kept
  <2> QED
    BY <1>2, <2>3, <2>5, <2>8, <2>9, <2>10, <2>11, <2>12, <2>13, <2>14, <2>15 DEF TickNext, TickStep
<1>3. CASE UNCHANGED vars
  BY <1>3 DEF vars, content, pipeline, VersionsKept
<1> QED
  BY <1>1, <1>2, <1>3 DEF Next

LEMMA VersionsInductive == Spec => []VersionsKept
<1>1. Init => VersionsKept
  BY DEF Init, ContentInit, PipelineInit, VersionsKept, Read, NoTick, NoItem, Seen
<1> QED
  BY <1>1, VersionsStep, Inductive, PTL DEF Spec

-----------------------------------------------------------------------------
(* The ledger of publications                                              *)

LEMMA LedgerInit == Init => Ledger!Init
  BY DEF Init, ContentInit, PipelineInit, Ledger!Init, Unsent, Ledger!Nothing

LEMMA DeliveryJobs == \A j \in Jobs : j.kind # "REFRESH" <=> j \in PublishJobs \cup JourneyJobs
  BY DEF Jobs, PublishJobs, RefreshJobs, JourneyJobs

\* Editors schedule a job, cancel those that wait, or approve a version.
LEMMA EditorsShown ==
    ASSUME TypeOK, ContentNext, UNCHANGED pipeline
    PROVE  Ledger!Next \/ UNCHANGED Ledger!ledger
<1> USE DEF TypeOK, ContentTypeOK
<1>1. UNCHANGED <<calls, published>>
  BY DEF pipeline
<1>2. ASSUME jobs' = Cancelled, UNCHANGED approvals PROVE Ledger!Cancel
  <2> DEFINE up == {j \in Jobs : jobs[j] = "WAITING"}
  <2>1. jobs' = [j \in Jobs |-> IF j \in up THEN "CANCELLED" ELSE jobs[j]]
    BY <1>2 DEF Cancelled
  <2> QED
    BY <1>1, <1>2, <2>1 DEF Ledger!Cancel
<1>3. ASSUME NEW j \in Jobs, InsertJob(j), UNCHANGED approvals
      PROVE  Ledger!Schedule(j) \/ UNCHANGED Ledger!ledger
  BY <1>1, <1>3 DEF InsertJob, Ledger!Schedule, Ledger!Move, Ledger!ledger
<1>4. ASSUME NEW target \in Targets, TransitionItem(target)
      PROVE  Ledger!Next \/ UNCHANGED Ledger!ledger
  <2>1. CASE target = "APPROVED"
    <3>1. UNCHANGED jobs /\ approvals' = approvals \cup {item.version} /\ item.version \in 1..MaxVersion
      BY <1>4, <2>1 DEF TransitionItem, Item
    <3> QED
      BY <1>1, <3>1 DEF Ledger!Next, Ledger!Approve
  <2>2. CASE target # "APPROVED"
    <3>1. UNCHANGED approvals /\ jobs' \in {jobs, Cancelled}
      BY <1>4, <2>2 DEF TransitionItem
    <3> QED
      BY <1>1, <1>2, <3>1 DEF Ledger!Next, Ledger!ledger
  <2> QED
    BY <2>1, <2>2
<1>5. CASE OpenEdit
  BY <1>1, <1>5 DEF OpenEdit, Ledger!ledger
<1>6. CASE SaveEdit
  BY <1>1, <1>2, <1>6 DEF SaveEdit, Ledger!ledger, Ledger!Next
<1>8. [kind |-> "REFRESH", version |-> item.version, at |-> 0] \in Jobs
  BY DEF Item, Jobs, RefreshJobs
<1>9. CASE ScheduleRefresh
  BY <1>3, <1>8, <1>9 DEF ScheduleRefresh, Ledger!Next
<1>10. ASSUME NEW at \in Times, ScheduleItem(at) PROVE Ledger!Next \/ UNCHANGED Ledger!ledger
  <2>1. [kind |-> "PUBLISH", version |-> item.version, at |-> at] \in Jobs
    BY DEF Item, Jobs, PublishJobs
  <2> QED
    BY <1>3, <1>10, <2>1 DEF ScheduleItem, Ledger!Next
<1>11. ASSUME NEW step \in Steps, ScheduleStep(step) PROVE Ledger!Next \/ UNCHANGED Ledger!ledger
  <2>1. [kind |-> "LIFECYCLE", version |-> 0, at |-> step] \in Jobs
    BY DEF Jobs, JourneyJobs
  <2> QED
    BY <1>3, <1>11, <2>1 DEF ScheduleStep, Ledger!Next
<1> QED
  BY <1>4, <1>5, <1>6, <1>9, <1>10, <1>11 DEF ContentNext

\* A tick claims a job, asks the provider for it once, and reports how it ended;
\* the rest of what it does does not show.
LEMMA TicksShown ==
    ASSUME IInv, VersionsKept, TickNext
    PROVE  Ledger!Next \/ UNCHANGED Ledger!ledger
<1> USE DEF IInv, TypeOK, ContentTypeOK
<1>0. \A w \in Ticks : tick[w].pc # "idle" => Job(w) \in Jobs
  BY DEF Owned, HasJob
<1>1. ASSUME NEW j \in Jobs, NEW status, SetJob(j, "ENQUEUED", status),
             UNCHANGED <<calls, published, approvals>>,
             status = "FAILED" \/ (status = "DELIVERED" /\ published[j] # Unsent)
      PROVE  Ledger!Next \/ UNCHANGED Ledger!ledger
  BY <1>1 DEF SetJob, Ledger!Next, Ledger!Fail, Ledger!Deliver, Ledger!Move, Ledger!ledger, Unsent, Ledger!Nothing
<1>2. ASSUME NEW w \in Ticks, tick[w].pc # "idle", Report(w, "FAILED"),
             UNCHANGED <<calls, published, approvals>>
      PROVE  Ledger!Next \/ UNCHANGED Ledger!ledger
  BY <1>0, <1>1, <1>2 DEF Report, Ledger!ledger
<1>3. ASSUME NEW w \in Ticks, Refresh(w) PROVE Ledger!Next \/ UNCHANGED Ledger!ledger
  <2>1. Job(w) \in Jobs /\ Job(w) \notin PublishJobs \cup JourneyJobs
    BY <1>0, <1>3, DeliveryJobs DEF Refresh
  <2>2. UNCHANGED <<calls, published, approvals>>
    BY <1>3 DEF Refresh, KeepContent
  <2>3. CASE SetJob(Job(w), "WAITING", "DELIVERED")
    BY <2>1, <2>2, <2>3 DEF SetJob, Ledger!Next, Ledger!Refresh, Ledger!Move, Ledger!ledger
  <2>4. CASE SetJob(Job(w), "WAITING", "CANCELLED")
    <3>1. CASE jobs[Job(w)] = "WAITING"
      <4> DEFINE up == {Job(w)}
      <4>1. jobs' = [j \in Jobs |-> IF j \in up THEN "CANCELLED" ELSE jobs[j]]
        BY <2>4, <3>1 DEF SetJob
      <4>2. up \in SUBSET {j \in Jobs : jobs[j] = "WAITING"}
        BY <2>1, <3>1
      <4> QED
        BY <2>2, <4>1, <4>2 DEF Ledger!Next, Ledger!Cancel
    <3>2. CASE jobs[Job(w)] # "WAITING"
      BY <2>2, <2>4, <3>2 DEF SetJob, Ledger!ledger
    <3> QED
      BY <3>1, <3>2
  <2> QED
    BY <1>3, <2>3, <2>4 DEF Refresh
<1>4. ASSUME NEW w \in Ticks, TurnAway(w) PROVE Ledger!Next \/ UNCHANGED Ledger!ledger
  <2>1. Job(w) \in Jobs
    BY <1>0, <1>4 DEF TurnAway
  <2>2. UNCHANGED <<calls, published, approvals>>
    BY <1>4 DEF TurnAway, KeepContent
  <2>3. CASE jobs' # jobs
    <3> DEFINE up == {Job(w)}
    <3>1. jobs[Job(w)] = "WAITING" /\ jobs' = [jobs EXCEPT ![Job(w)] = "CANCELLED"]
      BY <1>4, <2>1, <2>3 DEF TurnAway, SetJob
    <3>2. jobs' = [j \in Jobs |-> IF j \in up THEN "CANCELLED" ELSE jobs[j]]
      BY <3>1
    <3>3. up \in SUBSET {j \in Jobs : jobs[j] = "WAITING"}
      BY <2>1, <3>1
    <3> QED
      BY <2>2, <3>2, <3>3 DEF Ledger!Next, Ledger!Cancel
  <2>4. CASE jobs' = jobs
    BY <2>2, <2>4 DEF Ledger!ledger
  <2> QED
    BY <2>3, <2>4
<1>5. ASSUME NEW w \in Ticks, ClaimJob(w) PROVE Ledger!Next \/ UNCHANGED Ledger!ledger
  <2>1. Job(w) \in Jobs /\ Job(w) \in PublishJobs \cup JourneyJobs
    BY <1>0, <1>5, DeliveryJobs DEF ClaimJob
  <2>2. UNCHANGED <<calls, published, approvals>> /\ SetJob(Job(w), "WAITING", "ENQUEUED")
    BY <1>5 DEF ClaimJob, KeepContent
  <2> QED
    BY <2>1, <2>2 DEF SetJob, Ledger!Next, Ledger!Claim, Ledger!Move, Ledger!ledger
<1>6. ASSUME NEW w \in Ticks, Request(w) PROVE Ledger!Next \/ UNCHANGED Ledger!ledger
  BY <1>2, <1>6 DEF Request, Authorize, KeepContent, Ledger!ledger
<1>7. ASSUME NEW w \in Ticks, SendMessage(w) \/ Execute(w) \/ TickDies(w) \/ \E j \in Jobs : TakeJob(w, j)
      PROVE  UNCHANGED Ledger!ledger
  BY <1>7 DEF SendMessage, Execute, TickDies, TakeJob, content, KeepContent, Ledger!ledger
<1>8. ASSUME NEW w \in Ticks, Publish(w) PROVE Ledger!Next
  <2>1. Job(w) \in Jobs /\ jobs[Job(w)] = "ENQUEUED" /\ calls[Job(w)] = 0
    BY <1>0, <1>8 DEF Publish, Owned, OwnsJob, CallsCounted, Delivering, Unpublished
  <2>2. calls' = [calls EXCEPT ![Job(w)] = 1] /\ UNCHANGED <<jobs, approvals>>
    BY <1>8, <2>1 DEF Publish, KeepContent
  <2>3. Read(w).version \in approvals /\ Job(w).version <= Read(w).version
    BY <1>8 DEF Publish, ApprovalsBound, VersionsKept
  <2>4. Read(w).version <= tick[w].body /\ tick[w].body \in 1..MaxVersion
    BY <1>8, TickFields DEF Publish, VersionsKept, Item
  <2>5. \/ UNCHANGED published
        \/ published' = [published EXCEPT ![Job(w)] = [version |-> Read(w).version, body |-> tick[w].body]]
    BY <1>8, <2>1 DEF Publish, Land, PipelineTypeOK
  <2>6. Ledger!Call(Job(w))
    BY <2>1, <2>2, <2>3, <2>4, <2>5 DEF Ledger!Call
  <2> QED
    BY <2>1, <2>6 DEF Ledger!Next
<1>9. ASSUME NEW w \in Ticks, Verify(w) PROVE Ledger!Next \/ UNCHANGED Ledger!ledger
  BY <1>2, <1>9 DEF Verify, KeepContent, Ledger!ledger
<1>10. ASSUME NEW w \in Ticks, Confirm(w) PROVE Ledger!Next \/ UNCHANGED Ledger!ledger
  <2>1. published[Job(w)] # Unsent
    BY <1>10 DEF Confirm, ReadBack
  <2> QED
    BY <1>0, <1>1, <1>10, <2>1 DEF Confirm, Report, KeepContent, Ledger!ledger
<1>11. ASSUME NEW w \in Ticks, Undo(w) PROVE Ledger!Next \/ UNCHANGED Ledger!ledger
  BY <1>2, <1>11 DEF Undo, KeepContent
<1> QED
  BY <1>3, <1>4, <1>5, <1>6, <1>7, <1>8, <1>9, <1>10, <1>11 DEF TickNext, TickStep

\* The schedule implements PublicationLedger (_run_delivery, execute_publication,
\* _reconcile): a delivery is claimed once and asked for at most once, for an
\* approved version that is no older than the scheduled one and a body that is no
\* older than that version; what has ended stays as it is.
THEOREM LedgerCorrect == Spec => LedgerKept
<1>1. IInv /\ VersionsKept /\ [Next]_vars => [UNCHANGED (Ledger!ledger) \/ Ledger!Next]_(Ledger!ledger)
  BY EditorsShown, TicksShown DEF Next, IInv, vars, content, pipeline, Ledger!ledger
<1> QED
  BY <1>1, LedgerInit, Inductive, VersionsInductive, PTL DEF Spec, LedgerKept

-----------------------------------------------------------------------------
(* What the ledger promises, of the schedule                               *)

\* What the provider was given is approved and no older than what was scheduled,
\* and the body is no older than the version it goes out as: it may be newer,
\* which is how PublishedBodyApproved fails.
GivenInOrder ==
  \A j \in Jobs : published[j] # Unsent =>
    /\ published[j].version \in approvals
    /\ j.version <= published[j].version /\ published[j].version <= published[j].body

EndedStatus == {"DELIVERED", "FAILED", "CANCELLED"}

\* What has ended stays as it is, and the provider is asked for nothing that has
\* not been claimed or was asked for before.
EndedStays(j) ==
  /\ jobs[j] \in EndedStatus => jobs'[j] = jobs[j]
  /\ jobs[j] # "ENQUEUED" \/ calls[j] # 0 => calls'[j] = calls[j] /\ published'[j] = published[j]

\* What is given is in order when it is given.
GivesInOrder(j) ==
  \/ published'[j] = published[j]
  \/ /\ published'[j].version \in approvals
     /\ j.version <= published'[j].version /\ published'[j].version <= published'[j].body

LEMMA LedgerJob ==
    ASSUME TypeOK, Ledger!Next, NEW j \in Jobs
    PROVE  EndedStays(j) /\ GivesInOrder(j) /\ approvals \subseteq approvals'
<1> USE DEF TypeOK, ContentTypeOK, PipelineTypeOK, EndedStays, GivesInOrder, EndedStatus
<1>1. ASSUME NEW k \in Jobs, NEW from \in {"none", "WAITING", "ENQUEUED"}, NEW to, Ledger!Move(k, from, to)
      PROVE  EndedStays(j) /\ UNCHANGED <<published, approvals>>
  BY <1>1 DEF Ledger!Move
<1>2. CASE Ledger!Cancel
  BY <1>2 DEF Ledger!Cancel
<1>3. ASSUME NEW v \in 1..MaxVersion, Ledger!Approve(v)
      PROVE  EndedStays(j) /\ GivesInOrder(j) /\ approvals \subseteq approvals'
  BY <1>3 DEF Ledger!Approve
<1>4. ASSUME NEW k \in Jobs, Ledger!Call(k)
      PROVE  EndedStays(j) /\ GivesInOrder(j) /\ UNCHANGED approvals
  <2>1. /\ UNCHANGED <<jobs, approvals>> /\ jobs[k] = "ENQUEUED" /\ calls[k] = 0
        /\ calls' = [calls EXCEPT ![k] = 1]
    BY <1>4 DEF Ledger!Call
  <2>2. CASE UNCHANGED published
    BY <2>1, <2>2
  <2>3. ASSUME NEW v \in approvals, NEW b \in 1..MaxVersion, k.version <= v, v <= b,
               published' = [published EXCEPT ![k] = [version |-> v, body |-> b]]
        PROVE  EndedStays(j) /\ GivesInOrder(j)
    BY <2>1, <2>3
  <2> QED
    BY <1>4, <2>1, <2>2, <2>3 DEF Ledger!Call
<1>5. CASE \E k \in Jobs : \/ Ledger!Schedule(k) \/ Ledger!Claim(k) \/ Ledger!Deliver(k)
                          \/ Ledger!Fail(k) \/ Ledger!Refresh(k)
  BY <1>1, <1>5 DEF Ledger!Schedule, Ledger!Claim, Ledger!Deliver, Ledger!Fail, Ledger!Refresh
<1> QED
  BY <1>2, <1>3, <1>4, <1>5 DEF Ledger!Next

\* A version that was edited, rejected or superseded while a tick was on its way
\* is not what goes out in its place: the version is approved and no older than
\* the scheduled one, the body no older than the version (_run_delivery reads the
\* item, execute_publication reads it and its body again).
THEOREM GivenCorrect == Spec => []GivenInOrder
<1>1. Init => GivenInOrder
  BY DEF Init, PipelineInit, GivenInOrder
<1>2. TypeOK /\ GivenInOrder /\ [Ledger!Next]_(Ledger!ledger) => GivenInOrder'
  <2> SUFFICES ASSUME TypeOK, GivenInOrder, [Ledger!Next]_(Ledger!ledger), NEW j \in Jobs,
                      published'[j] # Unsent
               PROVE  /\ published'[j].version \in approvals'
                      /\ j.version <= published'[j].version
                      /\ published'[j].version <= published'[j].body
    BY DEF GivenInOrder, Unsent
  <2>1. CASE Ledger!Next
    BY <2>1, LedgerJob DEF GivesInOrder, GivenInOrder
  <2>2. CASE UNCHANGED Ledger!ledger
    BY <2>2 DEF Ledger!ledger, GivenInOrder
  <2> QED
    BY <2>1, <2>2
<1>3. [UNCHANGED (Ledger!ledger) \/ Ledger!Next]_(Ledger!ledger) => [Ledger!Next]_(Ledger!ledger)
  OBVIOUS
<1> QED
  BY <1>1, <1>2, <1>3, TypeCorrect, LedgerCorrect, PTL DEF LedgerKept, Spec

\* A job that was delivered, failed or cancelled stays so, whatever editors, late
\* ticks and a second schedule call for the same key do (_set_job and _insert_job
\* compare the status), and the provider is not asked for it again.
THEOREM EndedCorrect == Spec => [][\A j \in Jobs : EndedStays(j)]_vars
<1>1. TypeOK /\ [UNCHANGED (Ledger!ledger) \/ Ledger!Next]_(Ledger!ledger) => \A j \in Jobs : EndedStays(j)
  BY LedgerJob DEF Ledger!ledger, EndedStays
<1> QED
  BY <1>1, TypeCorrect, LedgerCorrect, PTL DEF LedgerKept

===============================================================================
