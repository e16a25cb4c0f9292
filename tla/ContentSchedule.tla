---------------------------- MODULE ContentSchedule ----------------------------
(***************************************************************************)
(* A content item and its scheduled jobs: the editorial half of            *)
(* persistence/project_ops.py and calendar.py.  The approval, scheduling   *)
(* and journey calls end in one transaction that compares the state and    *)
(* the version they have read, so each is one step; an edit compares the   *)
(* version only, and is two.  Every job is due as soon as it is inserted:  *)
(* a later one is a job no tick has looked at yet.                         *)
(***************************************************************************)
EXTENDS Naturals, FiniteSets

CONSTANTS MaxVersion,  \* bound: versions of the item
          Times,       \* the times it can be scheduled for
          Steps,       \* steps of a journey that deliver it
          MaxJobs,     \* bound: jobs that are inserted
          Targets      \* bound: states that editors move the item to

ASSUME ScheduleAssumption == /\ MaxVersion \in Nat \ {0}
                             /\ MaxJobs \in Nat
                             /\ Times \cup Steps \subseteq Nat

\* A job is its idempotency key.
PublishJobs == [kind : {"PUBLISH"}, version : 1..MaxVersion, at : Times]
RefreshJobs == [kind : {"REFRESH"}, version : 1..MaxVersion, at : {0}]
JourneyJobs == [kind : {"LIFECYCLE"}, version : {0}, at : Steps]
Jobs == PublishJobs \cup RefreshJobs \cup JourneyJobs

\* agency/project_os/vocabulary.py.
CONTENT_TRANSITIONS ==
  [IDEA          |-> {"PLANNED", "ARCHIVED"},
   PLANNED       |-> {"IN_PRODUCTION", "ARCHIVED"},
   IN_PRODUCTION |-> {"REVIEW", "ARCHIVED"},
   REVIEW        |-> {"APPROVED", "IN_PRODUCTION", "ARCHIVED"},
   APPROVED      |-> {"READY", "IN_PRODUCTION", "ARCHIVED"},
   READY         |-> {"SCHEDULED", "IN_PRODUCTION", "ARCHIVED"},
   SCHEDULED     |-> {"DUE", "READY", "IN_PRODUCTION"},
   DUE           |-> {"PUBLISHING", "SCHEDULED", "IN_PRODUCTION"},
   PUBLISHING    |-> {"PUBLISHED", "SCHEDULED"},
   PUBLISHED     |-> {"VERIFIED"},
   VERIFIED      |-> {"MEASURED", "REFRESH_DUE", "ARCHIVED"},
   MEASURED      |-> {"REFRESH_DUE", "ARCHIVED"},
   REFRESH_DUE   |-> {"IN_PRODUCTION", "ARCHIVED"},
   ARCHIVED      |-> {}]

APPROVAL_BOUND_CONTENT_STATES == {"APPROVED", "READY", "SCHEDULED", "DUE", "PUBLISHING"}

VARIABLES item,       \* state, version, and the version its approval is bound to
          jobs,       \* scheduled_jobs: "none" or the status
          approvals,  \* versions with an APPROVED event in the activity stream
          edit        \* the edit in progress: the version it edits, the state it leaves

content == <<item, jobs, approvals, edit>>

ContentState == DOMAIN CONTENT_TRANSITIONS
CONTENT_REVIEW_STATES == {"REVIEW", "APPROVED", "READY", "SCHEDULED", "DUE"}
\* WAITING is PENDING or BLOCKED: every query of a status takes both.
JobStatus == {"WAITING", "ENQUEUED", "DELIVERED", "FAILED", "CANCELLED"}
Item == [state : ContentState, version : 1..MaxVersion, approved : 0..MaxVersion]
Seen(state, version, approved) == [state |-> state, version |-> version, approved |-> approved]
NoItem == Seen("IDEA", 1, 0)
NoEdit == [state |-> "none", version |-> 0]

ContentTypeOK ==
  /\ item \in Item
  /\ jobs \in [Jobs -> JobStatus \cup {"none"}]
  /\ approvals \subseteq 1..MaxVersion
  /\ edit \in [state : ContentState, version : 1..(MaxVersion - 1)] \cup {NoEdit}

\* create_content_item_from_atom.
ContentInit ==
  /\ item = Seen("PLANNED", 1, 0)
  /\ jobs = [j \in Jobs |-> "none"]
  /\ approvals = {}
  /\ edit = NoEdit

\* The jobs with those that wait cancelled (_cancel_item_jobs).
Cancelled == [j \in Jobs |-> IF jobs[j] = "WAITING" THEN "CANCELLED" ELSE jobs[j]]

\* assert_content_transition, for an item without release blockers.
MayMove(target) ==
  /\ target \in CONTENT_TRANSITIONS[item.state]
  /\ target \in APPROVAL_BOUND_CONTENT_STATES \ {"APPROVED"} => item.approved = item.version

\* transition_content_item.
TransitionItem(target) ==
  /\ MayMove(target)
  /\ LET approved ==
           CASE target = "APPROVED" -> item.version
             [] target = "IN_PRODUCTION" /\ item.state \in {"REVIEW", "APPROVED", "READY"} -> 0
             [] OTHER -> item.approved
     IN item' = Seen(target, item.version, approved)
  /\ jobs' = IF target \in {"IN_PRODUCTION", "ARCHIVED", "READY"}
                  /\ item.state \in {"SCHEDULED", "DUE", "READY", "APPROVED"}
             THEN Cancelled ELSE jobs
  /\ approvals' = IF target = "APPROVED" THEN approvals \cup {item.version} ELSE approvals
  /\ UNCHANGED <<edit>>

\* revise_content_item reads the item ...
OpenEdit ==
  /\ edit = NoEdit
  /\ item.version < MaxVersion
  /\ item.state \notin {"PUBLISHING", "PUBLISHED", "ARCHIVED"}
  /\ edit' = [version |-> item.version,
              state |-> IF item.state \in CONTENT_REVIEW_STATES THEN "IN_PRODUCTION"
                                                                ELSE item.state]
  /\ UNCHANGED <<item, jobs, approvals>>

\* ... and writes the new version if it has the old one still.
SaveEdit ==
  /\ edit # NoEdit
  /\ edit' = NoEdit
  /\ IF item.version = edit.version
     THEN /\ item' = Seen(edit.state, item.version + 1, item.approved)
          /\ jobs' = Cancelled
     ELSE UNCHANGED <<item, jobs>>
  /\ UNCHANGED <<approvals>>

\* Slip: the job gets the state of its item.
InsertAsItem(j) == jobs' = IF jobs[j] = "none" THEN [jobs EXCEPT ![j] = item.state] ELSE jobs

\* _insert_job: a key that exists is the job that exists, whatever its status.
InsertJob(j) == /\ jobs[j] = "none" => Cardinality({k \in Jobs : jobs[k] # "none"}) < MaxJobs
                /\ jobs' = IF jobs[j] = "none" THEN [jobs EXCEPT ![j] = "WAITING"] ELSE jobs

\* schedule_content_item.
ScheduleItem(at) ==
  /\ MayMove("SCHEDULED")
  /\ item' = Seen("SCHEDULED", item.version, item.approved)
  /\ InsertJob([kind |-> "PUBLISH", version |-> item.version, at |-> at])
  /\ UNCHANGED <<approvals, edit>>

\* schedule_refresh, of an item in any state.
ScheduleRefresh ==
  /\ InsertJob([kind |-> "REFRESH", version |-> item.version, at |-> 0])
  /\ UNCHANGED <<item, approvals, edit>>

\* One step of schedule_journey.
ScheduleStep(step) ==
  /\ InsertJob([kind |-> "LIFECYCLE", version |-> 0, at |-> step])
  /\ UNCHANGED <<item, approvals, edit>>

ContentNext == \/ \E target \in Targets : TransitionItem(target)
               \/ OpenEdit \/ SaveEdit \/ ScheduleRefresh
               \/ \E at \in Times : ScheduleItem(at)
               \/ \E step \in Steps : ScheduleStep(step)

===============================================================================
